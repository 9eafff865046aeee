---------------------------- MODULE VaSpaceProofs ---------------------------
(***************************************************************************)
(* The safety properties of VaSpace for any number of threads, GPU VA      *)
(* spaces and channels.  Every effect of a step keeps the parts of the     *)
(* invariant that do without counting, and is one that MmGate allows: one  *)
(* lemma per part, one case per kind of effect.  The two counts are exact; *)
(* so the invariant holds, and the properties follow from it.              *)
(***************************************************************************)
EXTENDS VaSpace, VaSpaceInv, FiniteSetTheorems, TLAPS

\* The provers' time limit for every step, in seconds
USE SMTT(40)

(***************************************************************************)
(* tlapm infers types for its SMT encoding, at a cost that grows with the  *)
(* obligations already treated.  A hypothesis with a CASE has no type, and *)
(* this one makes it encode the leaves of the module without types.        *)
(***************************************************************************)
LEMMA Untyped == \A x : (CASE x = 0 -> 1 [] OTHER -> 2) \in {1, 2}
  OBVIOUS

USE VaSpaceActors, Untyped

\* The calls move along their own paths.
LEMMA PcKept ==
    ASSUME PcInv, ObjInv, Effect
    PROVE  PcInv'
<1>1. ASSUME NEW u \in Users, NEW s \in Spaces, Registers(u, s) PROVE PcInv'
  BY <1>1 DEF Registers, Starts, Moves, PcInv, UserAt, EnderAt,
     FaultAt, ShutdownPcs, Threads, Enders
<1>2. ASSUME NEW u \in Users, NEW s \in Spaces, Unregisters(u, s) PROVE PcInv'
  BY <1>2 DEF Unregisters, Starts, Moves, PcInv, UserAt,
     EnderAt, FaultAt, ShutdownPcs, Threads, Enders
<1>3. ASSUME NEW u \in Users, NEW c \in Channels, UsesChannel(u, c)
      PROVE  PcInv'
  BY <1>3 DEF UsesChannel, Starts, Moves, PcInv, UserAt,
     EnderAt, FaultAt, ShutdownPcs, Threads, Enders
<1>4. ASSUME NEW u \in Users, Adds(u) PROVE PcInv'
  BY <1>4 DEF Adds, Moves, ObjInv, Creating, PcInv, UserAt,
     EnderAt, FaultAt, ShutdownPcs, Threads, Enders
<1>5. ASSUME NEW u \in Users, Removes(u) PROVE PcInv'
  BY <1>5 DEF Removes, Moves, PcInv, UserAt, EnderAt, FaultAt,
     ShutdownPcs, Threads, Enders
<1>6. ASSUME NEW u \in Users, Attaches(u) PROVE PcInv'
  BY <1>6 DEF Attaches, Moves, PcInv, UserAt, EnderAt, FaultAt,
     ShutdownPcs, Threads, Enders
<1>7. ASSUME NEW t \in Threads, Goes(t) PROVE PcInv'
  BY <1>7 DEF Goes, CallsNotifier, Moves, PcInv, UserAt,
     EnderAt, FaultAt, ShutdownPcs, Threads, Enders
<1>8. ASSUME NEW t \in Threads, RetainsLater(t) PROVE PcInv'
  BY <1>8 DEF RetainsLater, Moves, PcInv, UserAt, EnderAt,
     FaultAt, ShutdownPcs, Threads, Enders
<1>9. ASSUME NEW t \in Threads, Releases(t) PROVE PcInv'
  BY <1>9 DEF Releases, PcInv, UserAt, EnderAt, FaultAt,
     ShutdownPcs, Threads, Enders
<1>10. ASSUME NEW t \in Users \cup Enders, Frees(t) PROVE PcInv'
  BY <1>10 DEF Frees, Moves, PcInv, UserAt, EnderAt, FaultAt,
     ShutdownPcs, Threads, Enders
<1>11. ASSUME NEW t \in Users \cup Enders, Destroys(t) PROVE PcInv'
  BY <1>11 DEF Destroys, PcInv, UserAt, EnderAt, FaultAt,
     ShutdownPcs, Threads, Enders
<1>12. ASSUME NEW t \in Enders, ShutsDown(t) PROVE PcInv'
  BY <1>12 DEF ShutsDown, PcInv, UserAt, EnderAt, FaultAt,
     ShutdownPcs, Threads, Enders
<1>13. ASSUME Closes PROVE PcInv'
  BY <1>13 DEF Closes, Moves, PcInv, UserAt, EnderAt, FaultAt,
     ShutdownPcs, Threads, Enders
<1>14. ASSUME UnregistersAll PROVE PcInv'
  BY <1>14 DEF UnregistersAll, Moves, PcInv, UserAt, EnderAt,
     FaultAt, ShutdownPcs, Threads, Enders
<1>15. ASSUME NEW c \in Channels \cup {NONE}, Faults(c) PROVE PcInv'
  BY <1>15 DEF Faults, Moves, PcInv, UserAt, EnderAt, FaultAt,
     ShutdownPcs, Threads, Enders
<1> QED
  BY <1>1, <1>2, <1>3, <1>4, <1>5, <1>6, <1>7, <1>8, <1>9, <1>10, <1>11, <1>12,
     <1>13, <1>14, <1>15 DEF Effect

\* The lock has the owner that the places of the threads say.
LEMMA LockKept ==
    ASSUME PcInv, LockInv, Effect
    PROVE  LockInv'
<1>1. ASSUME NEW u \in Users, NEW s \in Spaces, Registers(u, s) PROVE LockInv'
  BY <1>1 DEF Registers, Starts, Moves, LockInv, CanWrite,
     Threads, Enders
<1>2. ASSUME NEW u \in Users, NEW s \in Spaces, Unregisters(u, s)
      PROVE  LockInv'
  BY <1>2 DEF Unregisters, Starts, Moves, LockInv, CanWrite,
     Threads, Enders
<1>3. ASSUME NEW u \in Users, NEW c \in Channels, UsesChannel(u, c)
      PROVE  LockInv'
  BY <1>3 DEF UsesChannel, Starts, Moves, LockInv, CanWrite,
     Threads, Enders
<1>4. ASSUME NEW u \in Users, Adds(u) PROVE LockInv'
  BY <1>4 DEF Adds, Moves, LockInv, CanWrite, Threads, Enders
<1>5. ASSUME NEW u \in Users, Removes(u) PROVE LockInv'
  BY <1>5 DEF Removes, Moves, LockInv, CanWrite, Threads, Enders
<1>6. ASSUME NEW u \in Users, Attaches(u) PROVE LockInv'
  BY <1>6 DEF Attaches, Moves, PcInv, UserAt, EnderAt,
     ShutdownPcs, LockInv, CanWrite, Threads, Enders
<1>7. ASSUME NEW t \in Threads, Goes(t) PROVE LockInv'
  BY <1>7 DEF Goes, CallsNotifier, Moves, PcInv, UserAt,
     EnderAt, ShutdownPcs, LockInv, CanWrite, Threads, Enders
<1>8. ASSUME NEW t \in Threads, RetainsLater(t) PROVE LockInv'
  BY <1>8 DEF RetainsLater, Moves, LockInv, CanWrite, Threads,
     Enders
<1>9. ASSUME NEW t \in Threads, Releases(t) PROVE LockInv'
  BY <1>9 DEF Releases, PcInv, UserAt, EnderAt, ShutdownPcs,
     LockInv, CanWrite, Threads, Enders
<1>10. ASSUME NEW t \in Users \cup Enders, Frees(t) PROVE LockInv'
  BY <1>10 DEF Frees, Moves, PcInv, UserAt, EnderAt,
     ShutdownPcs, LockInv, CanWrite, Threads, Enders
<1>11. ASSUME NEW t \in Users \cup Enders, Destroys(t) PROVE LockInv'
  BY <1>11 DEF Destroys, PcInv, UserAt, EnderAt, ShutdownPcs,
     LockInv, CanWrite, Threads, Enders
<1>12. ASSUME NEW t \in Enders, ShutsDown(t) PROVE LockInv'
  BY <1>12 DEF ShutsDown, LockInv, CanWrite, Threads, Enders
<1>13. ASSUME Closes PROVE LockInv'
  BY <1>13 DEF Closes, Moves, PcInv, UserAt, EnderAt,
     ShutdownPcs, LockInv, CanWrite, Threads, Enders
<1>14. ASSUME UnregistersAll PROVE LockInv'
  BY <1>14 DEF UnregistersAll, Moves, LockInv, CanWrite,
     Threads, Enders
<1>15. ASSUME NEW c \in Channels \cup {NONE}, Faults(c) PROVE LockInv'
  BY <1>15 DEF Faults, Moves, LockInv, CanWrite, Threads, Enders
<1> QED
  BY <1>1, <1>2, <1>3, <1>4, <1>5, <1>6, <1>7, <1>8, <1>9, <1>10, <1>11, <1>12,
     <1>13, <1>14, <1>15 DEF Effect

\* A process that exits, and a file that is closed, have no thread left in a call.
LEMMA EndKept ==
    ASSUME PcInv, EndInv, Effect
    PROVE  EndInv'
<1>1. ASSUME NEW u \in Users, NEW s \in Spaces, Registers(u, s) PROVE EndInv'
  BY <1>1, VaSpaceConstants DEF Registers, Starts, Moves,
     EndInv, SameFlags, Threads, Enders
<1>2. ASSUME NEW u \in Users, NEW s \in Spaces, Unregisters(u, s) PROVE EndInv'
  BY <1>2, VaSpaceConstants DEF Unregisters, Starts, Moves,
     EndInv, SameFlags, Threads, Enders
<1>3. ASSUME NEW u \in Users, NEW c \in Channels, UsesChannel(u, c)
      PROVE  EndInv'
  BY <1>3, VaSpaceConstants DEF UsesChannel, Starts, Moves,
     EndInv, SameFlags, Threads, Enders
<1>4. ASSUME NEW u \in Users, Adds(u) PROVE EndInv'
  BY <1>4, VaSpaceConstants DEF Adds, Moves, EndInv, SameFlags,
     Threads, Enders
<1>5. ASSUME NEW u \in Users, Removes(u) PROVE EndInv'
  BY <1>5, VaSpaceConstants DEF Removes, Moves, EndInv,
     SameFlags, Threads, Enders
<1>6. ASSUME NEW u \in Users, Attaches(u) PROVE EndInv'
  BY <1>6, VaSpaceConstants DEF Attaches, Moves, EndInv,
     SameFlags, Threads, Enders
<1>7. ASSUME NEW t \in Threads, Goes(t) PROVE EndInv'
  BY <1>7, VaSpaceConstants DEF Goes, CallsNotifier, Moves,
     EndInv, SameFlags, Threads, Enders
<1>8. ASSUME NEW t \in Threads, RetainsLater(t) PROVE EndInv'
  BY <1>8, VaSpaceConstants DEF RetainsLater, Moves, EndInv,
     SameFlags, Threads, Enders
<1>9. ASSUME NEW t \in Threads, Releases(t) PROVE EndInv'
  BY <1>9, VaSpaceConstants DEF Releases, EndInv, SameFlags,
     Threads, Enders
<1>10. ASSUME NEW t \in Users \cup Enders, Frees(t) PROVE EndInv'
  BY <1>10, VaSpaceConstants DEF Frees, Moves, EndInv,
     SameFlags, Threads, Enders
<1>11. ASSUME NEW t \in Users \cup Enders, Destroys(t) PROVE EndInv'
  BY <1>11, VaSpaceConstants DEF Destroys, EndInv, SameFlags,
     Threads, Enders
<1>12. ASSUME NEW t \in Enders, ShutsDown(t) PROVE EndInv'
  BY <1>12, VaSpaceConstants DEF ShutsDown, EndInv, SameFlags,
     Threads, Enders
<1>13. ASSUME Closes PROVE EndInv'
  BY <1>13, VaSpaceConstants DEF Closes, Moves, EndInv,
     SameFlags, Threads, Enders
<1>14. ASSUME UnregistersAll PROVE EndInv'
  BY <1>14, VaSpaceConstants DEF UnregistersAll, Moves, EndInv,
     SameFlags, Threads, Enders
<1>15. ASSUME NEW c \in Channels \cup {NONE}, Faults(c) PROVE EndInv'
  BY <1>15, VaSpaceConstants DEF Faults, Moves, EndInv,
     SameFlags, Threads, Enders
<1> QED
  BY <1>1, <1>2, <1>3, <1>4, <1>5, <1>6, <1>7, <1>8, <1>9, <1>10, <1>11, <1>12,
     <1>13, <1>14, <1>15 DEF Effect

\* No two threads create or destroy the same GPU VA space.
LEMMA ObjKept ==
    ASSUME PcInv, ObjInv, Effect
    PROVE  ObjInv'
<1>1. ASSUME NEW u \in Users, NEW s \in Spaces, Registers(u, s) PROVE ObjInv'
  BY <1>1 DEF Registers, Starts, Moves, Unused, Threads, ObjInv,
     Creating, Dying, Registered, SameSpaces
<1>2. ASSUME NEW u \in Users, NEW s \in Spaces, Unregisters(u, s) PROVE ObjInv'
  BY <1>2 DEF Unregisters, Starts, Moves, Threads, ObjInv,
     Creating, Dying, Registered, SameSpaces
<1>3. ASSUME NEW u \in Users, NEW c \in Channels, UsesChannel(u, c)
      PROVE  ObjInv'
  BY <1>3 DEF UsesChannel, Starts, Moves, ObjInv, Creating,
     Dying, Registered, SameSpaces
<1>4. ASSUME NEW u \in Users, Adds(u) PROVE ObjInv'
  BY <1>4 DEF Adds, Moves, MayRegister, Threads, ObjInv,
     Creating, Dying, Registered, SameSpaces
<1>5. ASSUME NEW u \in Users, Removes(u) PROVE ObjInv'
  BY <1>5 DEF Removes, Moves, Threads, ObjInv, Creating, Dying,
     Registered, SameSpaces
<1>6. ASSUME NEW u \in Users, Attaches(u) PROVE ObjInv'
  BY <1>6 DEF Attaches, Moves, ObjInv, Creating, Dying,
     Registered, SameSpaces
<1>7. ASSUME NEW t \in Threads, Goes(t) PROVE ObjInv'
  BY <1>7 DEF Goes, CallsNotifier, Moves, ObjInv, Creating,
     Dying, Registered, SameSpaces
<1>8. ASSUME NEW t \in Threads, RetainsLater(t) PROVE ObjInv'
  BY <1>8 DEF RetainsLater, Moves, ObjInv, Creating, Dying,
     Registered, SameSpaces
<1>9. ASSUME NEW t \in Threads, Releases(t) PROVE ObjInv'
  BY <1>9 DEF Releases, ObjInv, Creating, Dying, Registered,
     SameSpaces
<1>10. ASSUME NEW t \in Users \cup Enders, Frees(t) PROVE ObjInv'
  BY <1>10 DEF Frees, Moves, ObjInv, Creating, Dying,
     Registered, SameSpaces
<1>11. ASSUME NEW t \in Users \cup Enders, Destroys(t) PROVE ObjInv'
  BY <1>11 DEF Destroys, ObjInv, Creating, Dying, Registered,
     SameSpaces
<1>12. ASSUME NEW t \in Enders, ShutsDown(t) PROVE ObjInv'
  BY <1>12 DEF ShutsDown, ObjInv, Creating, Dying, Registered,
     SameSpaces
<1>13. ASSUME Closes PROVE ObjInv'
  BY <1>13 DEF Closes, Moves, ObjInv, Creating, Dying,
     Registered, SameSpaces
<1>14. ASSUME UnregistersAll PROVE ObjInv'
  BY <1>14 DEF UnregistersAll, Moves, ObjInv, Creating, Dying,
     Registered, SameSpaces
<1>15. ASSUME NEW c \in Channels \cup {NONE}, Faults(c) PROVE ObjInv'
  BY <1>15 DEF Faults, Moves, ObjInv, Creating, Dying,
     Registered, SameSpaces
<1> QED
  BY <1>1, <1>2, <1>3, <1>4, <1>5, <1>6, <1>7, <1>8, <1>9, <1>10, <1>11, <1>12,
     <1>13, <1>14, <1>15 DEF Effect

-----------------------------------------------------------------------------
\* No channel is in two hands.
LEMMA ChanKept ==
    ASSUME PcInv, ChanInv, Effect
    PROVE  ChanInv'
<1>1. ASSUME NEW u \in Users, NEW s \in Spaces, Registers(u, s) PROVE ChanInv'
  BY <1>1 DEF Registers, Starts, Moves, ChanInv, New,
     SameChannels, Threads, Enders
<1>2. ASSUME NEW u \in Users, NEW s \in Spaces, Unregisters(u, s)
      PROVE  ChanInv'
  BY <1>2 DEF Unregisters, Starts, Moves, ChanInv, New,
     SameChannels, Threads, Enders
<1>3. ASSUME NEW u \in Users, NEW c \in Channels, UsesChannel(u, c)
      PROVE  ChanInv'
  BY <1>3 DEF UsesChannel, Starts, Moves, Registered, ChanInv,
     New, SameChannels, Threads, Enders
<1>4. ASSUME NEW u \in Users, Adds(u) PROVE ChanInv'
  BY <1>4 DEF Adds, Moves, ChanInv, New, SameChannels, Threads,
     Enders
<1>5. ASSUME NEW u \in Users, Removes(u) PROVE ChanInv'
  BY <1>5 DEF Removes, Moves, Detach, ChannelsOf, ChanInv, New,
     SameChannels, Threads, Enders
<1>6. ASSUME NEW u \in Users, Attaches(u) PROVE ChanInv'
  BY <1>6 DEF Attaches, Moves, Detach, PcInv, UserAt, ChanInv,
     New, SameChannels, Threads, Enders
<1>7. ASSUME NEW t \in Threads, Goes(t) PROVE ChanInv'
  BY <1>7 DEF Goes, CallsNotifier, Moves, ChanInv, New,
     SameChannels, Threads, Enders
<1>8. ASSUME NEW t \in Threads, RetainsLater(t) PROVE ChanInv'
  BY <1>8 DEF RetainsLater, Moves, ChanInv, New, SameChannels,
     Threads, Enders
<1>9. ASSUME NEW t \in Threads, Releases(t) PROVE ChanInv'
  BY <1>9 DEF Releases, ChanInv, New, SameChannels, Threads,
     Enders
<1>10. ASSUME NEW t \in Users \cup Enders, Frees(t) PROVE ChanInv'
  BY <1>10 DEF Frees, Moves, PcInv, UserAt, EnderAt, ChanInv,
     New, SameChannels, Threads, Enders
<1>11. ASSUME NEW t \in Users \cup Enders, Destroys(t) PROVE ChanInv'
  BY <1>11 DEF Destroys, ChanInv, New, SameChannels, Threads,
     Enders
<1>12. ASSUME NEW t \in Enders, ShutsDown(t) PROVE ChanInv'
  BY <1>12 DEF ShutsDown, Detach, ChanInv, New, SameChannels,
     Threads, Enders
<1>13. ASSUME Closes PROVE ChanInv'
  BY <1>13 DEF Closes, Moves, ChanInv, New, SameChannels,
     Threads, Enders
<1>14. ASSUME UnregistersAll PROVE ChanInv'
  BY <1>14 DEF UnregistersAll, Moves, Detach, ChanInv, New,
     SameChannels, Threads, Enders
<1>15. ASSUME NEW c \in Channels \cup {NONE}, Faults(c) PROVE ChanInv'
  BY <1>15 DEF Faults, Moves, ChanInv, New, SameChannels,
     Threads, Enders
<1> QED
  BY <1>1, <1>2, <1>3, <1>4, <1>5, <1>6, <1>7, <1>8, <1>9, <1>10, <1>11, <1>12,
     <1>13, <1>14, <1>15 DEF Effect

\* Every caller of uvm_user_channel_detach has stopped the channel before, in an
\* earlier section of the lock.
LEMMA RunKept ==
    ASSUME PcInv, LockInv, ObjInv, ChanInv, RunInv, Effect
    PROVE  RunInv'
<1>1. ASSUME NEW u \in Users, NEW s \in Spaces, Registers(u, s) PROVE RunInv'
  BY <1>1 DEF Registers, Starts, Moves, ObjInv, LockInv, Unused,
     RunInv, RunningIsRegistered, InShutdown, Registered, SameChannels,
     SameSpaces, SameFlags, Threads, Enders
<1>2. ASSUME NEW u \in Users, NEW s \in Spaces, Unregisters(u, s) PROVE RunInv'
  BY <1>2 DEF Unregisters, Starts, Moves, ObjInv, LockInv,
     ChannelsOf, ChanInv, RunInv, RunningIsRegistered, InShutdown, Registered,
     SameChannels, SameSpaces, SameFlags, Threads, Enders
<1>3. ASSUME NEW u \in Users, NEW c \in Channels, UsesChannel(u, c)
      PROVE  RunInv'
  BY <1>3 DEF UsesChannel, Starts, Moves, LockInv, ChanInv,
     ObjInv, RunInv, RunningIsRegistered, InShutdown, Registered, SameChannels,
     SameSpaces, SameFlags, Threads, Enders
<1>4. ASSUME NEW u \in Users, Adds(u) PROVE RunInv'
  BY <1>4 DEF Adds, Moves, ObjInv, Creating, RunInv,
     RunningIsRegistered, InShutdown, Registered, SameChannels, SameSpaces,
     SameFlags, Threads, Enders
<1>5. ASSUME NEW u \in Users, Removes(u) PROVE RunInv'
  BY <1>5 DEF Removes, Moves, Detach, ChannelsOf, CanWrite,
     ObjInv, ChanInv, RunInv, RunningIsRegistered, InShutdown, Registered,
     SameChannels, SameSpaces, SameFlags, Threads, Enders
<1>6. ASSUME NEW u \in Users, Attaches(u) PROVE RunInv'
  BY <1>6 DEF Attaches, Moves, LockInv, Detach, MayInsert,
     CanWrite, ChanInv, New, RunInv, RunningIsRegistered, InShutdown,
     Registered, SameChannels, SameSpaces, SameFlags, Threads, Enders
<1>7. ASSUME NEW t \in Threads, Goes(t) PROVE RunInv'
  BY <1>7 DEF Goes, CallsNotifier, Moves, RunInv,
     RunningIsRegistered, InShutdown, Registered, SameChannels, SameSpaces,
     SameFlags, Threads, Enders
<1>8. ASSUME NEW t \in Threads, RetainsLater(t) PROVE RunInv'
  BY <1>8 DEF RetainsLater, Moves, RunInv, RunningIsRegistered,
     InShutdown, Registered, SameChannels, SameSpaces, SameFlags, Threads,
     Enders
<1>9. ASSUME NEW t \in Threads, Releases(t) PROVE RunInv'
  BY <1>9 DEF Releases, LockInv, PcInv, UserAt, RunInv,
     RunningIsRegistered, InShutdown, Registered, SameChannels, SameSpaces,
     SameFlags, Threads, Enders
<1>10. ASSUME NEW t \in Users \cup Enders, Frees(t) PROVE RunInv'
  BY <1>10 DEF Frees, Moves, LockInv, PcInv, UserAt, EnderAt,
     RunInv, RunningIsRegistered, InShutdown, Registered, SameChannels,
     SameSpaces, SameFlags, Threads, Enders
<1>11. ASSUME NEW t \in Users \cup Enders, Destroys(t) PROVE RunInv'
  BY <1>11 DEF Destroys, ObjInv, Dying, RunInv,
     RunningIsRegistered, InShutdown, Registered, SameChannels, SameSpaces,
     SameFlags, Threads, Enders
<1>12. ASSUME NEW t \in Enders, ShutsDown(t) PROVE RunInv'
  BY <1>12 DEF ShutsDown, Detach, ChanInv, RunInv,
     RunningIsRegistered, InShutdown, Registered, SameChannels, SameSpaces,
     SameFlags, Threads, Enders
<1>13. ASSUME Closes PROVE RunInv'
  BY <1>13 DEF Closes, Moves, LockInv, RunInv,
     RunningIsRegistered, InShutdown, Registered, SameChannels, SameSpaces,
     SameFlags, Threads, Enders
<1>14. ASSUME UnregistersAll PROVE RunInv'
  BY <1>14 DEF UnregistersAll, Moves, Detach, ChanInv, CanWrite,
     LockInv, RunInv, RunningIsRegistered, InShutdown, Registered,
     SameChannels, SameSpaces, SameFlags, Threads, Enders
<1>15. ASSUME NEW c \in Channels \cup {NONE}, Faults(c) PROVE RunInv'
  BY <1>15 DEF Faults, Moves, ChanInv, LockInv, RunInv,
     RunningIsRegistered, InShutdown, Registered, SameChannels, SameSpaces,
     SameFlags, Threads, Enders
<1> QED
  BY <1>1, <1>2, <1>3, <1>4, <1>5, <1>6, <1>7, <1>8, <1>9, <1>10, <1>11, <1>12,
     <1>13, <1>14, <1>15 DEF Effect

\* An instance pointer outlives the faults it is in.
LEMMA FaultKept ==
    ASSUME PcInv, LockInv, ChanInv, RunInv, EndInv, FaultInv, Effect
    PROVE  FaultInv'
<1>1. ASSUME NEW u \in Users, NEW s \in Spaces, Registers(u, s) PROVE FaultInv'
  BY <1>1, VaSpaceConstants DEF Registers, Starts, Moves,
     FaultInv, Emptied, InShutdown, SameChannels, SameFlags, Threads, Enders
<1>2. ASSUME NEW u \in Users, NEW s \in Spaces, Unregisters(u, s)
      PROVE  FaultInv'
  BY <1>2, VaSpaceConstants DEF Unregisters, Starts, Moves,
     FaultInv, Emptied, InShutdown, SameChannels, SameFlags, Threads, Enders
<1>3. ASSUME NEW u \in Users, NEW c \in Channels, UsesChannel(u, c)
      PROVE  FaultInv'
  BY <1>3, VaSpaceConstants DEF UsesChannel, Starts, Moves,
     ChanInv, FaultInv, Emptied, InShutdown, SameChannels, SameFlags, Threads,
     Enders
<1>4. ASSUME NEW u \in Users, Adds(u) PROVE FaultInv'
  BY <1>4, VaSpaceConstants DEF Adds, Moves, FaultInv, Emptied,
     InShutdown, SameChannels, SameFlags, Threads, Enders
<1>5. ASSUME NEW u \in Users, Removes(u) PROVE FaultInv'
  BY <1>5, VaSpaceConstants DEF Removes, Moves, Detach, ChanInv,
     FaultInv, Emptied, InShutdown, SameChannels, SameFlags, Threads, Enders
<1>6. ASSUME NEW u \in Users, Attaches(u) PROVE FaultInv'
  BY <1>6, VaSpaceConstants DEF Attaches, Moves, Detach,
     ChanInv, RunInv, LockInv, EndInv, PcInv, UserAt, EnderAt, ShutdownPcs,
     FaultInv, Emptied, InShutdown, SameChannels, SameFlags, Threads, Enders
<1>7. ASSUME NEW t \in Threads, Goes(t) PROVE FaultInv'
  BY <1>7, VaSpaceConstants DEF Goes, CallsNotifier, Moves,
     EndInv, PcInv, EnderAt, ShutdownPcs, FaultInv, Emptied, InShutdown,
     SameChannels, SameFlags, Threads, Enders
<1>8. ASSUME NEW t \in Threads, RetainsLater(t) PROVE FaultInv'
  BY <1>8, VaSpaceConstants DEF RetainsLater, Moves, FaultInv,
     Emptied, InShutdown, SameChannels, SameFlags, Threads, Enders
<1>9. ASSUME NEW t \in Threads, Releases(t) PROVE FaultInv'
  BY <1>9, VaSpaceConstants DEF Releases, FaultInv, Emptied,
     InShutdown, SameChannels, SameFlags, Threads, Enders
<1>10. ASSUME NEW t \in Users \cup Enders, Frees(t) PROVE FaultInv'
  BY <1>10, VaSpaceConstants DEF Frees, Moves, ChanInv,
     Flushable, PcInv, EnderAt, FaultAt, FaultInv, Emptied, InShutdown,
     SameChannels, SameFlags, Threads, Enders
<1>11. ASSUME NEW t \in Users \cup Enders, Destroys(t) PROVE FaultInv'
  BY <1>11, VaSpaceConstants DEF Destroys, FaultInv, Emptied,
     InShutdown, SameChannels, SameFlags, Threads, Enders
<1>12. ASSUME NEW t \in Enders, ShutsDown(t) PROVE FaultInv'
  BY <1>12, VaSpaceConstants DEF ShutsDown, Detach, Flushable,
     FaultInv, Emptied, InShutdown, SameChannels, SameFlags, Threads, Enders
<1>13. ASSUME Closes PROVE FaultInv'
  BY <1>13, VaSpaceConstants DEF Closes, Moves, FaultInv,
     Emptied, InShutdown, SameChannels, SameFlags, Threads, Enders
<1>14. ASSUME UnregistersAll PROVE FaultInv'
  BY <1>14, VaSpaceConstants DEF UnregistersAll, Moves, Detach,
     RunInv, RunningIsRegistered, ChanInv, FaultInv, Emptied, InShutdown,
     SameChannels, SameFlags, Threads, Enders
<1>15. ASSUME NEW c \in Channels \cup {NONE}, Faults(c) PROVE FaultInv'
  BY <1>15, VaSpaceConstants DEF Faults, Moves, ChanInv, RunInv,
     RunningIsRegistered, FaultInv, Emptied, InShutdown, SameChannels,
     SameFlags, Threads, Enders
<1> QED
  BY <1>1, <1>2, <1>3, <1>4, <1>5, <1>6, <1>7, <1>8, <1>9, <1>10, <1>11, <1>12,
     <1>13, <1>14, <1>15 DEF Effect

-----------------------------------------------------------------------------
\* A page directory that is set has somebody to unset it.
LEMMA UnsetKept ==
    ASSUME PcInv, ObjInv, UnsetInv, Effect
    PROVE  UnsetInv'
<1>1. ASSUME NEW u \in Users, NEW s \in Spaces, Registers(u, s) PROVE UnsetInv'
  BY <1>1 DEF Registers, Starts, Moves, Unused, ObjInv, Threads,
     UnsetInv, Unsets, Setter, Pending, Registered, SameSpaces
<1>2. ASSUME NEW u \in Users, NEW s \in Spaces, Unregisters(u, s)
      PROVE  UnsetInv'
  BY <1>2 DEF Unregisters, Starts, Moves, ObjInv, Threads,
     UnsetInv, Unsets, Setter, Pending, Registered, SameSpaces
<1>3. ASSUME NEW u \in Users, NEW c \in Channels, UsesChannel(u, c)
      PROVE  UnsetInv'
  BY <1>3 DEF UsesChannel, Starts, Moves, UnsetInv, Unsets,
     Setter, Pending, Registered, SameSpaces
<1>4. ASSUME NEW u \in Users, Adds(u) PROVE UnsetInv'
  BY <1>4 DEF Adds, Moves, ObjInv, Creating, Threads,
     MayRegister, UnsetInv, Unsets, Setter, Pending, Registered, SameSpaces
<1>5. ASSUME NEW u \in Users, Removes(u) PROVE UnsetInv'
  BY <1>5 DEF Removes, Moves, ObjInv, Dying, Threads, UnsetInv,
     Unsets, Setter, Pending, Registered, SameSpaces
<1>6. ASSUME NEW u \in Users, Attaches(u) PROVE UnsetInv'
  BY <1>6 DEF Attaches, Moves, UnsetInv, Unsets, Setter,
     Pending, Registered, SameSpaces
<1>7. ASSUME NEW t \in Threads, Goes(t) PROVE UnsetInv'
  BY <1>7 DEF Goes, CallsNotifier, Moves, UnsetInv, Unsets,
     Setter, Pending, Registered, SameSpaces
<1>8. ASSUME NEW t \in Threads, RetainsLater(t) PROVE UnsetInv'
  BY <1>8 DEF RetainsLater, Moves, UnsetInv, Unsets, Setter,
     Pending, Registered, SameSpaces
<1>9. ASSUME NEW t \in Threads, Releases(t) PROVE UnsetInv'
  BY <1>9 DEF Releases, UnsetInv, Unsets, Setter, Pending,
     Registered, SameSpaces
<1>10. ASSUME NEW t \in Users \cup Enders, Frees(t) PROVE UnsetInv'
  BY <1>10 DEF Frees, Moves, UnsetInv, Unsets, Setter, Pending,
     Registered, SameSpaces
<1>11. ASSUME NEW t \in Users \cup Enders, Destroys(t) PROVE UnsetInv'
  BY <1>11 DEF Destroys, ObjInv, Dying, Threads, UnsetInv,
     Unsets, Setter, Pending, Registered, SameSpaces
<1>12. ASSUME NEW t \in Enders, ShutsDown(t) PROVE UnsetInv'
  BY <1>12 DEF ShutsDown, UnsetInv, Unsets, Setter, Pending,
     Registered, SameSpaces
<1>13. ASSUME Closes PROVE UnsetInv'
  BY <1>13 DEF Closes, Moves, UnsetInv, Unsets, Setter, Pending,
     Registered, SameSpaces
<1>14. ASSUME UnregistersAll PROVE UnsetInv'
  <2>1. ASSUME NEW s \in page_dir, s \in Registered PROVE Unsets("close", s)'
    BY <1>14, <2>1 DEF UnregistersAll, Moves, ObjInv, Registered, Unsets, Pending
  <2>2. ASSUME NEW s \in page_dir, NEW t \in Threads, Unsets(t, s) PROVE Unsets(t, s)'
    <3>1. t # "close"
      BY <1>14, <2>2 DEF UnregistersAll, Unsets, Setter, Pending
    <3> QED
      BY <1>14, <2>2, <3>1 DEF UnregistersAll, Moves, ObjInv, Unsets, Setter, Pending
  <2> QED
    BY <1>14, <2>1, <2>2 DEF UnregistersAll, Moves, UnsetInv
<1>15. ASSUME NEW c \in Channels \cup {NONE}, Faults(c) PROVE UnsetInv'
  BY <1>15 DEF Faults, Moves, UnsetInv, Unsets, Setter, Pending,
     Registered, SameSpaces
<1> QED
  BY <1>1, <1>2, <1>3, <1>4, <1>5, <1>6, <1>7, <1>8, <1>9, <1>10, <1>11, <1>12,
     <1>13, <1>14, <1>15 DEF Effect

\* Whoever sets a page directory retained the mm before it was dead.
LEMMA SetterKept ==
    ASSUME PcInv, ObjInv, UnsetInv, QuietInv, SetterInv, Effect
    PROVE  SetterInv'
<1>1. ASSUME NEW u \in Users, NEW s \in Spaces, Registers(u, s)
      PROVE  SetterInv'
  BY <1>1, VaSpaceConstants DEF Registers, Starts, Moves,
     Retains, Unused, ObjInv, SetterInv, Setter, Creating, SameSpaces, SameMm,
     SameFlags, Threads, Enders
<1>2. ASSUME NEW u \in Users, NEW s \in Spaces, Unregisters(u, s)
      PROVE  SetterInv'
  BY <1>2, VaSpaceConstants DEF Unregisters, Starts, Moves,
     SetterInv, Setter, Creating, SameSpaces, SameMm, SameFlags, Threads,
     Enders
<1>3. ASSUME NEW u \in Users, NEW c \in Channels, UsesChannel(u, c)
      PROVE  SetterInv'
  BY <1>3, VaSpaceConstants DEF UsesChannel, Starts, Moves,
     SetterInv, Setter, Creating, SameSpaces, SameMm, SameFlags, Threads,
     Enders
<1>4. ASSUME NEW u \in Users, Adds(u) PROVE SetterInv'
  BY <1>4, VaSpaceConstants DEF Adds, Moves, ObjInv, SetterInv,
     Setter, Creating, SameSpaces, SameMm, SameFlags, Threads, Enders
<1>5. ASSUME NEW u \in Users, Removes(u) PROVE SetterInv'
  BY <1>5, VaSpaceConstants DEF Removes, Moves, ObjInv,
     SetterInv, Setter, Creating, SameSpaces, SameMm, SameFlags, Threads,
     Enders
<1>6. ASSUME NEW u \in Users, Attaches(u) PROVE SetterInv'
  BY <1>6, VaSpaceConstants DEF Attaches, Moves, SetterInv,
     Setter, Creating, SameSpaces, SameMm, SameFlags, Threads, Enders
<1>7. ASSUME NEW t \in Threads, Goes(t) PROVE SetterInv'
  BY <1>7, VaSpaceConstants DEF Goes, CallsNotifier, Moves,
     MayRegister, ObjInv, UnsetInv, Unsets, Pending, Registered, SetterInv,
     Setter, Creating, SameSpaces, SameMm, SameFlags, Threads, Enders
<1>8. ASSUME NEW t \in Threads, RetainsLater(t) PROVE SetterInv'
  BY <1>8, VaSpaceConstants DEF RetainsLater, Moves, Retains,
     SetterInv, Setter, Creating, SameSpaces, SameMm, SameFlags, Threads,
     Enders
<1>9. ASSUME NEW t \in Threads, Releases(t) PROVE SetterInv'
  BY <1>9, VaSpaceConstants DEF Releases, SetterInv, Setter,
     Creating, SameSpaces, SameMm, SameFlags, Threads, Enders
<1>10. ASSUME NEW t \in Users \cup Enders, Frees(t) PROVE SetterInv'
  BY <1>10, VaSpaceConstants DEF Frees, Moves, SetterInv,
     Setter, Creating, SameSpaces, SameMm, SameFlags, Threads, Enders
<1>11. ASSUME NEW t \in Users \cup Enders, Destroys(t) PROVE SetterInv'
  BY <1>11, VaSpaceConstants DEF Destroys, ObjInv, SetterInv,
     Setter, Creating, SameSpaces, SameMm, SameFlags, Threads, Enders
<1>12. ASSUME NEW t \in Enders, ShutsDown(t) PROVE SetterInv'
  BY <1>12, VaSpaceConstants DEF ShutsDown, QuietInv,
     InShutdown, SetterInv, Setter, Creating, SameSpaces, SameMm, SameFlags,
     Threads, Enders
<1>13. ASSUME Closes PROVE SetterInv'
  BY <1>13, VaSpaceConstants DEF Closes, Moves, SetterInv,
     Setter, Creating, SameSpaces, SameMm, SameFlags, Threads, Enders
<1>14. ASSUME UnregistersAll PROVE SetterInv'
  BY <1>14, VaSpaceConstants DEF UnregistersAll, Moves, ObjInv,
     SetterInv, Setter, Creating, SameSpaces, SameMm, SameFlags, Threads,
     Enders
<1>15. ASSUME NEW c \in Channels \cup {NONE}, Faults(c) PROVE SetterInv'
  BY <1>15, VaSpaceConstants DEF Faults, Moves, SetterInv,
     Setter, Creating, SameSpaces, SameMm, SameFlags, Threads, Enders
<1> QED
  BY <1>1, <1>2, <1>3, <1>4, <1>5, <1>6, <1>7, <1>8, <1>9, <1>10, <1>11, <1>12,
     <1>13, <1>14, <1>15 DEF Effect

\* What a shutdown has unset and waited for does not come back.
LEMMA QuietKept ==
    ASSUME PcInv, ObjInv, NoneCounted, SetterInv, QuietInv, Effect
    PROVE  QuietInv'
<1>1. ASSUME NEW u \in Users, NEW s \in Spaces, Registers(u, s) PROVE QuietInv'
  BY <1>1 DEF Registers, Starts, Moves, Unused, ObjInv,
     QuietInv, Unset, Waited, Marked, Returned, InShutdown, Pending,
     Registered, SameSpaces, SameFlags, Threads, Enders
<1>2. ASSUME NEW u \in Users, NEW s \in Spaces, Unregisters(u, s)
      PROVE  QuietInv'
  BY <1>2 DEF Unregisters, Starts, Moves, ObjInv, QuietInv,
     Unset, Waited, Marked, Returned, InShutdown, Pending, Registered,
     SameSpaces, SameFlags, Threads, Enders
<1>3. ASSUME NEW u \in Users, NEW c \in Channels, UsesChannel(u, c)
      PROVE  QuietInv'
  BY <1>3 DEF UsesChannel, Starts, Moves, QuietInv, Unset,
     Waited, Marked, Returned, InShutdown, Pending, Registered, SameSpaces,
     SameFlags, Threads, Enders
<1>4. ASSUME NEW u \in Users, Adds(u) PROVE QuietInv'
  BY <1>4 DEF Adds, Moves, ObjInv, Creating, MayRegister,
     SetterInv, Setter, QuietInv, Unset, Waited, Marked, Returned, InShutdown,
     Pending, Registered, SameSpaces, SameFlags, Threads, Enders
<1>5. ASSUME NEW u \in Users, Removes(u) PROVE QuietInv'
  BY <1>5 DEF Removes, Moves, ObjInv, Dying, QuietInv, Unset,
     Waited, Marked, Returned, InShutdown, Pending, Registered, SameSpaces,
     SameFlags, Threads, Enders
<1>6. ASSUME NEW u \in Users, Attaches(u) PROVE QuietInv'
  BY <1>6 DEF Attaches, Moves, QuietInv, Unset, Waited, Marked,
     Returned, InShutdown, Pending, Registered, SameSpaces, SameFlags, Threads,
     Enders
<1>7. ASSUME NEW t \in Threads, Goes(t) PROVE QuietInv'
  BY <1>7 DEF Goes, CallsNotifier, Moves, ObjInv, Creating,
     QuietInv, Unset, Waited, Marked, Returned, InShutdown, Pending,
     Registered, SameSpaces, SameFlags, Threads, Enders
<1>8. ASSUME NEW t \in Threads, RetainsLater(t) PROVE QuietInv'
  BY <1>8 DEF RetainsLater, Moves, QuietInv, Unset, Waited,
     Marked, Returned, InShutdown, Pending, Registered, SameSpaces, SameFlags,
     Threads, Enders
<1>9. ASSUME NEW t \in Threads, Releases(t) PROVE QuietInv'
  BY <1>9 DEF Releases, QuietInv, Unset, Waited, Marked,
     Returned, InShutdown, Pending, Registered, SameSpaces, SameFlags, Threads,
     Enders
<1>10. ASSUME NEW t \in Users \cup Enders, Frees(t) PROVE QuietInv'
  BY <1>10 DEF Frees, Moves, QuietInv, Unset, Waited, Marked,
     Returned, InShutdown, Pending, Registered, SameSpaces, SameFlags, Threads,
     Enders
<1>11. ASSUME NEW t \in Users \cup Enders, Destroys(t) PROVE QuietInv'
  BY <1>11 DEF Destroys, ObjInv, Dying, QuietInv, Unset, Waited,
     Marked, Returned, InShutdown, Pending, Registered, SameSpaces, SameFlags,
     Threads, Enders
<1>12. ASSUME NEW t \in Enders, ShutsDown(t) PROVE QuietInv'
  BY <1>12 DEF ShutsDown, NoneCounted, QuietInv, Unset, Waited,
     Marked, Returned, InShutdown, Pending, Registered, SameSpaces, SameFlags,
     Threads, Enders
<1>13. ASSUME Closes PROVE QuietInv'
  BY <1>13 DEF Closes, Moves, QuietInv, Unset, Waited, Marked,
     Returned, InShutdown, Pending, Registered, SameSpaces, SameFlags, Threads,
     Enders
<1>14. ASSUME UnregistersAll PROVE QuietInv'
  BY <1>14 DEF UnregistersAll, Moves, ObjInv, Dying, QuietInv,
     Unset, Waited, Marked, Returned, InShutdown, Pending, Registered,
     SameSpaces, SameFlags, Threads, Enders
<1>15. ASSUME NEW c \in Channels \cup {NONE}, Faults(c) PROVE QuietInv'
  BY <1>15 DEF Faults, Moves, QuietInv, Unset, Waited, Marked,
     Returned, InShutdown, Pending, Registered, SameSpaces, SameFlags, Threads,
     Enders
<1> QED
  BY <1>1, <1>2, <1>3, <1>4, <1>5, <1>6, <1>7, <1>8, <1>9, <1>10, <1>11, <1>12,
     <1>13, <1>14, <1>15 DEF Effect

-----------------------------------------------------------------------------
\* A step retains, releases, marks, returns, or leaves the gate alone.
LEMMA GateMoves ==
    ASSUME PcInv, HoldInv, Effect
    PROVE  GateMove
<1>1. ASSUME NEW u \in Users, NEW s \in Spaces, Registers(u, s) PROVE GateMove
  BY <1>1, VaSpaceConstants DEF Registers, Starts, Moves,
     HoldInv, Retaining, Retains, MmRetain, Retainers, GateMove, SameEnds,
     Returned, Marked, InShutdown, SameMm, mmVars, Threads, Enders
<1>2. ASSUME NEW u \in Users, NEW s \in Spaces, Unregisters(u, s)
      PROVE  GateMove
  BY <1>2, VaSpaceConstants DEF Unregisters, Starts, Moves,
     GateMove, SameEnds, Returned, Marked, InShutdown, SameMm, mmVars, Threads,
     Enders
<1>3. ASSUME NEW u \in Users, NEW c \in Channels, UsesChannel(u, c)
      PROVE  GateMove
  BY <1>3, VaSpaceConstants DEF UsesChannel, Starts, Moves,
     GateMove, SameEnds, Returned, Marked, InShutdown, SameMm, mmVars, Threads,
     Enders
<1>4. ASSUME NEW u \in Users, Adds(u) PROVE GateMove
  BY <1>4, VaSpaceConstants DEF Adds, Moves, GateMove, SameEnds,
     Returned, Marked, InShutdown, SameMm, mmVars, Threads, Enders
<1>5. ASSUME NEW u \in Users, Removes(u) PROVE GateMove
  BY <1>5, VaSpaceConstants DEF Removes, Moves, GateMove,
     SameEnds, Returned, Marked, InShutdown, SameMm, mmVars, Threads, Enders
<1>6. ASSUME NEW u \in Users, Attaches(u) PROVE GateMove
  BY <1>6, VaSpaceConstants DEF Attaches, Moves, GateMove,
     SameEnds, Returned, Marked, InShutdown, SameMm, mmVars, Threads, Enders
<1>7. ASSUME NEW t \in Threads, Goes(t) PROVE GateMove
  BY <1>7, VaSpaceConstants DEF Goes, CallsNotifier, Moves,
     GateMove, SameEnds, Returned, Marked, InShutdown, SameMm, mmVars, Threads,
     Enders
<1>8. ASSUME NEW t \in Threads, RetainsLater(t) PROVE GateMove
  BY <1>8, VaSpaceConstants DEF RetainsLater, Moves, HoldInv,
     Retaining, Retains, MmRetain, Retainers, GateMove, SameEnds, Returned,
     Marked, InShutdown, SameMm, mmVars, Threads, Enders
<1>9. ASSUME NEW t \in Threads, Releases(t) PROVE GateMove
  BY <1>9, VaSpaceConstants DEF Releases, MmRelease, GateMove,
     SameEnds, Returned, Marked, InShutdown, SameMm, mmVars, Threads, Enders
<1>10. ASSUME NEW t \in Users \cup Enders, Frees(t) PROVE GateMove
  BY <1>10, VaSpaceConstants DEF Frees, Moves, GateMove,
     SameEnds, Returned, Marked, InShutdown, SameMm, mmVars, Threads, Enders
<1>11. ASSUME NEW t \in Users \cup Enders, Destroys(t) PROVE GateMove
  BY <1>11, VaSpaceConstants DEF Destroys, GateMove, SameEnds,
     Returned, Marked, InShutdown, SameMm, mmVars, Threads, Enders
<1>12. ASSUME NEW t \in Enders, ShutsDown(t) PROVE GateMove
  BY <1>12, VaSpaceConstants DEF ShutsDown, EndMarks,
     EndReturns, GateMove, SameEnds, Returned, Marked, InShutdown, SameMm,
     mmVars, Threads, Enders
<1>13. ASSUME Closes PROVE GateMove
  BY <1>13, VaSpaceConstants DEF Closes, Moves, GateMove,
     SameEnds, Returned, Marked, InShutdown, SameMm, mmVars, Threads, Enders
<1>14. ASSUME UnregistersAll PROVE GateMove
  BY <1>14, VaSpaceConstants DEF UnregistersAll, Moves,
     GateMove, SameEnds, Returned, Marked, InShutdown, SameMm, mmVars, Threads,
     Enders
<1>15. ASSUME NEW c \in Channels \cup {NONE}, Faults(c) PROVE GateMove
  BY <1>15, VaSpaceConstants DEF Faults, Moves, GateMove,
     SameEnds, Returned, Marked, InShutdown, SameMm, mmVars, Threads, Enders
<1> QED
  BY <1>1, <1>2, <1>3, <1>4, <1>5, <1>6, <1>7, <1>8, <1>9, <1>10, <1>11, <1>12,
     <1>13, <1>14, <1>15 DEF Effect

-----------------------------------------------------------------------------
(* The steps have these effects, and the counts are exact *)

\* Where the calls go on, by cases.
LEMMA ReleasePc ==
    ASSUME PcInv, NEW t \in Threads, pc[t] \in {"release", "wake"}
    PROVE  /\ t \in Retainers
           /\ \/ op[t] = "unregister" /\ AfterRelease(t) = "free"
              \/ op[t] = "register" /\ AfterRelease(t) = "idle"
              \/ op[t] = "fault" /\ AfterRelease(t) = "idle"
              \/ op[t] = "register_channel" /\ AfterRelease(t) = (IF lock = t THEN "bind" ELSE "free")
  BY DEF PcInv, UserAt, EnderAt, FaultAt, ShutdownPcs, AfterRelease,
     Retainers, Threads, Enders

\* Who is where when it frees what it detached, and when it destroys.
LEMMA FreePc ==
    ASSUME PcInv, NEW t \in Users \cup Enders, pc[t] = "free"
    PROVE  \/ /\ t \in Users /\ op[t] = "unregister"
              /\ AfterFree(t) = IF obj[t] # NONE THEN "unset" ELSE "idle"
           \/ /\ t = "close" /\ op[t] = "close"
              /\ AfterFree(t) = IF obj[t] # NONE THEN "unset" ELSE "notifier"
           \/ t \in Enders /\ op[t] = "shutdown" /\ AfterFree(t) = "wait_retained"
           \/ /\ t \in Users /\ op[t] \in {"register_channel", "unregister_channel"}
              /\ AfterFree(t) = "idle"
  BY DEF PcInv, UserAt, EnderAt, ShutdownPcs, AfterFree, Threads, Enders

LEMMA DestroyPc ==
    ASSUME PcInv, NEW t \in Users \cup Enders, pc[t] \in {"unset", "count", "ats"}
    PROVE  \/ t \in Users /\ op[t] = "register" /\ AfterDestroy(t) = "release"
           \/ t \in Users /\ op[t] = "unregister" /\ AfterDestroy(t) = "idle"
           \/ t = "close" /\ op[t] = "close" /\ AfterDestroy(t) = "notifier"
  BY DEF PcInv, UserAt, EnderAt, ShutdownPcs, AfterDestroy, Threads, Enders

\* The steps have the effects that VaSpaceInv names: the shutdown ...
LEMMA ShutdownEffects ==
    ASSUME PcInv, NEW t \in Enders, ShutdownStep(t)
    PROVE  ShutsDown(t)
<1> USE DEF Go, PcInv, EnderAt, ShutdownPcs, ShutsDown, Threads
<1>1. CASE ShutdownStart(t)
  BY <1>1 DEF ShutdownStart, spaceVars, chanVars, mmVars, flagVars
<1>2. CASE ShutdownStop(t)
  BY <1>2 DEF ShutdownStop, spaceVars, chanVars, mmVars, flagVars
<1>3. CASE ShutdownDetach(t)
  BY <1>3 DEF ShutdownDetach, Detach, spaceVars, chanVars, mmVars, flagVars
<1>4. CASE ShutdownFlush(t)
  BY <1>4 DEF ShutdownFlush, spaceVars, chanVars, mmVars, flagVars
<1>5. CASE ShutdownUnset(t)
  BY <1>5 DEF ShutdownUnset, spaceVars, chanVars, mmVars, flagVars
<1>6. CASE ShutdownWaitPending(t)
  BY <1>6 DEF ShutdownWaitPending, spaceVars, chanVars, mmVars, flagVars
<1>7. CASE ShutdownMark(t)
  BY <1>7 DEF ShutdownMark, spaceVars, chanVars, mmVars, flagVars
<1>8. CASE ShutdownWaitRetained(t)
  BY <1>8 DEF ShutdownWaitRetained, spaceVars, chanVars, mmVars, flagVars
<1>9. CASE NotifierRemoved(t)
  BY <1>9 DEF NotifierRemoved, spaceVars, chanVars, mmVars, flagVars
<1>10. CASE NotifierSynchronized(t)
  BY <1>10 DEF NotifierSynchronized, spaceVars, chanVars, mmVars, flagVars
<1> HIDE DEF Go, PcInv, EnderAt, ShutdownPcs, ShutsDown, Threads
<1> QED
  BY <1>1, <1>2, <1>3, <1>4, <1>5, <1>6, <1>7, <1>8, <1>9, <1>10 DEF ShutdownStep

\* ... the ioctls ...
LEMMA IoctlEffects ==
    ASSUME PcInv, ChanInv, NEW u \in Users, Ioctl(u)
    PROVE  \/ \E s \in Spaces : Registers(u, s) \/ Unregisters(u, s)
           \/ \E c \in Channels : UsesChannel(u, c)
<1> USE DEF PcInv, Starts, Moves, Start, Go, Threads
<1>1. CASE uvm_va_space_register_gpu_va_space(u)
  <2>1. PICK s \in Spaces :
           /\ Unused(s) /\ Start(u, "register", "check")
           /\ uvm_va_space_mm_or_current_retain(u)
           /\ obj' = [obj EXCEPT ![u] = s]
           /\ state' = [state EXCEPT ![s] = "INIT"]
           /\ UNCHANGED <<lock, notifier, faults, flagVars, page_dir, no_channels,
                          chanVars, chan, deferred>>
    BY <1>1, ZenonT(60) DEF uvm_va_space_register_gpu_va_space
  <2>2. Starts(u, "register", "check")
    BY <2>1 DEF flagVars, chanVars
  <2>3. Registers(u, s)
    BY <2>1, <2>2 DEF Registers, Retains, uvm_va_space_mm_or_current_retain,
       uvm_va_space_mm_retain, mmVars, chanVars
  <2> QED
    BY <2>3
<1>2. CASE uvm_va_space_unregister_gpu_va_space(u)
  BY <1>2, ZenonT(60) DEF uvm_va_space_unregister_gpu_va_space, Unregisters, CanRead, Registered,
     flagVars, mmVars
<1>3. ASSUME NEW c \in Channels, uvm_register_channel(u, c) PROVE UsesChannel(u, c)
  BY <1>3, ZenonT(60) DEF uvm_register_channel, UsesChannel, CanRead, flagVars, mmVars, spaceVars
<1>4. CASE uvm_unregister_channel(u)
  BY <1>4, ZenonT(60) DEF uvm_unregister_channel, UsesChannel, ChanInv, CanRead, flagVars, mmVars, spaceVars
<1> QED
  BY <1>1, <1>2, <1>3, <1>4 DEF Ioctl

\* ... the steps of the threads that make them ...
LEMMA UserEffects ==
    ASSUME PcInv, ObjInv, ChanInv, NEW u \in Users
    PROVE  /\ RegisterCheck(u) => Goes(u)
           /\ RegisterSetPageDir(u) \/ RegisterAdd(u) => Adds(u)
           /\ UnregisterRetain(u) => RetainsLater(u)
           /\ UnregisterRemove(u) => Removes(u)
           /\ RegisterInsert(u) \/ RegisterBind(u) \/ DetachChannel(u) => Attaches(u)
<1> USE DEF PcInv, UserAt, Moves, Go, Threads, spaceVars, chanVars, mmVars, flagVars, SameChannels, SameSpaces, SameMm, SameFlags
<1>1. RegisterCheck(u) => Goes(u)
  BY DEF RegisterCheck, Goes
<1>2. RegisterSetPageDir(u) => Adds(u)
  BY DEF RegisterSetPageDir, Adds
<1>3. RegisterAdd(u) => Adds(u)
  BY DEF RegisterAdd, Adds
<1>4. UnregisterRetain(u) => RetainsLater(u)
  BY DEF UnregisterRetain, RetainsLater, Retains, uvm_va_space_mm_or_current_retain,
     uvm_va_space_mm_retain
<1>5. ASSUME UnregisterRemove(u) PROVE Removes(u)
  <2>1. CASE obj[u] \in Registered
    <3>1. {obj[u]} \cap Registered = {obj[u]} /\ UNION {ChannelsOf(s) : s \in {obj[u]}} = ChannelsOf(obj[u])
      BY <2>1
    <3>2. /\ Detach(u, ChannelsOf(obj[u])) /\ num_pending' = num_pending + Cardinality({obj[u]})
          /\ state' = [s \in Spaces |-> IF s \in {obj[u]} THEN "DEAD" ELSE state[s]]
      BY <1>5, <3>1, ZenonT(60) DEF UnregisterRemove, Remove
    <3>3. state' = [state EXCEPT ![obj[u]] = "DEAD"] /\ obj' = obj
      BY <1>5, <2>1, <3>2, ZenonT(60) DEF UnregisterRemove, ObjInv, Registered
    <3> QED
      BY <1>5, <2>1, <3>2, <3>3, ZenonT(60) DEF UnregisterRemove, Removes
  <2>2. CASE obj[u] \notin Registered
    <3>1. {obj[u]} \cap Registered = {} /\ UNION {ChannelsOf(s) : s \in {}} = {}
      BY <2>2
    <3>2. /\ Detach(u, {}) /\ num_pending' = num_pending + Cardinality({})
          /\ state' = [s \in Spaces |-> IF s \in {} THEN "DEAD" ELSE state[s]]
      BY <1>5, <3>1, ZenonT(60) DEF UnregisterRemove, Remove
    <3>3. state' = state /\ UNCHANGED <<gpu_va_space, listed, table, bound, used, deferred>>
      BY <3>2 DEF ObjInv, ChanInv, Detach
    <3> QED
      BY <1>5, <2>2, <3>2, <3>3 DEF UnregisterRemove, Removes
  <2> QED
    BY <2>1, <2>2
<1>6. RegisterInsert(u) => Attaches(u)
  BY DEF RegisterInsert, Attaches
<1>7. RegisterBind(u) => Attaches(u)
  BY DEF RegisterBind, GoOn, Attaches
<1>8. DetachChannel(u) => Attaches(u)
  BY DEF DetachChannel, Attaches
<1> QED
  BY <1>1, <1>2, <1>3, <1>4, <1>5, <1>6, <1>7, <1>8

\* ... and those that all threads share ...
LEMMA ThreadEffects ==
    ASSUME PcInv, ObjInv
    PROVE  /\ \A t \in Threads : uvm_va_space_mm_release(t) \/ ReleaseWake(t) => Releases(t)
           /\ \A t \in Users \cup Enders :
                 /\ uvm_deferred_free_object_list(t) => Frees(t)
                 /\ DestroyUnset(t) \/ DestroyCount(t) \/ DestroyAts(t) => Destroys(t)
<1> USE DEF PcInv, Go, GoOn, Threads, spaceVars, chanVars, mmVars, flagVars, SameChannels, SameSpaces, SameMm, SameFlags
<1>1. ASSUME NEW t \in Threads, uvm_va_space_mm_release(t) PROVE Releases(t)
  BY <1>1, ReleasePc DEF uvm_va_space_mm_release, Releases
<1>2. ASSUME NEW t \in Threads, ReleaseWake(t) PROVE Releases(t)
  BY <1>2, ReleasePc DEF ReleaseWake, Woken, Releases
<1>3. ASSUME NEW t \in Users \cup Enders, uvm_deferred_free_object_list(t) PROVE Frees(t)
  BY <1>3, FreePc DEF uvm_deferred_free_object_list, Frees, Moves
<1>4. ASSUME NEW t \in Users \cup Enders, DestroyUnset(t) PROVE Destroys(t)
  BY <1>4, DestroyPc DEF DestroyUnset, Destroys
<1>5. ASSUME NEW t \in Users \cup Enders, DestroyCount(t) PROVE Destroys(t)
  BY <1>5, DestroyPc DEF DestroyCount, Woken, Destroys
<1>6. ASSUME NEW t \in Users \cup Enders, DestroyAts(t) PROVE Destroys(t)
  BY <1>6, DestroyPc DEF DestroyAts, Destroys
<1> QED
  BY <1>1, <1>2, <1>3, <1>4, <1>5, <1>6

\* ... the exit and the close ...
LEMMA CloseEffects ==
    ASSUME PcInv, ObjInv
    PROVE  /\ ProcessExit => Goes("exit")
           /\ uvm_va_space_destroy => Closes
           /\ DestroyUnregister => UnregistersAll
           /\ DestroyFlushQueues \/ uvm_va_space_mm_unregister => Goes("close")
<1> USE DEF PcInv, EnderAt, ShutdownPcs, Moves, Go, Threads, Enders, SameChannels, SameSpaces, SameMm, SameFlags
<1>1. ProcessExit => Goes("exit")
  BY DEF ProcessExit, NotifierCalls, Goes, CallsNotifier, spaceVars, chanVars, mmVars, flagVars
<1>2. uvm_va_space_destroy => Closes
  BY DEF uvm_va_space_destroy, Closes, CanRead, spaceVars, chanVars, mmVars, flagVars
<1>3. ASSUME DestroyUnregister PROVE UnregistersAll
  <2>1. UNION {ChannelsOf(s) : s \in Registered} = {c \in listed : gpu_va_space[c] \in Registered}
    BY DEF ChannelsOf
  <2>2. /\ state' = [s \in Spaces |-> IF state[s] = "ACTIVE" THEN "DEAD" ELSE state[s]]
        /\ Detach("close", {c \in listed : gpu_va_space[c] \in Registered})
        /\ num_pending' = num_pending + Cardinality(Registered)
    BY <1>3, <2>1, ZenonT(60) DEF DestroyUnregister, Remove, Registered
  <2>3. \/ Registered = {} /\ obj' = [obj EXCEPT !["close"] = NONE]
        \/ \E s \in Registered : Registered = {s} /\ obj' = [obj EXCEPT !["close"] = s]
    <3>1. ASSUME NEW s \in Registered PROVE Registered = {s} /\ (CHOOSE r \in Registered : TRUE) = s
      BY DEF ObjInv
    <3>2. ASSUME NEW s \in Registered PROVE Registered = {s} /\ obj' = [obj EXCEPT !["close"] = s]
      BY <1>3, <3>1, ZenonT(60) DEF DestroyUnregister
    <3>3. CASE Registered = {}
      BY <1>3, <3>3 DEF DestroyUnregister
    <3> QED
      BY <3>2, <3>3
  <2> QED
    BY <1>3, <2>2, <2>3, ZenonT(60) DEF DestroyUnregister, UnregistersAll, mmVars
<1>4. DestroyFlushQueues => Goes("close")
  BY DEF DestroyFlushQueues, Goes, spaceVars, chanVars, mmVars, flagVars
<1>5. uvm_va_space_mm_unregister => Goes("close")
  BY DEF uvm_va_space_mm_unregister, NotifierCalls, Goes, CallsNotifier, spaceVars, chanVars, mmVars, flagVars
<1> QED
  BY <1>1, <1>2, <1>3, <1>4, <1>5

\* ... the faults and their bottom half.
LEMMA FaultEffects ==
    ASSUME PcInv, ChanInv
    PROVE  /\ \A c \in Channels : Fault(c) \/ FaultTranslate(c) => Faults(c)
           /\ FaultServiced => Faults(NONE)
           /\ FaultRetain => RetainsLater("bh")
           /\ FaultLock => Goes("bh")
<1> USE DEF PcInv, FaultAt, Moves, Go, Threads, Enders, spaceVars, chanVars, mmVars, flagVars, SameChannels, SameSpaces, SameMm, SameFlags
<1>1. ASSUME NEW c \in Channels, Fault(c) PROVE Faults(c)
  BY <1>1 DEF Fault, Faults, threadVars
<1>2. ASSUME NEW c \in Channels, FaultTranslate(c) PROVE Faults(c)
  BY <1>2 DEF FaultTranslate, Faults
<1>3. FaultServiced => Faults(NONE)
  BY DEF FaultServiced, Faults
<1>4. FaultRetain => RetainsLater("bh")
  BY DEF FaultRetain, RetainsLater, Retains, uvm_va_space_mm_retain
<1>5. FaultLock => Goes("bh")
  BY DEF FaultLock, Goes
<1> QED
  BY <1>1, <1>2, <1>3, <1>4, <1>5

\* Together they are every step.
LEMMA Effects == ASSUME PcInv, ObjInv, ChanInv, VsNext PROVE Effect
  BY IoctlEffects, UserEffects, ThreadEffects, ShutdownEffects, CloseEffects, FaultEffects
     DEF VsNext, UserStep, EnderStep, Step, CloseStep, ServiceStep, FaultStep, Effect, Threads, Enders

-----------------------------------------------------------------------------
\* The refinement mapping in terms of the invariant.
StatesShown ==
    \A t \in Enders : ShutdownState(t) = IF Returned(t) THEN "returned"
                                         ELSE IF Marked(t) THEN "marked" ELSE "none"

LEMMA ShutdownStates == StatesShown /\ StatesShown'
  BY DEF StatesShown, ShutdownState, Returned, Marked, InShutdown

\* What the steps do to the mm are steps of MmGate.
LEMMA GateStep == ASSUME VsInv, GateMove PROVE [Gate!GateNext]_(Gate!gateVars)
<1> USE DEF Gate!GateNext, Gate!gateVars
<1>1. ASSUME SameEnds PROVE \A t \in Enders : ShutdownState(t)' = ShutdownState(t)
  BY <1>1, ShutdownStates DEF SameEnds, StatesShown
<1>2. CASE SameEnds /\ UNCHANGED mmVars
  BY <1>1, <1>2 DEF mmVars
<1>3. ASSUME SameEnds, NEW t \in Retainers, MmRetain(t) PROVE Gate!Retain(t)
  BY <1>1, <1>3 DEF MmRetain, Gate!Retain
<1>4. ASSUME SameEnds, NEW t \in Retainers, MmRelease(t) PROVE Gate!Release(t)
  BY <1>1, <1>4 DEF MmRelease, Gate!Release
<1>5. ASSUME NEW t \in Enders, EndMarks(t) PROVE Gate!MarkDead(t)
  <2>1. ShutdownState(t) = "none" /\ ShutdownState(t)' = "marked"
    BY <1>5, ShutdownStates DEF EndMarks, Marked, StatesShown
  <2>2. \A e \in Enders \ {t} : ShutdownState(e)' = ShutdownState(e)
    BY <1>5, ShutdownStates DEF EndMarks, StatesShown
  <2> QED
    BY <1>5, <2>1, <2>2, ZenonT(60) DEF EndMarks, Gate!MarkDead
<1>6. ASSUME NEW t \in Enders, EndReturns(t) PROVE Gate!Return(t)
  <2>1. ShutdownState(t) = "marked" /\ ShutdownState(t)' = "returned"
    BY <1>6, ShutdownStates DEF EndReturns, StatesShown
  <2>2. \A e \in Enders \ {t} : ShutdownState(e)' = ShutdownState(e)
    BY <1>6, ShutdownStates DEF EndReturns, StatesShown
  <2> QED
    BY <1>6, <2>1, <2>2, ZenonT(60) DEF EndReturns, mmVars, Gate!Return
<1> QED
  BY <1>2, <1>3, <1>4, <1>5, <1>6 DEF GateMove, Retainers

-----------------------------------------------------------------------------
\* What the proofs use of finite sets.
LEMMA Counting ==
    ASSUME NEW S, IsFiniteSet(S)
    PROVE  /\ Cardinality(S) \in Nat
           /\ Cardinality(S) = 0 <=> S = {}
           /\ \A x : x \notin S => /\ IsFiniteSet(S \cup {x})
                                  /\ Cardinality(S \cup {x}) = Cardinality(S) + 1
           /\ \A x \in S : /\ IsFiniteSet(S \ {x})
                           /\ Cardinality(S \ {x}) = Cardinality(S) - 1
  BY FS_CardinalityType, FS_EmptySet, FS_AddElement, FS_RemoveElement

LEMMA SmallSets == Cardinality({}) = 0 /\ \A x : Cardinality({x}) = 1
  BY FS_EmptySet, FS_Singleton, ZenonT(60)

\* The count of retainers is exact, and nobody retains a dead mm.
LEMMA HoldKept ==
    ASSUME PcInv, HoldInv, Effect
    PROVE  HoldInv'
<1>1. ASSUME NEW u \in Users, NEW s \in Spaces, Registers(u, s) PROVE HoldInv'
  BY <1>1, VaSpaceConstants, Counting DEF Registers, Starts,
     Moves, Retains, HoldInv, Retainers, Retaining, Marked, Returned,
     InShutdown, SameMm, Threads, Enders
<1>2. ASSUME NEW u \in Users, NEW s \in Spaces, Unregisters(u, s)
      PROVE  HoldInv'
  BY <1>2, VaSpaceConstants, Counting DEF Unregisters, Starts,
     Moves, HoldInv, Retainers, Retaining, Marked, Returned, InShutdown,
     SameMm, Threads, Enders
<1>3. ASSUME NEW u \in Users, NEW c \in Channels, UsesChannel(u, c)
      PROVE  HoldInv'
  BY <1>3, VaSpaceConstants, Counting DEF UsesChannel, Starts,
     Moves, HoldInv, Retainers, Retaining, Marked, Returned, InShutdown,
     SameMm, Threads, Enders
<1>4. ASSUME NEW u \in Users, Adds(u) PROVE HoldInv'
  BY <1>4, VaSpaceConstants, Counting DEF Adds, Moves, HoldInv,
     Retainers, Retaining, Marked, Returned, InShutdown, SameMm, Threads,
     Enders
<1>5. ASSUME NEW u \in Users, Removes(u) PROVE HoldInv'
  BY <1>5, VaSpaceConstants, Counting DEF Removes, Moves,
     HoldInv, Retainers, Retaining, Marked, Returned, InShutdown, SameMm,
     Threads, Enders
<1>6. ASSUME NEW u \in Users, Attaches(u) PROVE HoldInv'
  BY <1>6, VaSpaceConstants, Counting DEF Attaches, Moves,
     HoldInv, Retainers, Retaining, Marked, Returned, InShutdown, SameMm,
     Threads, Enders
<1>7. ASSUME NEW t \in Threads, Goes(t) PROVE HoldInv'
  BY <1>7, VaSpaceConstants, Counting DEF Goes, CallsNotifier,
     Moves, HoldInv, Retainers, Retaining, Marked, Returned, InShutdown,
     SameMm, Threads, Enders
<1>8. ASSUME NEW t \in Threads, RetainsLater(t) PROVE HoldInv'
  BY <1>8, VaSpaceConstants, Counting DEF RetainsLater, Moves,
     Retains, HoldInv, Retainers, Retaining, Marked, Returned, InShutdown,
     SameMm, Threads, Enders
<1>9. ASSUME NEW t \in Threads, Releases(t) PROVE HoldInv'
  BY <1>9, VaSpaceConstants, Counting DEF Releases, HoldInv,
     Retainers, Retaining, Marked, Returned, InShutdown, SameMm, Threads,
     Enders
<1>10. ASSUME NEW t \in Users \cup Enders, Frees(t) PROVE HoldInv'
  BY <1>10, VaSpaceConstants, Counting DEF Frees, Moves,
     HoldInv, Retainers, Retaining, Marked, Returned, InShutdown, SameMm,
     Threads, Enders
<1>11. ASSUME NEW t \in Users \cup Enders, Destroys(t) PROVE HoldInv'
  BY <1>11, VaSpaceConstants, Counting DEF Destroys, HoldInv,
     Retainers, Retaining, Marked, Returned, InShutdown, SameMm, Threads,
     Enders
<1>12. ASSUME NEW t \in Enders, ShutsDown(t) PROVE HoldInv'
  BY <1>12, VaSpaceConstants, Counting DEF ShutsDown, HoldInv,
     Retainers, Retaining, Marked, Returned, InShutdown, SameMm, Threads,
     Enders
<1>13. ASSUME Closes PROVE HoldInv'
  BY <1>13, VaSpaceConstants, Counting DEF Closes, Moves,
     HoldInv, Retainers, Retaining, Marked, Returned, InShutdown, SameMm,
     Threads, Enders
<1>14. ASSUME UnregistersAll PROVE HoldInv'
  BY <1>14, VaSpaceConstants, Counting DEF UnregistersAll,
     Moves, HoldInv, Retainers, Retaining, Marked, Returned, InShutdown,
     SameMm, Threads, Enders
<1>15. ASSUME NEW c \in Channels \cup {NONE}, Faults(c) PROVE HoldInv'
  BY <1>15, VaSpaceConstants, Counting DEF Faults, Moves,
     HoldInv, Retainers, Retaining, Marked, Returned, InShutdown, SameMm,
     Threads, Enders
<1> QED
  BY <1>1, <1>2, <1>3, <1>4, <1>5, <1>6, <1>7, <1>8, <1>9, <1>10, <1>11, <1>12,
     <1>13, <1>14, <1>15 DEF Effect

\* The driver has finitely many threads, so num_pending is a number.
LEMMA PendFinite ==
    PendInv => IsFiniteSet({t \in Threads : Pending(t)}) /\ num_pending \in Nat
<1>1. IsFiniteSet(Threads)
  <2>1. IsFiniteSet(Users \cup {"exit"} \cup {"close"} \cup {"bh"})
    BY FS_AddElement, ZenonT(60)
  <2> QED
    BY <2>1, ZenonT(60) DEF Threads, Enders
<1>2. IsFiniteSet({t \in Threads : Pending(t)})
  BY <1>1, FS_Subset
<1> QED
  BY <1>2, FS_CardinalityType DEF PendInv

\* num_pending follows the threads between a removal and its destroy.
LEMMA PendSteps ==
    ASSUME PcInv, ObjInv, num_pending \in Nat, Effect
    PROVE  PendStep
<1>1. ASSUME NEW u \in Users, NEW s \in Spaces, Registers(u, s) PROVE PendSame
  BY <1>1, VaSpaceConstants DEF Registers, Starts, Moves,
     Unused, ObjInv, Threads, PendSame, Pending, Registered, SameSpaces
<1>2. ASSUME NEW u \in Users, NEW s \in Spaces, Unregisters(u, s)
      PROVE  PendSame
  BY <1>2, VaSpaceConstants DEF Unregisters, Starts, Moves,
     ObjInv, Threads, PendSame, Pending, Registered, SameSpaces
<1>3. ASSUME NEW u \in Users, NEW c \in Channels, UsesChannel(u, c)
      PROVE  PendSame
  BY <1>3, VaSpaceConstants DEF UsesChannel, Starts, Moves,
     Threads, PendSame, Pending, Registered, SameSpaces
<1>4. ASSUME NEW u \in Users, Adds(u) PROVE PendSame \/ PendMore(u)
  BY <1>4, VaSpaceConstants DEF Adds, Moves, PendMore, ObjInv,
     Creating, Threads, PendSame, Pending, Registered, SameSpaces
<1>5. ASSUME NEW u \in Users, Removes(u) PROVE PendSame \/ PendMore(u)
  <2>1. /\ ~Pending(u) /\ u \in Threads
        /\ \A t \in Threads \ {u} : Pending(t)' <=> Pending(t)
    BY <1>5 DEF Removes, Moves, ObjInv, Dying, Registered, Pending
  <2>2. CASE obj[u] \in Registered
    <3>1. num_pending' = num_pending + 1
      BY <1>5, <2>2, SmallSets, ZenonT(60) DEF Removes
    <3>2. Pending(u)'
      BY <1>5, <2>1, <2>2 DEF Removes, Moves, Registered, Pending
    <3> QED
      BY <2>1, <3>1, <3>2 DEF PendMore
  <2>3. CASE obj[u] \notin Registered
    <3>1. num_pending' = num_pending + 0 /\ obj'[u] = NONE
      BY <1>5, <2>1, <2>3, SmallSets DEF Removes, ObjInv
    <3> QED
      BY <2>1, <3>1 DEF PendSame, Pending
  <2> QED
    BY <2>2, <2>3
<1>6. ASSUME NEW u \in Users, Attaches(u) PROVE PendSame
  BY <1>6, VaSpaceConstants DEF Attaches, Moves, Threads,
     PendSame, Pending, Registered, SameSpaces
<1>7. ASSUME NEW t \in Threads, Goes(t) PROVE PendSame
  BY <1>7, VaSpaceConstants DEF Goes, CallsNotifier, Moves,
     ObjInv, Creating, PendSame, Pending, Registered, SameSpaces
<1>8. ASSUME NEW t \in Threads, RetainsLater(t) PROVE PendSame
  BY <1>8, VaSpaceConstants DEF RetainsLater, Moves, PendSame,
     Pending, Registered, SameSpaces
<1>9. ASSUME NEW t \in Threads, Releases(t) PROVE PendSame
  BY <1>9, VaSpaceConstants DEF Releases, PendSame, Pending,
     Registered, SameSpaces
<1>10. ASSUME NEW t \in Users \cup Enders, Frees(t) PROVE PendSame
  BY <1>10, VaSpaceConstants DEF Frees, Moves, Threads, Enders,
     PendSame, Pending, Registered, SameSpaces
<1>11. ASSUME NEW t \in Users \cup Enders, Destroys(t)
       PROVE  PendSame \/ PendLess(t)
  BY <1>11, VaSpaceConstants DEF Destroys, PendLess, ObjInv,
     Dying, PendSame, Pending, Registered, SameSpaces
<1>12. ASSUME NEW t \in Enders, ShutsDown(t) PROVE PendSame
  BY <1>12, VaSpaceConstants DEF ShutsDown, Threads, Enders,
     PendSame, Pending, Registered, SameSpaces
<1>13. ASSUME Closes PROVE PendSame
  BY <1>13, VaSpaceConstants DEF Closes, Moves, PendSame,
     Pending, Registered, SameSpaces
<1>14. ASSUME UnregistersAll PROVE PendSame \/ PendMore("close")
  <2>1. ~Pending("close") /\ \A t \in Threads \ {"close"} : Pending(t)' <=> Pending(t)
    BY <1>14 DEF UnregistersAll, Moves, ObjInv, Dying, Pending
  <2>2. ASSUME Registered = {} PROVE PendSame
    <3>1. num_pending' = num_pending + 0 /\ obj'["close"] = NONE
      BY <1>14, <2>2, SmallSets DEF UnregistersAll, Moves, ObjInv
    <3> QED
      BY <2>1, <3>1 DEF PendSame, Pending
  <2>3. ASSUME NEW s \in Registered, Registered = {s} PROVE PendMore("close")
    <3>1. num_pending' = num_pending + 1
      BY <1>14, <2>3, SmallSets, ZenonT(60) DEF UnregistersAll
    <3>2. Pending("close")'
      BY <1>14, <2>3 DEF UnregistersAll, Moves, ObjInv, Registered, Pending
    <3> QED
      BY <2>1, <3>1, <3>2 DEF PendMore
  <2> QED
    BY <1>14, <2>2, <2>3 DEF UnregistersAll
<1>15. ASSUME NEW c \in Channels \cup {NONE}, Faults(c) PROVE PendSame
  BY <1>15, VaSpaceConstants DEF Faults, Moves, PendSame,
     Pending, Registered, SameSpaces
<1> QED
  BY <1>1, <1>2, <1>3, <1>4, <1>5, <1>6, <1>7, <1>8, <1>9, <1>10, <1>11, <1>12,
     <1>13, <1>14, <1>15 DEF Effect, PendStep, Threads, Enders

\* num_pending is the number of removed GPU VA spaces that are not destroyed yet.
LEMMA PendKept ==
    ASSUME PcInv, ObjInv, PendInv, Effect
    PROVE  PendInv'
<1> DEFINE P == {t \in Threads : Pending(t)}
<1>1. PendStep
  BY PendFinite, PendSteps
<1>2. IsFiniteSet(P) /\ num_pending = Cardinality(P)
  BY PendFinite DEF PendInv
<1>3. CASE PendSame
  <2>1. P' = P
    BY <1>3 DEF PendSame
  <2> QED
    BY <1>2, <1>3, <2>1 DEF PendSame, PendInv
<1>4. ASSUME NEW v \in Threads, PendMore(v) PROVE PendInv'
  <2>1. P' = P \cup {v} /\ v \notin P
    BY <1>4 DEF PendMore
  <2> QED
    BY <1>2, <1>4, <2>1, Counting DEF PendMore, PendInv
<1>5. ASSUME NEW v \in Threads, PendLess(v) PROVE PendInv'
  <2>1. P' = P \ {v} /\ v \in P
    BY <1>5 DEF PendLess
  <2> QED
    BY <1>2, <1>5, <2>1, Counting DEF PendLess, PendInv
<1> QED
  BY <1>1, <1>3, <1>4, <1>5 DEF PendStep

\* uvm_va_space_mm_shutdown, when it sees zero, has waited for all of them.
LEMMA NothingPending == ASSUME PendInv PROVE NoneCounted
<1> DEFINE P == {t \in Threads : Pending(t)}
<1>1. num_pending = 0 => P = {}
  BY PendFinite, FS_EmptySet, ZenonT(60) DEF PendInv
<1> QED
  BY <1>1 DEF NoneCounted

\* The invariant holds when the VA space is created ...
LEMMA InvInitially == VsInit => VsInv
<1> SUFFICES ASSUME VsInit PROVE VsInv
  OBVIOUS
<1> USE DEF VsInit, Threads, Enders
<1>1. PcInv /\ LockInv /\ EndInv
  BY DEF PcInv, UserAt, EnderAt, FaultAt, LockInv, EndInv
<1>2. HoldInv
  BY FS_EmptySet DEF HoldInv, Marked, Returned, InShutdown
<1>3. ObjInv /\ ChanInv /\ RunInv
  BY DEF ObjInv, Creating, Dying, ChanInv, New, RunInv, RunningIsRegistered, Registered,
     InShutdown
<1>4. PendInv
  <2>1. {t \in Threads : Pending(t)} = {}
    BY DEF Pending
  <2> QED
    BY <2>1, FS_EmptySet DEF PendInv
<1>5. UnsetInv /\ SetterInv /\ QuietInv
  BY DEF UnsetInv, SetterInv, Setter, Creating, QuietInv, Unset, Waited, Marked, Returned,
     InShutdown
<1>6. FaultInv
  BY DEF FaultInv, Emptied, InShutdown
<1> QED
  BY <1>1, <1>2, <1>3, <1>4, <1>5, <1>6 DEF VsInv

\* ... and every step keeps it.
LEMMA InvKept == VsInv /\ [VsNext]_vsVars => VsInv'
<1>1. ASSUME VsInv, VsNext PROVE VsInv'
  <2>1. Effect
    BY <1>1, Effects DEF VsInv
  <2>2. PcInv' /\ LockInv' /\ HoldInv' /\ EndInv' /\ ObjInv'
    BY <1>1, <2>1, PcKept, LockKept, HoldKept, EndKept, ObjKept DEF VsInv
  <2>3. ChanInv' /\ RunInv' /\ PendInv' /\ UnsetInv'
    BY <1>1, <2>1, ChanKept, RunKept, PendKept, UnsetKept DEF VsInv
  <2>4. QuietInv' /\ SetterInv' /\ FaultInv'
    BY <1>1, <2>1, QuietKept, SetterKept, FaultKept, NothingPending DEF VsInv
  <2> QED
    BY <2>2, <2>3, <2>4 DEF VsInv
<1>2. ASSUME VsInv, UNCHANGED vsVars PROVE VsInv'
  <2> USE <1>2 DEF VsInv, vsVars, spaceVars, chanVars, mmVars, flagVars, threadVars
  <2>1. PcInv' /\ LockInv' /\ HoldInv' /\ EndInv'
    BY DEF PcInv, UserAt, EnderAt, FaultAt, LockInv, HoldInv, Retaining, Marked, Returned,
       InShutdown, EndInv
  <2>2. ObjInv' /\ ChanInv' /\ RunInv'
    BY DEF ObjInv, Creating, Dying, Registered, ChanInv, New, RunInv, RunningIsRegistered,
       InShutdown
  <2>3. PendInv'
    BY DEF PendInv, Pending
  <2>4. UnsetInv' /\ SetterInv' /\ QuietInv'
    BY DEF UnsetInv, Unsets, Registered, SetterInv, Setter, Creating, QuietInv, Unset,
       Waited, Marked, Returned, InShutdown, Pending
  <2>5. FaultInv'
    BY DEF FaultInv, Emptied, InShutdown
  <2> QED
    BY <2>1, <2>2, <2>3, <2>4, <2>5
<1> QED
  BY <1>1, <1>2

-----------------------------------------------------------------------------
(* The invariant holds of the calls, the teardown, the close and the       *)
(* bottom half of uvm_va_space.c, uvm_user_channel.c and uvm_va_space_mm.c.*)
THEOREM VsInvariant == VsSpec => []VsInv
  BY InvInitially, InvKept, PTL DEF VsSpec

\* Whoever could still set a page directory holds the mm or belongs to its process.
LEMMA InvQuiet == VsInv => QuietAfterShutdown
<1> SUFFICES ASSUME VsInv, NEW t \in Enders, pc[t] \in {"returned", "synchronize", "end"}
             PROVE  page_dir = {} /\ bound = {} /\ retained_count = 0 /\ holders = {}
  BY DEF QuietAfterShutdown
<1>1. PICK e \in Enders : Returned(e) /\ (op[e] = "done" \/ e = t)
  BY DEF VsInv, PcInv, EnderAt, ShutdownPcs, EndInv, FaultInv, Returned
<1>2. holders = {} /\ retained_count = 0
  BY <1>1, FS_EmptySet DEF VsInv, HoldInv
<1>3. bound = {}
  BY <1>1 DEF VsInv, PcInv, EnderAt, ShutdownPcs, RunInv, Returned, InShutdown
<1>4. pc[e] # "idle" /\ (op[e] = "done" \/ InShutdown(e))
  BY <1>1 DEF VsInv, PcInv, EnderAt, ShutdownPcs, Returned, InShutdown
<1>5. \A u \in Owners : pc[u] = "idle"
  BY <1>4, VaSpaceConstants DEF VsInv, EndInv, Enders
<1>6. \A u \in Threads : ~Setter(u)
  BY <1>2, <1>5, VaSpaceConstants
     DEF VsInv, PcInv, UserAt, EnderAt, FaultAt, SetterInv, Setter, Threads
<1>7. Unset(e) /\ Waited(e)
  BY <1>1 DEF Unset, Waited, Marked
<1>8. page_dir = {}
  BY <1>6, <1>7 DEF VsInv, QuietInv, UnsetInv, Unsets
<1> QED
  BY <1>2, <1>3, <1>8

(* After uvm_va_space_mm_shutdown has returned, in the process's teardown  *)
(* or in the close, no page directory of the mm is set, no channel runs    *)
(* and nobody holds the mm.                                                *)
THEOREM VsQuietAfterShutdown == VsSpec => []QuietAfterShutdown
  BY VsInvariant, InvQuiet, PTL

(* uvm_user_channel_detach meets stopped channels only.                    *)
THEOREM VsRunningIsRegistered == VsSpec => []RunningIsRegistered
<1>1. VsInv => RunningIsRegistered
  BY DEF VsInv, RunInv
<1> QED
  BY <1>1, VsInvariant, PTL

(* No instance pointer goes back to RM while a fault with it is around.    *)
THEOREM VsNoStaleFault == VsSpec => []NoStaleFault
<1>1. VsInv => NoStaleFault
  BY DEF VsInv, FaultInv, NoStaleFault
<1> QED
  BY <1>1, VsInvariant, PTL

(* When uvm_va_space_destroy frees the VA space nobody is using it.        *)
THEOREM VsNobodyAfterFree == VsSpec => []NobodyAfterFree
<1>1. VsInv => NobodyAfterFree
  <2> SUFFICES ASSUME VsInv, pc["close"] = "end" PROVE NobodyAfterFree
    BY DEF NobodyAfterFree
  <2>1. op["close"] \in {"skipped", "done"}
    BY DEF VsInv, PcInv, EnderAt, ShutdownPcs, Enders
  <2> QED
    BY <2>1 DEF VsInv, EndInv, FaultInv, Emptied, NobodyAfterFree
<1> QED
  BY <1>1, VsInvariant, PTL

-----------------------------------------------------------------------------
(* The retain counts and the two callers of uvm_va_space_mm_shutdown keep  *)
(* the promise of MmGate: the detailed specification implements it.        *)
THEOREM VsGateKept == VsSpec => GateKept
<1>1. VsInit => Gate!GateInit
  BY ShutdownStates DEF StatesShown, VsInit, Gate!GateInit, Returned, Marked, InShutdown, Threads, Enders
<1>2. VsInv /\ [VsNext]_vsVars => [Gate!GateNext]_(Gate!gateVars)
  <2>1. ASSUME VsInv, VsNext PROVE [Gate!GateNext]_(Gate!gateVars)
    BY <2>1, Effects, GateMoves, GateStep DEF VsInv
  <2>2. CASE UNCHANGED vsVars
    <3>1. SameEnds /\ UNCHANGED mmVars
      BY <2>2 DEF vsVars, threadVars, mmVars, SameEnds, Returned, Marked, InShutdown
    <3> QED
      BY <3>1, GateStep DEF GateMove
  <2> QED
    BY <2>1, <2>2
<1> QED
  BY <1>1, <1>2, VsInvariant, PTL DEF VsSpec, GateKept, Gate!GateSpec
=============================================================================
