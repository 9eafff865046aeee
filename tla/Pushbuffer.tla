----------------------------- MODULE Pushbuffer -----------------------------
(***************************************************************************)
(* The UVM pushbuffer (kernel-open/nvidia-uvm/uvm_pushbuffer.c): a memory  *)
(* area cut into chunks, each of which hosts at most one on-going push and *)
(* a list of pending ones.  A push is given the worst-case size MAX_PUSH   *)
(* when it begins and keeps what it used when it ends.  Pushes of several  *)
(* channels share a chunk, so they complete out of order; the chunk only   *)
(* tracks the offset of the first pending push (gpu_get) and the end of    *)
(* the last one (cpu_put), as a ring.                                      *)
(*                                                                         *)
(* One step is one critical section of pushbuffer->lock, one operation on  *)
(* concurrent_pushes_sema, or the read of next_push_start that begin_push  *)
(* makes without the lock.  Offsets are relative to the chunk.             *)
(***************************************************************************)
EXTENDS Integers, Sequences, FiniteSets

CONSTANTS Chunks,      \* indices of the chunks, a set of naturals
          CHUNK_SIZE,  \* UVM_PUSHBUFFER_CHUNK_SIZE
          MAX_PUSH,    \* UVM_MAX_PUSH_SIZE
          Pushes,      \* uvm_push_t objects
          Gpfifos,     \* uvm_gpfifo_entry_t objects
          NONE         \* a NULL pointer

ASSUME ChunksNat == Chunks \subseteq Nat /\ IsFiniteSet(Chunks)

ASSUME SizesNat == /\ MAX_PUSH \in Nat \ {0}
                   /\ CHUNK_SIZE \in Nat
                   /\ MAX_PUSH <= CHUNK_SIZE

ASSUME NoneIsNull == NONE \notin Pushes \cup Chunks

VARIABLES
    idle_chunks,       \* the bitmaps, as sets of chunk indices
    available_chunks,
    next_push_start,   \* next_push_start[ch]: offset of the next push
    pending_gpfifos,   \* pending_gpfifos[ch]: list of [gpfifo, off, size]
    current_push,      \* current_push[ch]: on-going push or NONE
    sema,              \* concurrent_pushes_sema
    stage,             \* stage[p]: where push p is between begin and end
    chunk,             \* chunk[p]: the chunk try_claim_chunk gave p, or NONE
    begin,             \* begin[p]: push->begin, as an offset in the chunk
    status             \* what uvm_channel_manager_check_errors answers

chunkVars == <<idle_chunks, available_chunks, next_push_start,
               pending_gpfifos, current_push>>
pushVars == <<stage, chunk, begin>>
pbVars == <<chunkVars, sema, pushVars, status>>

\* uvm_pushbuffer_create: every chunk is idle
PbInit ==
    /\ idle_chunks = Chunks
    /\ available_chunks = Chunks
    /\ next_push_start = [ch \in Chunks |-> 0]
    /\ pending_gpfifos = [ch \in Chunks |-> <<>>]
    /\ current_push = [ch \in Chunks |-> NONE]
    /\ sema = Cardinality(Chunks)
    /\ stage = [p \in Pushes |-> "none"]
    /\ chunk = [p \in Pushes |-> NONE]
    /\ begin = [p \in Pushes |-> 0]
    /\ status = "NV_OK"

-----------------------------------------------------------------------------
(* Chunk bookkeeping *)

End(e) == e.off + e.size

\* chunk_get_gpu_get and chunk_get_cpu_put, of a list of pending entries
chunk_get_gpu_get(list) == IF list = <<>> THEN 0 ELSE list[1].off

chunk_get_cpu_put(list) == IF list = <<>> THEN 0 ELSE End(list[Len(list)])

\* update_chunk, as the offset at which the next push may start, if it sets
\* the chunk available; -1 if it leaves the chunk as it is.
NextStart(list) ==
    LET gpu_get == chunk_get_gpu_get(list)
        cpu_put == chunk_get_cpu_put(list)
    IN  IF gpu_get = cpu_put
        THEN IF list # <<>> THEN -1 ELSE 0
        ELSE IF gpu_get > cpu_put
        THEN IF gpu_get - cpu_put >= MAX_PUSH THEN cpu_put ELSE -1
        ELSE IF CHUNK_SIZE >= cpu_put + MAX_PUSH THEN cpu_put
        ELSE IF gpu_get >= MAX_PUSH THEN 0
        ELSE -1

\* Only an empty list makes the chunk idle as well.
update_chunk(ch, list) ==
    /\ idle_chunks' = IF list = <<>> THEN idle_chunks \cup {ch} ELSE idle_chunks
    /\ IF NextStart(list) >= 0
       THEN /\ available_chunks' = available_chunks \cup {ch}
            /\ next_push_start' = [next_push_start EXCEPT ![ch] = NextStart(list)]
       ELSE UNCHANGED <<available_chunks, next_push_start>>

\* find_first_bit says that ch is the first bit of a mask.
FirstBit(mask, ch) == ch \in mask /\ \A other \in mask : ch <= other

\* The result of pick_chunk is ch.
pick_chunk(ch) == FirstBit(IF idle_chunks # {} THEN idle_chunks ELSE available_chunks, ch)

HasSpace == idle_chunks # {} \/ available_chunks # {}

\* The critical section of try_claim_chunk when pick_chunk finds ch
Claim(p, ch) ==
    /\ current_push' = [current_push EXCEPT ![ch] = p]
    /\ idle_chunks' = idle_chunks \ {ch}
    /\ available_chunks' = available_chunks \ {ch}
    /\ UNCHANGED <<next_push_start, pending_gpfifos>>

-----------------------------------------------------------------------------
(* uvm_pushbuffer_begin_push *)

\* uvm_down(&pushbuffer->concurrent_pushes_sema)
BeginDown(p) ==
    /\ stage[p] = "none"
    /\ sema > 0
    /\ sema' = sema - 1
    /\ stage' = [stage EXCEPT ![p] = "claiming"]
    /\ UNCHANGED <<chunkVars, chunk, begin, status>>

\* try_claim_chunk succeeds with no error seen so far
try_claim_chunk(p) ==
    /\ stage[p] = "claiming"
    /\ HasSpace
    /\ \E ch \in Chunks : /\ pick_chunk(ch)
                          /\ Claim(p, ch)
                          /\ chunk' = [chunk EXCEPT ![p] = ch]
    /\ stage' = [stage EXCEPT ![p] = "claimed"]
    /\ UNCHANGED <<sema, begin, status>>

\* claim_chunk: try_claim_chunk failed in the loop (the failure of the first
\* call, before the loop, only delays the push)
ClaimFails(p) ==
    /\ stage[p] = "claiming"
    /\ ~HasSpace
    /\ stage' = [stage EXCEPT ![p] = "checking"]
    /\ UNCHANGED <<chunkVars, sema, chunk, begin, status>>

\* claim_chunk: uvm_channel_manager_check_errors, later and without the lock
ClaimChecksErrors(p) ==
    /\ stage[p] = "checking"
    /\ stage' = [stage EXCEPT ![p] = IF status = "NV_OK" THEN "claiming" ELSE "failing"]
    /\ UNCHANGED <<chunkVars, sema, chunk, begin, status>>

\* claim_chunk: the loop condition calls try_claim_chunk once more before it
\* looks at the status; the error is returned whatever that call did.
ClaimAfterError(p) ==
    /\ stage[p] = "failing"
    /\ IF HasSpace
       THEN \E ch \in Chunks : /\ pick_chunk(ch)
                               /\ Claim(p, ch)
                               /\ chunk' = [chunk EXCEPT ![p] = ch]
       ELSE UNCHANGED <<chunkVars, chunk>>
    /\ stage' = [stage EXCEPT ![p] = "failed"]
    /\ UNCHANGED <<sema, begin, status>>

\* begin_push gives the semaphore back when claim_chunk failed
BeginFail(p) ==
    /\ stage[p] = "failed"
    /\ sema' = sema + 1
    /\ stage' = [stage EXCEPT ![p] = "none"]
    /\ chunk' = [chunk EXCEPT ![p] = NONE]
    /\ UNCHANGED <<chunkVars, begin, status>>

\* chunk_get_next_push_start_addr, read after the lock has been dropped
BeginReadStart(p) ==
    /\ stage[p] = "claimed"
    /\ begin' = [begin EXCEPT ![p] = next_push_start[chunk[p]]]
    /\ stage' = [stage EXCEPT ![p] = "ongoing"]
    /\ UNCHANGED <<chunkVars, sema, chunk, status>>

-----------------------------------------------------------------------------
(* uvm_pushbuffer_end_push and uvm_pushbuffer_mark_completed *)

Entry(p, g, size) == [gpfifo |-> g, off |-> begin[p], size |-> size]

\* The whole of end_push: the entry joins the list, the chunk is updated and
\* released, the semaphore is given back.
uvm_pushbuffer_end_push(p, g, size) ==
    /\ stage[p] = "ongoing"
    /\ LET ch == chunk[p]
           list == Append(pending_gpfifos[ch], Entry(p, g, size))
       IN  /\ pending_gpfifos' = [pending_gpfifos EXCEPT ![ch] = list]
           /\ update_chunk(ch, list)
           /\ current_push' = [current_push EXCEPT ![ch] = NONE]
    /\ sema' = sema + 1
    /\ stage' = [stage EXCEPT ![p] = "none"]
    /\ chunk' = [chunk EXCEPT ![p] = NONE]
    /\ UNCHANGED <<begin, status>>

\* The pending list without its n-th entry
list_del(list, n) == SubSeq(list, 1, n - 1) \o SubSeq(list, n + 1, Len(list))

\* Mutant: the chunk is updated although a push is on-going in it.
UpdateUnderPush(ch, n) ==
    LET list == list_del(pending_gpfifos[ch], n) IN
    /\ pending_gpfifos' = [pending_gpfifos EXCEPT ![ch] = list]
    /\ IF n \in {1, Len(pending_gpfifos[ch])}
       THEN update_chunk(ch, list)
       ELSE UNCHANGED <<idle_chunks, available_chunks, next_push_start>>
    /\ UNCHANGED <<current_push, sema, pushVars, status>>

\* Mutant: the completion of the last entry does not update the chunk.
UpdateOnFirstOnly(ch, n) ==
    LET list == list_del(pending_gpfifos[ch], n) IN
    /\ pending_gpfifos' = [pending_gpfifos EXCEPT ![ch] = list]
    /\ IF n = 1 /\ current_push[ch] = NONE
       THEN update_chunk(ch, list)
       ELSE UNCHANGED <<idle_chunks, available_chunks, next_push_start>>
    /\ UNCHANGED <<current_push, sema, pushVars, status>>

\* The pending entry at position n of chunk ch has completed.  Only the first
\* and the last entry move the chunk's get and put, and an on-going push
\* delays the update to its end.
MarkCompletedAt(ch, n) ==
    LET list == list_del(pending_gpfifos[ch], n) IN
    /\ pending_gpfifos' = [pending_gpfifos EXCEPT ![ch] = list]
    /\ IF n \in {1, Len(pending_gpfifos[ch])} /\ current_push[ch] = NONE
       THEN update_chunk(ch, list)
       ELSE UNCHANGED <<idle_chunks, available_chunks, next_push_start>>
    /\ UNCHANGED <<current_push, sema, pushVars, status>>

uvm_pushbuffer_mark_completed(g) ==
    \E ch \in Chunks : \E n \in 1..Len(pending_gpfifos[ch]) :
        /\ pending_gpfifos[ch][n].gpfifo = g
        /\ MarkCompletedAt(ch, n)

\* Some channel has failed.
ChannelError ==
    /\ status = "NV_OK"
    /\ status' = "NV_ERR_RC_ERROR"
    /\ UNCHANGED <<chunkVars, sema, pushVars>>

-----------------------------------------------------------------------------
(* The pushbuffer on its own: any push may begin, a push ends with any size *)
(* and a free entry, pending entries complete in any order.                 *)

IsPending(g) == \E ch \in Chunks : \E n \in 1..Len(pending_gpfifos[ch]) :
                    pending_gpfifos[ch][n].gpfifo = g

uvm_pushbuffer_begin_push(p) ==
    \/ BeginDown(p)
    \/ try_claim_chunk(p)
    \/ ClaimFails(p)
    \/ ClaimChecksErrors(p)
    \/ ClaimAfterError(p)
    \/ BeginFail(p)
    \/ BeginReadStart(p)

PbStep ==
    \/ \E p \in Pushes : uvm_pushbuffer_begin_push(p)
    \/ \E p \in Pushes, g \in Gpfifos, size \in 1..MAX_PUSH :
          ~IsPending(g) /\ uvm_pushbuffer_end_push(p, g, size)
    \/ \E g \in Gpfifos : uvm_pushbuffer_mark_completed(g)

\* With channel errors
PbErrorStep == PbStep \/ ChannelError

PbErrorSpec == PbInit /\ [][PbErrorStep]_pbVars

-----------------------------------------------------------------------------
(* Properties *)

Disjoint(off1, len1, off2, len2) == off1 + len1 <= off2 \/ off2 + len2 <= off1

\* Where an on-going push writes: begin, once it has been read
WriteStart(p) == IF stage[p] = "claimed" THEN next_push_start[chunk[p]] ELSE begin[p]

\* The memory an on-going push may write, the worst-case size, overlaps
\* neither a pending push the GPU may still read nor the end of the chunk:
\* also when next_push_start is read after the lock has been dropped, and
\* when pushes complete meanwhile.  Nor is another push on-going in the chunk
\* ("There can be only one at a time", which end_push asserts).
WriteIsSafe ==
    \A p \in Pushes : stage[p] \in {"claimed", "ongoing"} =>
        /\ current_push[chunk[p]] = p
        /\ WriteStart(p) + MAX_PUSH <= CHUNK_SIZE
        /\ \A n \in 1..Len(pending_gpfifos[chunk[p]]) :
              LET e == pending_gpfifos[chunk[p]][n]
              IN  Disjoint(WriteStart(p), MAX_PUSH, e.off, e.size)

\* Bytes the design comment calls unusable: those between gpu_get and cpu_put
Used(ch) ==
    LET list == pending_gpfifos[ch]
        get == chunk_get_gpu_get(list)
        put == chunk_get_cpu_put(list)
    IN  IF list = <<>> THEN {}
        ELSE IF get < put THEN get .. (put - 1)
        ELSE (get .. (CHUNK_SIZE - 1)) \cup (0 .. (put - 1))

HasRoom(ch) == \E s \in 0 .. (CHUNK_SIZE - MAX_PUSH) :
                  (s .. (s + MAX_PUSH - 1)) \cap Used(ch) = {}

\* What uvm_pushbuffer.h says of idle_chunks: "Chunks that do not have an
\* on-going push nor any pending pushes."  A chunk has an on-going push from
\* the moment try_claim_chunk gives it to the push until the push has ended or
\* begin_push has returned an error for it.
IdleExact ==
    idle_chunks = {ch \in Chunks : /\ pending_gpfifos[ch] = <<>>
                                   /\ \A p \in Pushes : chunk[p] # ch}

\* What uvm_pushbuffer.h says of the bitmaps.  available_chunks: "Chunks that do
\* not have an on-going push and have at least UVM_MAX_PUSH_SIZE space free": no
\* free space is forgotten although only completions of the first and the last
\* entry update the chunk, and not while a push is on-going.  idle_chunks: the
\* quotation at IdleExact, which holds until a channel fails; then claim_chunk
\* may claim a chunk once more and return the error.
BitmapsExact ==
    /\ available_chunks = {ch \in Chunks : current_push[ch] = NONE /\ HasRoom(ch)}
    /\ status = "NV_OK" => IdleExact
=============================================================================
