---------------------------- MODULE StreamStorage ----------------------------
(***************************************************************************)
(* The storage of one stream between two tasks, register by register: the  *)
(* three FIFOs (assets/verilog/fifo_fwd.v, fifo_srl.v, fifo_bram.v), the   *)
(* almost-full FIFOs of relay_station.v, and the head/body/tail pipeline   *)
(* of tapa_hs_pipeline.v that carries a stream from one slot to another.   *)
(*                                                                         *)
(* A store is [kind, depth, body].  Every kind has the same state record:  *)
(* the shift-register FIFOs keep their words in q, oldest first, with      *)
(* fullN and almost (almost_full_q); the block-RAM FIFOs keep mem, waddr,  *)
(* raddr, used, fullN, emptyN, qBuf, qTmp, ahead, dout and valid; the      *)
(* pipeline adds words (the valid and data registers, Head first; <<>> is  *)
(* not valid) and ready (the ready registers, Head first).  fifo_fwd is a  *)
(* q of at most one word.                                                  *)
(***************************************************************************)
EXTENDS Integers, Sequences, SequencesExt

\* The parameters of tapa_hs_pipeline, and the grace entry of the registered-
\* ready FIFO (build_registered_ready_fifo_instance).
Piped(store) == store.kind \in {"hs", "hs_bram"}
GraceMutant(store) == IF Piped(store) THEN store.body ELSE 1  \* Mutant: one way of the round trip.
Grace(store) == IF Piped(store) THEN 2 * store.body + 2 ELSE 1
\* REAL_DEPTH; floorplanned_fifo_storage_depth adds five entries.
StorageDepth(store) ==
  CASE Piped(store) -> Grace(store) + store.depth + 4
    [] store.kind = "registered" -> store.depth + 5
    [] OTHER -> store.depth
Block(store) == store.kind \in {"bram", "hs_bram"}
\* ADDR_WIDTH is ceil(log2(DEPTH)), at least 1: the counters wrap at this power.
Wrap(store) == LET d == StorageDepth(store) IN CHOOSE p \in {2, 4, 8, 16, 32} : p >= d /\ (p = 2 \/ p < 2 * d)

\* A store after reset.  Only the resettable registers have their value by it;
\* the pipeline's come from wherever they were (words, ready).
ResetStore(store, s, words, ready) ==
  [s EXCEPT !.q = <<>>, !.fullN = TRUE, !.waddr = 0, !.raddr = 0, !.used = 0, !.emptyN = FALSE,
            !.ahead = FALSE, !.valid = FALSE, !.words = words, !.ready = ready]
\* Power-on: the registers of Head and Body are not initialised.
InitStores(store) ==
  LET n == IF Piped(store) THEN store.body + 1 ELSE 0
      blank == [q |-> <<>>, fullN |-> TRUE, almost |-> FALSE, mem |-> <<>>, waddr |-> 0, raddr |-> 0,
                used |-> 0, emptyN |-> FALSE, qBuf |-> 0, qTmp |-> 0, ahead |-> FALSE, dout |-> 0,
                valid |-> FALSE, words |-> <<>>, ready |-> <<>>]
      mem == IF Block(store) THEN [a \in 1..StorageDepth(store) |-> 0] ELSE <<>>
  IN {[blank EXCEPT !.mem = mem, !.words = w, !.ready = r] :
        w \in [1..n -> {<<>>, <<0>>}], r \in [1..n -> BOOLEAN]}
-----------------------------------------------------------------------------
(* fifo_srl, fifo_srl_almost_full *)

\* out_ptr is Len(q) - 1.
SrlStep(store, s, write, din, read) ==
  LET push == write /\ s.fullN
      pop == read /\ s.q # <<>>
      kept == IF pop THEN Tail(s.q) ELSE s.q
  IN [s EXCEPT !.q = IF push THEN Append(kept, din) ELSE kept,
               !.fullN = CASE push /\ ~pop -> Len(s.q) # StorageDepth(store) - 1
                           [] pop /\ ~push -> TRUE
                           [] OTHER -> @]
AlmostFull(store, s) ==
  /\ store.kind \in {"hs", "registered"}
  /\ s.q # <<>> /\ Len(s.q) - 1 >= StorageDepth(store) - 1 - Grace(store) - 1
-----------------------------------------------------------------------------
(* fifo_bram, fifo_bram_almost_full *)

BramPop(s, read) == s.emptyN /\ (~s.valid \/ read)
Next1(store, a, moved) ==
  CASE ~moved -> a [] moved /\ a = StorageDepth(store) - 1 -> 0 [] OTHER -> a + 1
ShowAhead(s, push, pop) == push /\ s.used = (IF pop THEN 1 ELSE 0)
BramStep(store, s, write, din, read) ==
  LET push == s.fullN /\ write
      pop == BramPop(s, read)
      rnext == Next1(store, s.raddr, pop)
  IN [s EXCEPT !.mem = IF push THEN [@ EXCEPT ![s.waddr + 1] = din] ELSE @,
               !.waddr = Next1(store, @, push), !.raddr = rnext,
               !.used = CASE push /\ ~pop -> (@ + 1) % Wrap(store)
                          [] pop /\ ~push -> (@ + Wrap(store) - 1) % Wrap(store) [] OTHER -> @,
               !.fullN = CASE push /\ ~pop -> s.used # StorageDepth(store) - 1
                           [] pop /\ ~push -> TRUE [] OTHER -> @,
               !.emptyN = CASE push /\ ~pop -> TRUE [] pop /\ ~push -> s.used # 1 [] OTHER -> @,
               !.qBuf = s.mem[rnext + 1], !.qTmp = IF push THEN din ELSE @,
               !.ahead = ShowAhead(s, push, pop),
               !.dout = IF pop THEN (IF s.ahead THEN s.qTmp ELSE s.qBuf) ELSE @,
               !.valid = pop \/ (@ /\ ~read)]
\* What a reset leaves of the memory's own registers: mem is still written and
\* q_buf still read under it.
BramReset(store, s, write, din, read) ==
  LET push == s.fullN /\ write
      rnext == Next1(store, s.raddr, BramPop(s, read))
  IN [s EXCEPT !.mem = IF push THEN [@ EXCEPT ![s.waddr + 1] = din] ELSE @,
               !.qBuf = s.mem[rnext + 1], !.qTmp = 0, !.dout = 0]
-----------------------------------------------------------------------------
(* The ports *)

\* if_full_n of the FIFO at the reading end
TailFullN(store, s) ==
  CASE store.kind \in {"hs", "registered"} -> ~s.almost
    [] store.kind = "hs_bram" -> ~(s.used >= StorageDepth(store) - 1 - Grace(store))
    [] store.kind = "fwd" -> s.q = <<>>
    [] OTHER -> s.fullN
\* if_full_n as the writing task sees it: Head's ready register in a pipeline.
FullN(store, s) == IF Piped(store) THEN s.ready[1] ELSE TailFullN(store, s)
\* if_empty_n and if_dout, as <<word>> or <<>>; fifo_fwd shows a word as it is
\* written.
Shown(store, s, write, din) ==
  CASE Block(store) -> (IF s.valid THEN <<s.dout>> ELSE <<>>)
    [] store.kind = "fwd" /\ s.q = <<>> /\ write -> <<din>>
    [] OTHER -> (IF s.q = <<>> THEN <<>> ELSE <<Head(s.q)>>)

TailStep(store, s, reset, write, din, read) ==
  CASE reset /\ Block(store) -> ResetStore(store, BramReset(store, s, write, din, read), s.words, s.ready)
    [] reset /\ ~Block(store) ->
         ResetStore(store, [s EXCEPT !.almost = AlmostFull(store, s)], s.words, s.ready)
    [] ~reset /\ Block(store) -> BramStep(store, s, write, din, read)
    [] ~reset /\ store.kind = "fwd" ->
         [s EXCEPT !.q = CASE @ # <<>> /\ read -> <<>>
                           [] @ = <<>> /\ write /\ ~read -> <<din>> [] OTHER -> @]
    [] OTHER -> [SrlStep(store, s, write, din, read) EXCEPT !.almost = AlmostFull(store, s)]

\* One clock edge.  In a pipeline the gate lets a word in when Head is ready,
\* and Head and Body move whatever they hold, reset or not.
StoreStep(store, s, reset, write, din, read) ==
  IF ~Piped(store) THEN TailStep(store, s, reset, write, din, read)
  ELSE LET n == store.body + 1
           arriving == s.words[n]
           gated == IF write /\ s.ready[1] THEN <<din>> ELSE <<>>
           tail == TailStep(store, s, reset, arriving # <<>>,
                            IF arriving = <<>> THEN 0 ELSE arriving[1], read)
       IN [tail EXCEPT !.words = [i \in 1..n |-> IF i = 1 THEN gated ELSE s.words[i - 1]],
                       !.ready = [i \in 1..n |-> IF i = n THEN TailFullN(store, s) ELSE s.ready[i + 1]]]

\* The words a store holds, oldest first.
Content(store, s) ==
  LET held == IF s.used = 0 /\ s.emptyN THEN Wrap(store) ELSE s.used
      ram == [i \in 1..held |-> s.mem[((s.raddr + i - 1) % StorageDepth(store)) + 1]]
  IN (IF Block(store) THEN (IF s.valid THEN <<s.dout>> ELSE <<>>) \o ram ELSE s.q)
       \o FlattenSeq(Reverse(s.words))
=============================================================================
