------------------------ MODULE AuditOperationsProofs ------------------------
(***************************************************************************)
(* Theorems about AuditOperations, for every choice of its constants.      *)
(*                                                                         *)
(* Handles says whose operation a with-block or a call is about: nobody    *)
(* but the worker that began an operation settles it, which is where the   *)
(* theorems need that no worker is given another's handle (Helpers = {}).  *)
(* Ledger relates the state of an operation to what the stream holds of it.*)
(***************************************************************************)
EXTENDS AuditOperations, SequenceTheorems, TLAPS

Live(op) == state[op] \in {"open", "finalised", "failed"}

\* An automatic call is about the innermost block of its worker.
AutomaticInside ==
    \A w \in Workers : call[w] # NoCall /\ call[w].automatic =>
        blocks[w] # <<>> /\ call[w].op = Innermost(w)

Shape == TypeOK /\ AutomaticInside

\* A with-block is of a live operation of its own worker.
BlockOwned(w, k) == owner[blocks[w][k]] = w /\ Live(blocks[w][k])

\* So is an outcome call; an append, or any call of an exit, is about an open operation.
CallOwned(w) == call[w] # NoCall =>
    /\ owner[call[w].op] = w
    /\ Live(call[w].op)
    /\ MayReport(call[w].op, call[w].outcome)
    /\ call[w].at = "append" \/ call[w].automatic => state[call[w].op] = "open"

Handles ==
    /\ \A w \in Workers : \A k \in 1..Len(blocks[w]) : BlockOwned(w, k)
    /\ \A w \in Workers : CallOwned(w)

--------------------------------------------------------------------------------
(* Types. *)

LEMMA TypeInit == Init => TypeOK
<1> SUFFICES ASSUME Init PROVE TypeOK
  OBVIOUS
<1>1. trail \in Seq(Records) /\ blocks \in [Workers -> Seq(Ops)]
  BY DEF Init
<1>2. effect \in [Ops -> BOOLEAN]
  BY DEF Init
<1>3. flight \in [Workers -> Exceptions] /\ call \in [Workers -> {NoCall} \cup OutcomeCalls]
  BY DEF Init, Exceptions
<1> QED
  BY <1>1, <1>2, <1>3 DEF Init, TypeOK

Ways == {"no", "clean", "body", "usage", "stored", "dual"}

\* Leaving a block takes the last one off and changes nothing else of the blocks.
LEMMA LeaveBlockShape ==
  ASSUME TypeOK, NEW w \in Workers, NEW op \in Ops, NEW how \in Ways, NEW e \in Exceptions,
         blocks[w] # <<>>, LeaveBlock(w, op, how, e)
  PROVE  /\ blocks' \in [Workers -> Seq(Ops)]
         /\ left' \in [Ops -> Ways]
         /\ flight' \in [Workers -> Exceptions]
         /\ Len(blocks'[w]) = Len(blocks[w]) - 1
         /\ \A k \in 1..Len(blocks'[w]) : blocks'[w][k] = blocks[w][k]
         /\ \A u \in Workers \ {w} : blocks'[u] = blocks[u]
         /\ left'[op] = how
         /\ \A o \in Ops \ {op} : left'[o] = left[o]
<1>1. blocks[w] \in Seq(Ops) /\ Len(blocks[w]) \in Nat /\ Len(blocks[w]) >= 1
  BY EmptySeq, LenProperties DEF TypeOK
<1>2. /\ SubSeq(blocks[w], 1, Len(blocks[w]) - 1) \in Seq(Ops)
      /\ Len(SubSeq(blocks[w], 1, Len(blocks[w]) - 1)) = Len(blocks[w]) - 1
      /\ \A k \in 1..(Len(blocks[w]) - 1) :
            SubSeq(blocks[w], 1, Len(blocks[w]) - 1)[k] = blocks[w][k]
  BY <1>1
<1> QED
  BY <1>1, <1>2 DEF LeaveBlock, Raise, TypeOK, Ways

LEMMA InnermostType ==
  ASSUME TypeOK, NEW w \in Workers, blocks[w] # <<>>
  PROVE  /\ Len(blocks[w]) \in Nat /\ Len(blocks[w]) >= 1
         /\ Innermost(w) \in Ops
         /\ Innermost(w) = blocks[w][Len(blocks[w])]
<1>1. blocks[w] \in Seq(Ops) /\ Len(blocks[w]) \in Nat /\ Len(blocks[w]) >= 1
  BY EmptySeq, LenProperties DEF TypeOK
<1> QED
  BY <1>1 DEF Innermost

LEMMA ExceptionTypes ==
  ASSUME NEW op \in Ops
  PROVE  /\ NoException \in Exceptions /\ Foreign \in Exceptions /\ Usage \in Exceptions
         /\ Stored(op) \in Exceptions /\ Dual(op) \in Exceptions
  BY DEF Exceptions, Stored, Dual

\* An append puts at most its own record at the end of the stream, and acknowledges at
\* most that one.
LEMMA DeliverShape ==
  ASSUME TypeOK, NEW r \in Records, NEW a \in Appends, Deliver(r, a)
  PROVE  /\ trail' \in Seq(Records) /\ acked' \subseteq Records
         /\ Len(trail) \in Nat
         /\ \/ trail' = trail /\ a.ending # "ok"
            \/ /\ Len(trail') = Len(trail) + 1
               /\ trail'[Len(trail) + 1] = r
         /\ \A k \in 1..Len(trail) : trail'[k] = trail[k]
         /\ acked' = IF a.ending = "ok" THEN acked \cup {r} ELSE acked
<1>1. a.ending = "ok" => a.left
  BY DEF Appends
<1>2. CASE a.left
  BY <1>1, <1>2 DEF Deliver, TypeOK
<1>3. CASE ~a.left
  BY <1>1, <1>3 DEF Deliver, TypeOK
<1> QED
  BY <1>2, <1>3


LEMMA CallShape ==
  ASSUME TypeOK, NEW w \in Workers, call[w] # NoCall
  PROVE  /\ call[w] \in OutcomeCalls
         /\ call[w].op \in Ops /\ call[w].outcome \in Outcomes
         /\ call[w].automatic \in BOOLEAN
         /\ \A outcome \in Outcomes : Entry(call[w].op, outcome) \in Records
  BY DEF TypeOK, OutcomeCalls, Entry, Records

\* A call that fails ends, and at most leaves the innermost block, reporting a failure.
LEMMA FailCallShape ==
  ASSUME Shape, NEW w \in Workers, call[w] # NoCall, NEW e \in Exceptions,
         NEW isInterrupt \in BOOLEAN, FailCall(w, e, isInterrupt)
  PROVE  /\ call' = [call EXCEPT ![w] = NoCall]
         /\ blocks' \in [Workers -> Seq(Ops)]
         /\ left' \in [Ops -> Ways]
         /\ flight' \in [Workers -> Exceptions]
         /\ Len(blocks'[w]) <= Len(blocks[w])
         /\ \A k \in 1..Len(blocks'[w]) : k \in 1..Len(blocks[w]) /\ blocks'[w][k] = blocks[w][k]
         /\ \A u \in Workers \ {w} : blocks'[u] = blocks[u]
         /\ \A o \in Ops : left'[o] # left[o] =>
               call[w].automatic /\ o = call[w].op /\ left'[o] \in {"stored", "dual"}
<1>1. call[w].op \in Ops
  BY CallShape DEF Shape
<1>2. call' = [call EXCEPT ![w] = NoCall]
  BY DEF FailCall
<1>3. CASE call[w].automatic
  <2>1. blocks[w] # <<>>
    BY <1>3 DEF Shape, AutomaticInside
  <2>2. PICK how \in {"stored", "dual"}, x \in Exceptions : LeaveBlock(w, call[w].op, how, x)
    BY <1>1, <1>3, ExceptionTypes DEF FailCall
  <2>3. how \in Ways
    BY DEF Ways
  <2>4. Len(blocks[w]) \in Nat
    BY <2>1, InnermostType DEF Shape
  <2> HIDE DEF Ways
  <2> QED
    BY <1>1, <1>2, <1>3, <2>1, <2>2, <2>3, <2>4, LeaveBlockShape DEF Shape
<1>4. CASE ~call[w].automatic
  <2>1. blocks \in [Workers -> Seq(Ops)] /\ left \in [Ops -> Ways] /\ Len(blocks[w]) \in Nat
    BY DEF Shape, TypeOK, Ways
  <2>2. flight' \in [Workers -> Exceptions]
    BY <1>4 DEF FailCall, Raise, Shape, TypeOK
  <2>3. blocks' = blocks /\ left' = left
    BY <1>4 DEF FailCall
  <2> QED
    BY <1>2, <2>1, <2>2, <2>3
<1> QED
  BY <1>3, <1>4

LEMMA ShapeInit == Init => Shape
  BY TypeInit DEF Init, Shape, AutomaticInside

\* Workers other than w keep their automatic calls inside their blocks.
LEMMA OthersInside ==
  ASSUME Shape, NEW w \in Workers,
         \A u \in Workers \ {w} : blocks'[u] = blocks[u] /\ call'[u] = call[u],
         call'[w] # NoCall /\ call'[w].automatic =>
            blocks'[w] # <<>> /\ call'[w].op = Innermost(w)'
  PROVE  AutomaticInside'
  BY DEF Shape, AutomaticInside, Innermost

LEMMA BeginShape ==
  ASSUME Shape, NEW w \in Workers, NEW op \in Ops, NEW form \in Forms, NEW a \in Appends,
         Begin(w, op, form, a)
  PROVE  Shape'
<1> USE DEF Shape
<1>1. flight' \in [Workers -> Exceptions]
  BY ExceptionTypes DEF Begin, Raise, TypeOK
<1>2. blocks' \in [Workers -> Seq(Ops)]
  <2>1. Append(blocks[w], op) \in Seq(Ops)
    BY DEF TypeOK
  <2> QED
    BY <2>1 DEF Begin, TypeOK
<1>3. trail' \in Seq(Records) /\ acked' \subseteq Records
  <2>1. Entry(op, "intent") \in Records
    BY DEF Entry, Records
  <2> QED
    BY <2>1, DeliverShape DEF Begin, TypeOK
<1>4. state' \in [Ops -> {"unused", "rejected", "open", "finalised", "failed"}]
  BY DEF Begin, TypeOK
<1>5. owner' \in [Ops -> Workers \cup {NoWorker}]
  BY DEF Begin, TypeOK
<1>6. TypeOK'
  BY <1>1, <1>2, <1>3, <1>4, <1>5 DEF Begin, TypeOK
<1>7. call' = call /\ call[w] = NoCall /\ \A u \in Workers \ {w} : blocks'[u] = blocks[u]
  BY DEF Begin, Running, TypeOK
<1> QED
  BY <1>6, <1>7, OthersInside

LEMMA CheckShape ==
  ASSUME Shape, NEW w \in Workers, CheckState(w)
  PROVE  /\ Shape'
         /\ \A o \in Ops : left'[o] # left[o] => left'[o] \in {"stored", "dual"}
<1> USE DEF Shape
<1>1. call[w] # NoCall
  BY DEF CheckState, NoCall
<1>2. call[w] \in OutcomeCalls
  BY <1>1, CallShape
<1>3. CASE state[call[w].op] = "open"
  <2>1. UNCHANGED <<blocks, left, flight>> /\ call' = [call EXCEPT ![w].at = "append"]
    BY <1>3 DEF CheckState
  <2>2. /\ [call[w] EXCEPT !.at = "append"] \in OutcomeCalls
        /\ [call[w] EXCEPT !.at = "append"].op = call[w].op
        /\ [call[w] EXCEPT !.at = "append"].automatic = call[w].automatic
    BY <1>2 DEF OutcomeCalls
  <2>3. call'[w] = [call[w] EXCEPT !.at = "append"] /\ \A u \in Workers \ {w} : call'[u] = call[u]
    BY <2>1 DEF TypeOK
  <2>4. call' \in [Workers -> {NoCall} \cup OutcomeCalls]
    BY <2>1, <2>2 DEF TypeOK
  <2>5. TypeOK'
    BY <2>1, <2>4 DEF CheckState, TypeOK
  <2>6. call'[w].automatic => blocks'[w] # <<>> /\ call'[w].op = Innermost(w)'
    BY <1>1, <2>1, <2>2, <2>3 DEF AutomaticInside, Innermost
  <2> QED
    BY <2>1, <2>3, <2>5, <2>6, OthersInside
<1>4. CASE state[call[w].op] # "open"
  <2>1. FailCall(w, Usage, FALSE)
    BY <1>4 DEF CheckState
  <2>2. Usage \in Exceptions
    BY <1>1, CallShape, ExceptionTypes
  <2> HIDE DEF Shape
  <2>3. Shape
    OBVIOUS
  <2>4. /\ call' = [call EXCEPT ![w] = NoCall]
        /\ blocks' \in [Workers -> Seq(Ops)] /\ left' \in [Ops -> Ways]
        /\ flight' \in [Workers -> Exceptions]
        /\ \A u \in Workers \ {w} : blocks'[u] = blocks[u]
        /\ \A o \in Ops : left'[o] # left[o] => left'[o] \in {"stored", "dual"}
    BY <1>1, <2>1, <2>2, FailCallShape
  <2>5. call' \in [Workers -> {NoCall} \cup OutcomeCalls]
    BY <2>4 DEF Shape, TypeOK
  <2>6. TypeOK'
    BY <2>4, <2>5 DEF CheckState, Shape, TypeOK, Ways
  <2> QED
    BY <2>4, <2>6, OthersInside DEF Shape, TypeOK
<1> QED
  BY <1>3, <1>4

LEMMA AppendShape ==
  ASSUME Shape, NEW w \in Workers, NEW a \in Appends, AppendOutcome(w, a)
  PROVE  /\ Shape'
         /\ call' = [call EXCEPT ![w] = NoCall]
         /\ Len(blocks'[w]) <= Len(blocks[w])
         /\ \A k \in 1..Len(blocks'[w]) : k \in 1..Len(blocks[w]) /\ blocks'[w][k] = blocks[w][k]
         /\ \A u \in Workers \ {w} : blocks'[u] = blocks[u]
         /\ \A o \in Ops : left'[o] # left[o] =>
               /\ o = call[w].op
               /\ left'[o] \in IF a.ending = "ok" THEN {"body"} ELSE {"stored", "dual"}
<1>1. call[w] # NoCall
  BY DEF AppendOutcome, NoCall
<1>2. /\ call[w] \in OutcomeCalls /\ call[w].op \in Ops
      /\ Entry(call[w].op, call[w].outcome) \in Records
  BY <1>1, CallShape DEF Shape
<1>3. trail' \in Seq(Records) /\ acked' \subseteq Records
  BY <1>2, DeliverShape DEF AppendOutcome, Shape
<1>4. state' \in [Ops -> {"unused", "rejected", "open", "finalised", "failed"}]
  BY <1>2 DEF AppendOutcome, StateAfter, Shape, TypeOK
<1>5. stored' \in [Ops -> {"none"} \cup (Endings \ {"ok"})]
  <2>1. a.ending \in Endings
    BY DEF Appends
  <2> QED
    BY <1>2, <2>1 DEF AppendOutcome, Shape, TypeOK
<1>6. /\ call' = [call EXCEPT ![w] = NoCall]
      /\ blocks' \in [Workers -> Seq(Ops)]
      /\ left' \in [Ops -> Ways]
      /\ flight' \in [Workers -> Exceptions]
      /\ Len(blocks'[w]) <= Len(blocks[w])
      /\ \A k \in 1..Len(blocks'[w]) : k \in 1..Len(blocks[w]) /\ blocks'[w][k] = blocks[w][k]
      /\ \A u \in Workers \ {w} : blocks'[u] = blocks[u]
      /\ \A o \in Ops : left'[o] # left[o] =>
            /\ o = call[w].op
            /\ left'[o] \in IF a.ending = "ok" THEN {"body"} ELSE {"stored", "dual"}
  <2>1. CASE a.ending = "ok" /\ call[w].automatic
    <3>1. call' = [call EXCEPT ![w] = NoCall] /\ LeaveBlock(w, call[w].op, "body", flight[w])
      BY <2>1 DEF AppendOutcome
    <3>2. blocks[w] # <<>>
      BY <1>1, <2>1 DEF Shape, AutomaticInside
    <3>3. flight[w] \in Exceptions /\ "body" \in Ways /\ Len(blocks[w]) \in Nat
      BY <3>2, InnermostType DEF Shape, TypeOK, Ways
    <3> QED
      BY <1>2, <2>1, <3>1, <3>2, <3>3, LeaveBlockShape DEF Shape
  <2>2. CASE a.ending = "ok" /\ ~call[w].automatic
    <3>1. call' = [call EXCEPT ![w] = NoCall] /\ blocks' = blocks /\ left' = left /\ flight' = flight
      BY <2>2 DEF AppendOutcome
    <3>2. /\ blocks \in [Workers -> Seq(Ops)] /\ left \in [Ops -> Ways]
          /\ flight \in [Workers -> Exceptions] /\ Len(blocks[w]) \in Nat
      BY DEF Shape, TypeOK, Ways
    <3> QED
      BY <3>1, <3>2
  <2>3. CASE a.ending # "ok"
    <3>1. FailCall(w, Stored(call[w].op), a.ending = "interrupt")
      BY <2>3 DEF AppendOutcome
    <3>2. (a.ending = "interrupt") \in BOOLEAN /\ Stored(call[w].op) \in Exceptions
      BY <1>2, ExceptionTypes
    <3> QED
      BY <1>1, <2>3, <3>1, <3>2, FailCallShape
  <2> QED
    BY <2>1, <2>2, <2>3
<1>7. call' \in [Workers -> {NoCall} \cup OutcomeCalls] /\ call'[w] = NoCall
  BY <1>6 DEF Shape, TypeOK
<1>8. TypeOK'
  BY <1>3, <1>4, <1>5, <1>6, <1>7 DEF AppendOutcome, Shape, TypeOK, Ways
<1>9. \A u \in Workers \ {w} : call'[u] = call[u]
  BY <1>6 DEF Shape, TypeOK
<1> QED
  BY <1>6, <1>7, <1>8, <1>9, OthersInside DEF Shape

\* The exits that leave their block at once.
Leaving(w) == ExitFinalised(w) \/ ExitFailed(w) \/ ExitForgotten(w)

\* What each of them says of the operation, by the state it is in.
LEMMA LeavingShape ==
  ASSUME Shape, NEW w \in Workers, Leaving(w)
  PROVE  /\ Shape'
         /\ UNCHANGED <<state, stored, owner, trail, acked, effect, call>>
         /\ call[w] = NoCall
         /\ Len(blocks'[w]) <= Len(blocks[w])
         /\ \A k \in 1..Len(blocks'[w]) : k \in 1..Len(blocks[w]) /\ blocks'[w][k] = blocks[w][k]
         /\ \A u \in Workers \ {w} : blocks'[u] = blocks[u]
         /\ \A o \in Ops : left'[o] # left[o] =>
               \/ state[o] = "finalised" /\ left'[o] \in {"clean", "body"}
               \/ state[o] = "failed" /\ left'[o] \in {"stored", "dual"}
               \/ state[o] = "open" /\ left'[o] = "usage"
<1>1. blocks[w] # <<>> /\ call[w] = NoCall
  BY DEF Leaving, ExitFinalised, ExitFailed, ExitForgotten, AtExit
<1>2. Innermost(w) \in Ops /\ Len(blocks[w]) \in Nat
  BY <1>1, InnermostType DEF Shape
<1>3. PICK how \in Ways, e \in Exceptions :
         /\ LeaveBlock(w, Innermost(w), how, e)
         /\ \/ state[Innermost(w)] = "finalised" /\ how \in {"clean", "body"}
            \/ state[Innermost(w)] = "failed" /\ how \in {"stored", "dual"}
            \/ state[Innermost(w)] = "open" /\ how = "usage"
  <2>1. CASE ExitFinalised(w)
    <3>1. flight[w] \in Exceptions
      BY DEF Shape, TypeOK
    <3> QED
      BY <2>1, <3>1 DEF ExitFinalised, Ways
  <2>2. CASE ExitFailed(w)
    BY <2>2, <1>2, ExceptionTypes DEF ExitFailed, Ways
  <2>3. CASE ExitForgotten(w)
    BY <2>3, <1>2, ExceptionTypes DEF ExitForgotten, Ways
  <2> QED
    BY <2>1, <2>2, <2>3 DEF Leaving
<1>4. UNCHANGED <<state, stored, owner, trail, acked, effect, call>>
  BY DEF Leaving, ExitFinalised, ExitFailed, ExitForgotten
<1>5. /\ blocks' \in [Workers -> Seq(Ops)]
      /\ left' \in [Ops -> Ways]
      /\ flight' \in [Workers -> Exceptions]
      /\ Len(blocks'[w]) = Len(blocks[w]) - 1
      /\ \A k \in 1..Len(blocks'[w]) : blocks'[w][k] = blocks[w][k]
      /\ \A u \in Workers \ {w} : blocks'[u] = blocks[u]
      /\ left'[Innermost(w)] = how
      /\ \A o \in Ops \ {Innermost(w)} : left'[o] = left[o]
  BY <1>1, <1>2, <1>3, LeaveBlockShape DEF Shape
<1>6. TypeOK'
  BY <1>4, <1>5 DEF Shape, TypeOK, Ways
<1>7. Shape'
  BY <1>1, <1>4, <1>5, <1>6, OthersInside DEF Shape
<1>8. ASSUME NEW o \in Ops, left'[o] # left[o]
      PROVE  \/ state[o] = "finalised" /\ left'[o] \in {"clean", "body"}
             \/ state[o] = "failed" /\ left'[o] \in {"stored", "dual"}
             \/ state[o] = "open" /\ left'[o] = "usage"
  <2>1. o = Innermost(w) /\ left'[o] = how
    BY <1>5, <1>8
  <2> QED
    BY <1>3, <2>1
<1>9. /\ Len(blocks'[w]) <= Len(blocks[w])
      /\ \A k \in 1..Len(blocks'[w]) : k \in 1..Len(blocks[w]) /\ blocks'[w][k] = blocks[w][k]
      /\ \A u \in Workers \ {w} : blocks'[u] = blocks[u]
  BY <1>2, <1>5
<1> QED
  BY <1>1, <1>4, <1>7, <1>8, <1>9

LEMMA RaiseForeignShape ==
  ASSUME Shape, NEW w \in Workers, RaiseForeign(w)
  PROVE  Shape'
<1>1. flight' \in [Workers -> Exceptions]
  BY DEF RaiseForeign, Raise, Shape, TypeOK, Exceptions
<1>2. TypeOK'
  BY <1>1 DEF RaiseForeign, Shape, TypeOK
<1> QED
  BY <1>2 DEF RaiseForeign, Shape, AutomaticInside, Innermost

LEMMA CatchShape ==
  ASSUME Shape, NEW w \in Workers, Catch(w)
  PROVE  Shape'
<1>1. flight' \in [Workers -> Exceptions]
  BY DEF Catch, Raise, Shape, TypeOK, Exceptions
<1>2. TypeOK'
  BY <1>1 DEF Catch, Shape, TypeOK
<1> QED
  BY <1>2 DEF Catch, Shape, AutomaticInside, Innermost

LEMMA MutateShape ==
  ASSUME Shape, NEW w \in Workers, NEW op \in Ops, Mutate(w, op)
  PROVE  Shape'
<1>1. effect' \in [Ops -> BOOLEAN]
  BY DEF Mutate, Shape, TypeOK
<1>2. TypeOK'
  BY <1>1 DEF Mutate, Shape, TypeOK
<1> QED
  BY <1>2 DEF Mutate, Shape, AutomaticInside, Innermost

LEMMA CallOutcomeShape ==
  ASSUME Shape, NEW w \in Workers, NEW op \in Ops, NEW outcome \in Outcomes,
         CallOutcome(w, op, outcome)
  PROVE  Shape'
<1> DEFINE c == [at |-> "check", op |-> op, outcome |-> outcome, automatic |-> FALSE]
<1>1. c \in OutcomeCalls /\ ~c.automatic
  BY DEF OutcomeCalls
<1>2. call' = [call EXCEPT ![w] = c]
  BY DEF CallOutcome
<1> HIDE DEF c
<1>3. call' \in [Workers -> {NoCall} \cup OutcomeCalls] /\ call'[w] = c
      /\ \A u \in Workers \ {w} : call'[u] = call[u]
  BY <1>1, <1>2 DEF Shape, TypeOK
<1>4. TypeOK' /\ blocks' = blocks
  BY <1>3 DEF CallOutcome, Shape, TypeOK
<1> QED
  BY <1>1, <1>3, <1>4, OthersInside DEF Shape

LEMMA ExitEscapedShape ==
  ASSUME Shape, NEW w \in Workers, ExitEscaped(w)
  PROVE  Shape'
<1> DEFINE c == [at |-> "check", op |-> Innermost(w), outcome |-> "indeterminate",
                 automatic |-> TRUE]
<1>1. blocks[w] # <<>> /\ Innermost(w) \in Ops
  BY InnermostType DEF ExitEscaped, AtExit, Shape
<1>2. c \in OutcomeCalls /\ c.op = Innermost(w)
  BY <1>1 DEF OutcomeCalls, Outcomes
<1>3. call' = [call EXCEPT ![w] = c] /\ blocks' = blocks
  BY DEF ExitEscaped
<1> HIDE DEF c
<1>4. call' \in [Workers -> {NoCall} \cup OutcomeCalls] /\ call'[w] = c
      /\ \A u \in Workers \ {w} : call'[u] = call[u]
  BY <1>2, <1>3 DEF Shape, TypeOK
<1>5. TypeOK'
  BY <1>4 DEF ExitEscaped, Shape, TypeOK
<1>6. blocks'[w] # <<>> /\ call'[w].op = Innermost(w)'
  BY <1>1, <1>2, <1>3, <1>4 DEF Innermost
<1> QED
  BY <1>3, <1>4, <1>5, <1>6, OthersInside DEF Shape

\* A crash leaves a piece of the stream from its beginning, with all that was acknowledged.
LEMMA CrashTrail ==
  ASSUME TypeOK, Crash
  PROVE  /\ trail' \in Seq(Records)
         /\ \A k \in 1..Len(trail') : k \in 1..Len(trail) /\ trail'[k] = trail[k]
         /\ \A r \in acked : \E k \in 1..Len(trail') : trail'[k] = r
<1>1. trail \in Seq(Records) /\ Len(trail) \in Nat
  BY DEF TypeOK
<1>2. PICK n \in 0..Len(trail) : Survives(n) /\ trail' = SubSeq(trail, 1, n)
  BY DEF Crash
<1>3. /\ trail' \in Seq(Records)
      /\ Len(trail') = n
      /\ \A k \in 1..n : trail'[k] = trail[k]
  BY <1>1, <1>2
<1>4. \A k \in 1..Len(trail') : k \in 1..Len(trail) /\ trail'[k] = trail[k]
  BY <1>1, <1>3
<1>5. \A r \in acked : \E k \in 1..Len(trail') : trail'[k] = r
  BY <1>2, <1>3 DEF Survives
<1> QED
  BY <1>3, <1>4, <1>5

LEMMA CrashShape ==
  ASSUME Shape, Crash
  PROVE  Shape'
<1>1. trail' \in Seq(Records)
  BY CrashTrail DEF Shape
<1>2. blocks' \in [Workers -> Seq(Ops)]
  BY DEF Crash
<1>3. flight' \in [Workers -> Exceptions] /\ call' \in [Workers -> {NoCall} \cup OutcomeCalls]
  BY DEF Crash, Exceptions
<1>4. owner' \in [Ops -> Workers \cup {NoWorker}]
  BY DEF Crash
<1>5. TypeOK'
  BY <1>1, <1>2, <1>3, <1>4 DEF Crash, Shape, TypeOK
<1>6. AutomaticInside'
  BY DEF Crash, AutomaticInside
<1> QED
  BY <1>5, <1>6 DEF Shape

LEMMA ShapeStep == Shape /\ [Next]_vars => Shape'
<1> SUFFICES ASSUME Shape, [Next]_vars PROVE Shape'
  OBVIOUS
<1>1. CASE UNCHANGED vars
  BY <1>1 DEF vars, Shape, TypeOK, AutomaticInside, Innermost
<1>2. CASE \E w \in Workers : Body(w) \/ Library(w)
  <2>1. PICK w \in Workers : Body(w) \/ Library(w)
    BY <1>2
  <2>2. CASE Body(w)
    BY <2>2, RaiseForeignShape, CatchShape, MutateShape, BeginShape, CallOutcomeShape DEF Body
  <2>3. CASE Library(w)
    BY <2>3, CheckShape, AppendShape, LeavingShape, ExitEscapedShape DEF Library, Leaving
  <2> QED
    BY <2>1, <2>2, <2>3
<1> QED
  BY <1>1, <1>2, CrashShape DEF Next

\* The variables keep their types, whoever is given whose handle.
THEOREM TypeCorrect == Spec => []TypeOK
<1>1. Shape => TypeOK
  BY DEF Shape
<1> QED
  BY <1>1, ShapeInit, ShapeStep, PTL DEF Spec

\* Whatever the body caught or raised, the block of a failed operation ends with that
\* failure (ExitFailed, FailCall), whoever is given whose handle.
THEOREM FailureAlwaysSurfaces == Spec => FailureSurfaces
<1> DEFINE Surfaces == \A op \in Ops :
      left[op] = "no" /\ left'[op] # "no" /\ state'[op] = "failed" => left'[op] \in {"stored", "dual"}
<1>1. Shape /\ [Next]_vars => [Surfaces]_vars
  <2> SUFFICES ASSUME Shape, Next PROVE Surfaces
    OBVIOUS
  <2>2. CASE left' = left
    BY <2>2
  <2>8. CASE Crash
    BY <2>2, <2>8 DEF Crash
  <2> SUFFICES ASSUME NEW w \in Workers, Body(w) \/ Library(w) PROVE Surfaces
    BY <2>8 DEF Next
  <2>3. CASE Body(w)
    BY <2>2, <2>3 DEF Body, RaiseForeign, Catch, Mutate, Begin, CallOutcome
  <2>4. CASE CheckState(w)
    BY <2>4, CheckShape
  <2>5. ASSUME NEW a \in Appends, AppendOutcome(w, a) PROVE Surfaces
    <3>1. call[w].op \in Ops
      BY <2>5, CallShape DEF AppendOutcome, NoCall, Shape
    <3>2. state'[call[w].op] = StateAfter(a)
      BY <2>5, <3>1 DEF AppendOutcome, Shape, TypeOK
    <3> QED
      BY <2>5, <3>1, <3>2, AppendShape DEF StateAfter
  <2>6. CASE Leaving(w)
    BY <2>6, LeavingShape
  <2>7. CASE ExitEscaped(w)
    BY <2>2, <2>7 DEF ExitEscaped
  <2> QED
    BY <2>3, <2>4, <2>5, <2>6, <2>7 DEF Library, Leaving
<1> QED
  BY <1>1, ShapeInit, ShapeStep, PTL DEF Spec, FailureSurfaces

--------------------------------------------------------------------------------
(* What the stream holds of an operation, when nobody settles another's. *)

Settled(op) == state[op] \in {"finalised", "failed"}

\* A live operation has its intent acknowledged, and an effect belongs to a live one.
Accountable == \A op \in Ops :
    /\ Live(op) => Entry(op, "intent") \in acked
    /\ effect[op] => Live(op)

AckedIsInTrail == \A r \in acked : \E k \in 1..Len(trail) : trail[k] = r

\* An outcome in the stream is of a settled operation, and behind its intent.
OutcomesSettle == \A k \in 1..Len(trail) : trail[k].what \in Outcomes =>
    /\ Settled(trail[k].op)
    /\ \E j \in 1..(k - 1) : trail[j] = Entry(trail[k].op, "intent")

\* The state is what became of the one outcome append.
StateTells == \A op \in Ops :
    /\ state[op] = "finalised" <=> \E outcome \in Outcomes : Entry(op, outcome) \in acked
    /\ state[op] = "failed" <=> stored[op] # "none"

LeftTells == \A op \in Ops :
    /\ left[op] \in {"clean", "body"} => state[op] = "finalised"
    /\ left[op] \in {"stored", "dual"} => state[op] = "failed"

Ledger ==
    /\ Shape /\ Handles
    /\ Accountable /\ AckedIsInTrail /\ OutcomesSettle /\ StateTells /\ LeftTells
    /\ AtMostOneOutcome /\ OutcomesTruthful

LEMMA LedgerInit == Init => Ledger
<1> SUFFICES ASSUME Init PROVE Ledger
  OBVIOUS
<1>1. Shape
  BY ShapeInit
<1>2. Handles
  BY DEF Init, Handles, CallOwned
<1>3. Accountable /\ StateTells /\ LeftTells
  BY DEF Init, Accountable, Live, StateTells, LeftTells
<1>4. AckedIsInTrail /\ OutcomesSettle /\ AtMostOneOutcome /\ OutcomesTruthful
  BY DEF Init, AckedIsInTrail, OutcomesSettle, AtMostOneOutcome, OutcomesTruthful
<1> QED
  BY <1>1, <1>2, <1>3, <1>4 DEF Ledger

\* A step that touches neither the stream nor an operation keeps the ledger, as far as
\* the ways its blocks end agree with the states.
LEMMA QuietLedger ==
  ASSUME Ledger, UNCHANGED <<state, stored, owner, trail, acked, effect>>,
         Shape', Handles', LeftTells'
  PROVE  Ledger'
<1>1. Accountable' /\ AckedIsInTrail' /\ OutcomesSettle' /\ StateTells'
  BY DEF Ledger, Accountable, Live, AckedIsInTrail, OutcomesSettle, Settled, StateTells
<1>2. AtMostOneOutcome' /\ OutcomesTruthful'
  BY DEF Ledger, AtMostOneOutcome, OutcomesTruthful
<1> QED
  BY <1>1, <1>2 DEF Ledger

\* Blocks that only shrink, and calls that only end, keep what Handles says.
LEMMA FewerHandles ==
  ASSUME Shape, Handles, NEW w \in Workers,
         UNCHANGED <<state, owner, effect>>,
         call'[w] = call[w] \/ call'[w] = NoCall,
         \A u \in Workers \ {w} : call'[u] = call[u] /\ blocks'[u] = blocks[u],
         \A k \in 1..Len(blocks'[w]) : k \in 1..Len(blocks[w]) /\ blocks'[w][k] = blocks[w][k]
  PROVE  Handles'
<1>1. ASSUME NEW u \in Workers, NEW k \in 1..Len(blocks'[u]) PROVE BlockOwned(u, k)'
  <2>1. k \in 1..Len(blocks[u]) /\ blocks'[u][k] = blocks[u][k]
    BY <1>1
  <2>2. BlockOwned(u, k)
    BY <2>1 DEF Handles
  <2> QED
    BY <2>1, <2>2 DEF BlockOwned, Live
<1>2. ASSUME NEW u \in Workers PROVE CallOwned(u)'
  <2>1. CASE call'[u] = call[u]
    <3>1. CallOwned(u)
      BY DEF Handles
    <3> QED
      BY <2>1, <3>1 DEF CallOwned, Live, MayReport
  <2>2. CASE call'[u] = NoCall
    BY <2>2 DEF CallOwned
  <2> QED
    BY <2>1, <2>2
<1> QED
  BY <1>1, <1>2 DEF Handles

LEMMA BodyLedger ==
  ASSUME Ledger, NEW w \in Workers, RaiseForeign(w) \/ Catch(w)
  PROVE  Ledger'
<1>1. UNCHANGED <<state, stored, owner, trail, acked, effect, blocks, call, left>>
  BY DEF RaiseForeign, Catch
<1>2. Shape'
  BY RaiseForeignShape, CatchShape DEF Ledger
<1>3. Handles'
  BY <1>1, FewerHandles DEF Ledger
<1>4. LeftTells'
  BY <1>1 DEF Ledger, LeftTells
<1> QED
  BY <1>1, <1>2, <1>3, <1>4, QuietLedger

LEMMA MutateLedger ==
  ASSUME Ledger, NEW w \in Workers, NEW op \in Ops, Mutate(w, op)
  PROVE  Ledger'
<1>1. /\ UNCHANGED <<state, stored, owner, trail, acked, blocks, call, left>>
      /\ \A o \in Ops \ {op} : effect'[o] = effect[o]
      /\ state[op] = "open" /\ owner[op] = w /\ call[w] = NoCall
  BY DEF Mutate, Running, Ledger, Shape, TypeOK
<1>2. Shape'
  BY MutateShape DEF Ledger
<1>3. Handles'
  <2>1. ASSUME NEW u \in Workers, NEW k \in 1..Len(blocks[u]) PROVE BlockOwned(u, k)'
    <3>1. BlockOwned(u, k)
      BY DEF Ledger, Handles
    <3> QED
      BY <1>1, <3>1 DEF BlockOwned, Live
  <2>2. ASSUME NEW u \in Workers PROVE CallOwned(u)'
    <3>1. CASE call[u] = NoCall
      BY <1>1, <3>1 DEF CallOwned
    <3>2. CASE call[u] # NoCall
      <4>1. CallOwned(u) /\ call[u].op \in Ops
        BY <3>2, CallShape DEF Ledger, Handles, Shape
      <4>2. call[u].op # op
        BY <1>1, <3>2, <4>1 DEF CallOwned
      <4> QED
        BY <1>1, <3>2, <4>1, <4>2 DEF CallOwned, Live, MayReport
    <3> QED
      BY <3>1, <3>2
  <2> QED
    BY <1>1, <2>1, <2>2 DEF Handles
<1>4. Accountable'
  BY <1>1 DEF Ledger, Accountable, Live
<1>5. AckedIsInTrail' /\ OutcomesSettle' /\ StateTells' /\ LeftTells' /\ AtMostOneOutcome'
  BY <1>1 DEF Ledger, AckedIsInTrail, OutcomesSettle, Settled, StateTells, LeftTells, AtMostOneOutcome
<1>6. OutcomesTruthful'
  <2> SUFFICES ASSUME NEW k \in 1..Len(trail)
               PROVE  /\ trail[k].what = "success" => effect'[trail[k].op]
                      /\ trail[k].what = "failure" => ~effect'[trail[k].op]
    BY <1>1 DEF OutcomesTruthful
  <2>1. CASE trail[k].what \in Outcomes
    <3>1. trail[k].op \in Ops
      <4>1. trail \in Seq(Records)
        BY DEF Ledger, Shape, TypeOK
      <4>2. trail[k] \in Records
        BY <4>1
      <4> QED
        BY <4>2 DEF Records
    <3>2. trail[k].op # op
      BY <1>1, <2>1 DEF Ledger, OutcomesSettle, Settled
    <3> QED
      BY <1>1, <3>1, <3>2 DEF Ledger, OutcomesTruthful
  <2>2. CASE trail[k].what \notin Outcomes
    BY <2>2 DEF Outcomes
  <2> QED
    BY <2>1, <2>2
<1> QED
  BY <1>2, <1>3, <1>4, <1>5, <1>6 DEF Ledger

\* The stream after an append, place by place, and what it says of acknowledged records.
LEMMA DeliverTrail ==
  ASSUME TypeOK, AckedIsInTrail, NEW r \in Records, NEW a \in Appends, Deliver(r, a)
  PROVE  /\ Len(trail) \in Nat
         /\ \A k \in 1..Len(trail') :
               \/ k \in 1..Len(trail) /\ trail'[k] = trail[k]
               \/ k = Len(trail) + 1 /\ trail'[k] = r
         /\ \A k \in 1..Len(trail) : k \in 1..Len(trail') /\ trail'[k] = trail[k]
         /\ \A k \in 1..Len(trail) : trail[k] \in Records
         /\ acked' = IF a.ending = "ok" THEN acked \cup {r} ELSE acked
         /\ AckedIsInTrail'
<1>1. trail \in Seq(Records) /\ Len(trail) \in Nat
  BY DEF TypeOK
<1>2. /\ \/ trail' = trail /\ a.ending # "ok"
         \/ /\ Len(trail') = Len(trail) + 1
            /\ trail'[Len(trail) + 1] = r
      /\ \A k \in 1..Len(trail) : trail'[k] = trail[k]
      /\ acked' = IF a.ending = "ok" THEN acked \cup {r} ELSE acked
  BY DeliverShape
<1>3. \A k \in 1..Len(trail) : trail[k] \in Records
  BY <1>1
<1>4. AckedIsInTrail'
  BY <1>1, <1>2 DEF AckedIsInTrail
<1> QED
  BY <1>1, <1>2, <1>3, <1>4

LEMMA CallOutcomeLedger ==
  ASSUME Helpers = {}, Ledger, NEW w \in Workers, NEW op \in Ops, NEW outcome \in Outcomes,
         CallOutcome(w, op, outcome)
  PROVE  Ledger'
<1> DEFINE c == [at |-> "check", op |-> op, outcome |-> outcome, automatic |-> FALSE]
<1>1. /\ UNCHANGED <<state, stored, owner, trail, acked, effect, blocks, left>>
      /\ owner[op] = w /\ Live(op) /\ MayReport(op, outcome)
      /\ call' = [call EXCEPT ![w] = c]
  BY DEF CallOutcome, Live
<1>2. c.op = op /\ c.outcome = outcome /\ c.at # "append" /\ ~c.automatic
  OBVIOUS
<1> HIDE DEF c
<1>3. call'[w] = c /\ \A u \in Workers \ {w} : call'[u] = call[u]
  BY <1>1 DEF Ledger, Shape, TypeOK
<1>4. Shape'
  BY CallOutcomeShape DEF Ledger
<1>5. Handles'
  <2>1. ASSUME NEW u \in Workers, NEW k \in 1..Len(blocks[u]) PROVE BlockOwned(u, k)'
    <3>1. BlockOwned(u, k)
      BY DEF Ledger, Handles
    <3> QED
      BY <1>1, <3>1 DEF BlockOwned, Live
  <2>2. CallOwned(w)'
    BY <1>1, <1>2, <1>3 DEF CallOwned, Live, MayReport
  <2>3. ASSUME NEW u \in Workers \ {w} PROVE CallOwned(u)'
    <3>1. CallOwned(u)
      BY DEF Ledger, Handles
    <3> QED
      BY <1>1, <1>3, <3>1 DEF CallOwned, Live, MayReport
  <2> QED
    BY <1>1, <2>1, <2>2, <2>3 DEF Handles
<1>6. LeftTells'
  BY <1>1 DEF Ledger, LeftTells
<1> QED
  BY <1>1, <1>4, <1>5, <1>6, QuietLedger

LEMMA ExitEscapedLedger ==
  ASSUME Ledger, NEW w \in Workers, ExitEscaped(w)
  PROVE  Ledger'
<1> DEFINE c == [at |-> "check", op |-> Innermost(w), outcome |-> "indeterminate",
                 automatic |-> TRUE]
<1>1. /\ UNCHANGED <<state, stored, owner, trail, acked, effect, blocks, left>>
      /\ blocks[w] # <<>> /\ state[Innermost(w)] = "open"
      /\ call' = [call EXCEPT ![w] = c]
  BY DEF ExitEscaped, AtExit
<1>2. owner[Innermost(w)] = w
  <2>1. Len(blocks[w]) \in 1..Len(blocks[w]) /\ Innermost(w) = blocks[w][Len(blocks[w])]
    BY <1>1, InnermostType DEF Ledger, Shape
  <2>2. BlockOwned(w, Len(blocks[w]))
    BY <2>1 DEF Ledger, Handles
  <2> QED
    BY <2>1, <2>2 DEF BlockOwned
<1>3. c.op = Innermost(w) /\ c.outcome = "indeterminate"
  OBVIOUS
<1> HIDE DEF c
<1>4. call'[w] = c /\ \A u \in Workers \ {w} : call'[u] = call[u]
  BY <1>1 DEF Ledger, Shape, TypeOK
<1>5. Shape'
  BY ExitEscapedShape DEF Ledger
<1>6. Handles'
  <2>1. ASSUME NEW u \in Workers, NEW k \in 1..Len(blocks[u]) PROVE BlockOwned(u, k)'
    <3>1. BlockOwned(u, k)
      BY DEF Ledger, Handles
    <3> QED
      BY <1>1, <3>1 DEF BlockOwned, Live
  <2>2. CallOwned(w)'
    BY <1>1, <1>2, <1>3, <1>4 DEF CallOwned, Live, MayReport
  <2>3. ASSUME NEW u \in Workers \ {w} PROVE CallOwned(u)'
    <3>1. CallOwned(u)
      BY DEF Ledger, Handles
    <3> QED
      BY <1>1, <1>4, <3>1 DEF CallOwned, Live, MayReport
  <2> QED
    BY <1>1, <2>1, <2>2, <2>3 DEF Handles
<1>7. LeftTells'
  BY <1>1 DEF Ledger, LeftTells
<1> QED
  BY <1>1, <1>5, <1>6, <1>7, QuietLedger

LEMMA LeavingLedger ==
  ASSUME Ledger, NEW w \in Workers, Leaving(w)
  PROVE  Ledger'
<1>1. /\ Shape'
      /\ UNCHANGED <<state, stored, owner, trail, acked, effect, call>>
      /\ \A k \in 1..Len(blocks'[w]) : k \in 1..Len(blocks[w]) /\ blocks'[w][k] = blocks[w][k]
      /\ \A u \in Workers \ {w} : blocks'[u] = blocks[u]
      /\ \A o \in Ops : left'[o] # left[o] =>
            \/ state[o] = "finalised" /\ left'[o] \in {"clean", "body"}
            \/ state[o] = "failed" /\ left'[o] \in {"stored", "dual"}
            \/ state[o] = "open" /\ left'[o] = "usage"
  BY LeavingShape DEF Ledger
<1>2. Handles'
  BY <1>1, FewerHandles DEF Ledger
<1>3. LeftTells'
  BY <1>1 DEF Ledger, LeftTells
<1> QED
  BY <1>1, <1>2, <1>3, QuietLedger

\* A call that reaches a settled operation is one of the application, and only fails.
LEMMA CheckLedger ==
  ASSUME Ledger, NEW w \in Workers, CheckState(w)
  PROVE  Ledger'
<1>1. /\ UNCHANGED <<state, stored, owner, trail, acked, effect>>
      /\ call[w] # NoCall
  BY DEF CheckState, NoCall
<1>2. Shape'
  BY CheckShape DEF Ledger
<1>3. CallOwned(w) /\ call[w] \in OutcomeCalls /\ call[w].op \in Ops
  BY <1>1, CallShape DEF Ledger, Handles, Shape
<1>4. CASE state[call[w].op] = "open"
  <2>1. UNCHANGED <<blocks, left>> /\ call' = [call EXCEPT ![w].at = "append"]
    BY <1>4 DEF CheckState
  <2>2. /\ [call[w] EXCEPT !.at = "append"].op = call[w].op
        /\ [call[w] EXCEPT !.at = "append"].outcome = call[w].outcome
    BY <1>3 DEF OutcomeCalls
  <2>3. call'[w] = [call[w] EXCEPT !.at = "append"] /\ \A u \in Workers \ {w} : call'[u] = call[u]
    BY <2>1 DEF Ledger, Shape, TypeOK
  <2>4. ASSUME NEW u \in Workers, NEW k \in 1..Len(blocks[u]) PROVE BlockOwned(u, k)'
    <3>1. BlockOwned(u, k)
      BY DEF Ledger, Handles
    <3> QED
      BY <1>1, <2>1, <3>1 DEF BlockOwned, Live
  <2>5. CallOwned(w)'
    BY <1>1, <1>3, <1>4, <2>2, <2>3 DEF CallOwned, Live, MayReport
  <2>6. ASSUME NEW u \in Workers \ {w} PROVE CallOwned(u)'
    <3>1. CallOwned(u)
      BY DEF Ledger, Handles
    <3> QED
      BY <1>1, <2>3, <3>1 DEF CallOwned, Live, MayReport
  <2>7. Handles'
    BY <2>1, <2>4, <2>5, <2>6 DEF Handles
  <2>8. LeftTells'
    BY <1>1, <2>1 DEF Ledger, LeftTells
  <2> QED
    BY <1>1, <1>2, <2>7, <2>8, QuietLedger
<1>5. CASE state[call[w].op] # "open"
  <2>1. ~call[w].automatic
    BY <1>1, <1>3, <1>5 DEF CallOwned
  <2>2. FailCall(w, Usage, FALSE)
    BY <1>5 DEF CheckState
  <2>3. UNCHANGED <<blocks, left>> /\ call' = [call EXCEPT ![w] = NoCall]
    BY <2>1, <2>2 DEF FailCall
  <2>4. call'[w] = NoCall /\ \A u \in Workers \ {w} : call'[u] = call[u]
    BY <2>3 DEF Ledger, Shape, TypeOK
  <2>5. Handles'
    BY <1>1, <2>3, <2>4, FewerHandles DEF Ledger
  <2>6. LeftTells'
    BY <1>1, <2>3 DEF Ledger, LeftTells
  <2> QED
    BY <1>1, <1>2, <2>5, <2>6, QuietLedger
<1> QED
  BY <1>4, <1>5

\* What beginning an operation writes, and the handle it may give.
LEMMA BeginEffect ==
  ASSUME Ledger, NEW w \in Workers, NEW op \in Ops, NEW form \in Forms, NEW a \in Appends,
         Begin(w, op, form, a)
  PROVE  /\ UNCHANGED <<stored, effect, call, left>>
         /\ call[w] = NoCall /\ state[op] = "unused"
         /\ owner'[op] = w /\ \A o \in Ops \ {op} : owner'[o] = owner[o] /\ state'[o] = state[o]
         /\ \/ state'[op] = "rejected" /\ blocks' = blocks
            \/ state'[op] = "open" /\ Entry(op, "intent") \in acked'
         /\ acked \subseteq acked' /\ acked' \subseteq acked \cup {Entry(op, "intent")}
         /\ Len(trail) \in Nat
         /\ \A k \in 1..Len(trail') :
               \/ k \in 1..Len(trail) /\ trail'[k] = trail[k]
               \/ k = Len(trail) + 1 /\ trail'[k] = Entry(op, "intent")
         /\ \A k \in 1..Len(trail) : k \in 1..Len(trail') /\ trail'[k] = trail[k]
         /\ \A k \in 1..Len(trail) : trail[k] \in Records
         /\ AckedIsInTrail'
<1>1. /\ UNCHANGED <<stored, effect, call, left>>
      /\ call[w] = NoCall /\ state[op] = "unused"
      /\ owner'[op] = w /\ \A o \in Ops \ {op} : owner'[o] = owner[o] /\ state'[o] = state[o]
  BY DEF Begin, Running, Ledger, Shape, TypeOK
<1>2. TypeOK /\ AckedIsInTrail
  BY DEF Ledger, Shape
<1>3. CASE Vetoes(op, form)
  <2>1. state'[op] = "rejected" /\ UNCHANGED <<trail, acked, blocks>>
    BY <1>2, <1>3 DEF Begin, TypeOK
  <2>2. trail \in Seq(Records)
    BY <1>2 DEF TypeOK
  <2>3. Len(trail) \in Nat /\ \A k \in 1..Len(trail) : trail[k] \in Records
    BY <2>2
  <2> QED
    BY <1>1, <1>2, <2>1, <2>3 DEF AckedIsInTrail
<1>4. CASE ~Vetoes(op, form)
  <2>1. Entry(op, "intent") \in Records /\ Deliver(Entry(op, "intent"), a)
    BY <1>4 DEF Begin, Entry, Records
  <2>2. \/ state'[op] = "rejected" /\ blocks' = blocks
        \/ state'[op] = "open" /\ a.ending = "ok"
    BY <1>2, <1>4 DEF Begin, HandleAfter, TypeOK
  <2> QED
    BY <1>1, <1>2, <2>1, <2>2, DeliverTrail
<1> QED
  BY <1>3, <1>4

LEMMA BeginHandles ==
  ASSUME Ledger, NEW w \in Workers, NEW op \in Ops, NEW form \in Forms, NEW a \in Appends,
         Begin(w, op, form, a)
  PROVE  Handles'
<1>1. /\ UNCHANGED <<effect, call>>
      /\ call[w] = NoCall /\ state[op] = "unused"
      /\ owner'[op] = w /\ \A o \in Ops \ {op} : owner'[o] = owner[o] /\ state'[o] = state[o]
      /\ \/ state'[op] = "rejected" /\ blocks' = blocks
         \/ state'[op] = "open"
  BY BeginEffect
<1>2. blocks \in [Workers -> Seq(Ops)]
  BY DEF Ledger, Shape, TypeOK
<1>3. ASSUME NEW u \in Workers, NEW k \in 1..Len(blocks[u])
      PROVE  /\ blocks[u][k] \in Ops \ {op}
             /\ owner'[blocks[u][k]] = u /\ state'[blocks[u][k]] \in {"open", "finalised", "failed"}
  <2>1. BlockOwned(u, k)
    BY DEF Ledger, Handles
  <2>2. blocks[u] \in Seq(Ops)
    BY <1>2
  <2>3. blocks[u][k] \in Ops
    BY <2>2
  <2> QED
    BY <1>1, <2>1, <2>3 DEF BlockOwned, Live
<1>4. ASSUME NEW u \in Workers, NEW k \in 1..Len(blocks'[u]) PROVE BlockOwned(u, k)'
  <2>1. CASE k \in 1..Len(blocks[u]) /\ blocks'[u][k] = blocks[u][k]
    BY <1>3, <2>1 DEF BlockOwned, Live
  <2>2. CASE ~(k \in 1..Len(blocks[u]) /\ blocks'[u][k] = blocks[u][k])
    <3>1. blocks' # blocks /\ state'[op] = "open"
      BY <1>1, <2>2
    <3>2. blocks' = [blocks EXCEPT ![w] = Append(@, op)]
      BY <3>1 DEF Begin
    <3>3. blocks[w] \in Seq(Ops)
      BY <1>2
    <3>4. /\ Len(Append(blocks[w], op)) = Len(blocks[w]) + 1 /\ Len(blocks[w]) \in Nat
          /\ Append(blocks[w], op)[Len(blocks[w]) + 1] = op
          /\ \A j \in 1..Len(blocks[w]) : Append(blocks[w], op)[j] = blocks[w][j]
      BY <3>3
    <3>5. u = w /\ k = Len(blocks[w]) + 1 /\ blocks'[u][k] = op
      BY <1>2, <2>2, <3>2, <3>4
    <3> QED
      BY <1>1, <3>1, <3>5 DEF BlockOwned, Live
  <2> QED
    BY <2>1, <2>2
<1>5. ASSUME NEW u \in Workers PROVE CallOwned(u)'
  <2>1. CASE call[u] = NoCall
    BY <1>1, <2>1 DEF CallOwned
  <2>2. CASE call[u] # NoCall
    <3>1. CallOwned(u) /\ call[u].op \in Ops
      BY <2>2, CallShape DEF Ledger, Handles, Shape
    <3>2. call[u].op # op
      BY <1>1, <2>2, <3>1 DEF CallOwned, Live
    <3> QED
      BY <1>1, <2>2, <3>1, <3>2 DEF CallOwned, Live, MayReport
  <2> QED
    BY <2>1, <2>2
<1> QED
  BY <1>4, <1>5 DEF Handles

LEMMA BeginLedger ==
  ASSUME Ledger, NEW w \in Workers, NEW op \in Ops, NEW form \in Forms, NEW a \in Appends,
         Begin(w, op, form, a)
  PROVE  Ledger'
<1>1. /\ UNCHANGED <<stored, effect, call, left>>
      /\ call[w] = NoCall /\ state[op] = "unused"
      /\ owner'[op] = w /\ \A o \in Ops \ {op} : owner'[o] = owner[o] /\ state'[o] = state[o]
      /\ \/ state'[op] = "rejected" /\ blocks' = blocks
         \/ state'[op] = "open" /\ Entry(op, "intent") \in acked'
      /\ acked \subseteq acked' /\ acked' \subseteq acked \cup {Entry(op, "intent")}
      /\ Len(trail) \in Nat
      /\ \A k \in 1..Len(trail') :
            \/ k \in 1..Len(trail) /\ trail'[k] = trail[k]
            \/ k = Len(trail) + 1 /\ trail'[k] = Entry(op, "intent")
      /\ \A k \in 1..Len(trail) : k \in 1..Len(trail') /\ trail'[k] = trail[k]
      /\ \A k \in 1..Len(trail) : trail[k] \in Records
      /\ AckedIsInTrail'
  BY BeginEffect
<1>2. Shape' /\ Handles'
  BY BeginShape, BeginHandles DEF Ledger
<1>3. Entry(op, "intent").op = op /\ Entry(op, "intent").what \notin Outcomes
  BY DEF Entry, Outcomes
<1>4. Accountable'
  BY <1>1 DEF Ledger, Accountable, Live
<1>5. \A k \in 1..Len(trail') : trail'[k].what \in Outcomes =>
         k \in 1..Len(trail) /\ trail'[k] = trail[k]
  BY <1>1, <1>3
<1>6. OutcomesSettle'
  <2> SUFFICES ASSUME NEW k \in 1..Len(trail'), trail'[k].what \in Outcomes
               PROVE  /\ Settled(trail[k].op)'
                      /\ \E j \in 1..(k - 1) : trail'[j] = Entry(trail'[k].op, "intent")
    BY <1>5 DEF OutcomesSettle, Settled
  <2>1. k \in 1..Len(trail) /\ trail'[k] = trail[k]
    BY <1>5
  <2>2. /\ Settled(trail[k].op)
        /\ \E j \in 1..(k - 1) : trail[j] = Entry(trail[k].op, "intent")
    BY <2>1 DEF Ledger, OutcomesSettle
  <2>3. trail[k].op \in Ops
    BY <1>1, <2>1 DEF Records
  <2> QED
    BY <1>1, <2>1, <2>2, <2>3 DEF Settled
<1>7. StateTells'
  <2>1. \A o \in Ops, outcome \in Outcomes : Entry(o, outcome) # Entry(op, "intent")
    BY DEF Entry, Outcomes
  <2> QED
    BY <1>1, <2>1 DEF Ledger, StateTells
<1>8. LeftTells'
  BY <1>1 DEF Ledger, LeftTells
<1>9. AtMostOneOutcome'
  BY <1>5 DEF Ledger, AtMostOneOutcome, IsOutcome
<1>10. OutcomesTruthful'
  BY <1>1, <1>5 DEF Ledger, OutcomesTruthful, Outcomes
<1> QED
  BY <1>1, <1>2, <1>4, <1>6, <1>7, <1>8, <1>9, <1>10 DEF Ledger

\* What an outcome append does to the operation it is about, and to the stream.
LEMMA AppendEffect ==
  ASSUME Ledger, NEW w \in Workers, NEW a \in Appends, AppendOutcome(w, a)
  PROVE  LET op == call[w].op
             r == Entry(call[w].op, call[w].outcome)
         IN  /\ op \in Ops /\ r.op = op /\ r.what = call[w].outcome
             /\ call[w].outcome \in Outcomes /\ MayReport(op, call[w].outcome)
             /\ UNCHANGED <<owner, effect>>
             /\ owner[op] = w /\ state[op] = "open"
             /\ state'[op] = StateAfter(a)
             /\ stored'[op] = IF a.ending = "ok" THEN stored[op] ELSE a.ending
             /\ \A o \in Ops \ {op} : state'[o] = state[o] /\ stored'[o] = stored[o]
             /\ Len(trail) \in Nat
             /\ \A k \in 1..Len(trail') :
                   \/ k \in 1..Len(trail) /\ trail'[k] = trail[k]
                   \/ k = Len(trail) + 1 /\ trail'[k] = r
             /\ \A k \in 1..Len(trail) : k \in 1..Len(trail') /\ trail'[k] = trail[k]
             /\ \A k \in 1..Len(trail) : trail[k] \in Records
             /\ acked' = IF a.ending = "ok" THEN acked \cup {r} ELSE acked
             /\ AckedIsInTrail'
<1> DEFINE op == call[w].op
           r == Entry(call[w].op, call[w].outcome)
<1>1. call[w] # NoCall
  BY DEF AppendOutcome, NoCall
<1>2. op \in Ops /\ call[w].outcome \in Outcomes /\ r \in Records
  BY <1>1, CallShape DEF Ledger, Shape
<1>3. CallOwned(w) /\ call[w].at = "append"
  BY DEF AppendOutcome, Ledger, Handles
<1>4. owner[op] = w /\ state[op] = "open" /\ MayReport(op, call[w].outcome)
  BY <1>1, <1>3 DEF CallOwned
<1>5. r.op = op /\ r.what = call[w].outcome
  BY DEF Entry
<1>6. TypeOK /\ AckedIsInTrail /\ Deliver(r, a)
  BY DEF Ledger, Shape, AppendOutcome
<1>7. UNCHANGED <<owner, effect>>
  BY DEF AppendOutcome
<1>8. state'[op] = StateAfter(a) /\ \A o \in Ops \ {op} : state'[o] = state[o]
  BY <1>2, <1>6 DEF AppendOutcome, TypeOK
<1>9. /\ stored'[op] = IF a.ending = "ok" THEN stored[op] ELSE a.ending
      /\ \A o \in Ops \ {op} : stored'[o] = stored[o]
  BY <1>2, <1>6 DEF AppendOutcome, TypeOK
<1> HIDE DEF op, r
<1>10. /\ Len(trail) \in Nat
       /\ \A k \in 1..Len(trail') :
             \/ k \in 1..Len(trail) /\ trail'[k] = trail[k]
             \/ k = Len(trail) + 1 /\ trail'[k] = r
       /\ \A k \in 1..Len(trail) : k \in 1..Len(trail') /\ trail'[k] = trail[k]
       /\ \A k \in 1..Len(trail) : trail[k] \in Records
       /\ acked' = IF a.ending = "ok" THEN acked \cup {r} ELSE acked
       /\ AckedIsInTrail'
  BY <1>2, <1>6, DeliverTrail
<1>11. call[w].outcome \in Outcomes /\ op \in Ops
  BY <1>2
<1> QED
  BY <1>4, <1>5, <1>7, <1>8, <1>9, <1>10, <1>11 DEF op, r

LEMMA AppendHandles ==
  ASSUME Ledger, NEW w \in Workers, NEW a \in Appends, AppendOutcome(w, a)
  PROVE  Handles'
<1> DEFINE op == call[w].op
<1>1. /\ op \in Ops /\ UNCHANGED <<owner, effect>> /\ owner[op] = w /\ state'[op] = StateAfter(a)
      /\ \A o \in Ops \ {op} : state'[o] = state[o]
  BY AppendEffect
<1>2. /\ call' = [call EXCEPT ![w] = NoCall]
      /\ \A k \in 1..Len(blocks'[w]) : k \in 1..Len(blocks[w]) /\ blocks'[w][k] = blocks[w][k]
      /\ \A u \in Workers \ {w} : blocks'[u] = blocks[u]
  BY AppendShape DEF Ledger
<1>3. call'[w] = NoCall /\ \A u \in Workers \ {w} : call'[u] = call[u]
  BY <1>2 DEF Ledger, Shape, TypeOK
<1> HIDE DEF op
<1>4. ASSUME NEW u \in Workers, NEW k \in 1..Len(blocks'[u]) PROVE BlockOwned(u, k)'
  <2>1. k \in 1..Len(blocks[u]) /\ blocks'[u][k] = blocks[u][k]
    BY <1>2
  <2>2. BlockOwned(u, k)
    BY <2>1 DEF Ledger, Handles
  <2>3. blocks[u] \in Seq(Ops)
    BY DEF Ledger, Shape, TypeOK
  <2>4. blocks[u][k] \in Ops
    BY <2>1, <2>3
  <2> QED
    BY <1>1, <2>1, <2>2, <2>4 DEF BlockOwned, Live, StateAfter
<1>5. ASSUME NEW u \in Workers PROVE CallOwned(u)'
  <2>1. CASE call'[u] = NoCall
    BY <2>1 DEF CallOwned
  <2>2. CASE call'[u] # NoCall
    <3>1. u # w /\ call'[u] = call[u]
      BY <1>3, <2>2
    <3>2. CallOwned(u) /\ call[u].op \in Ops
      BY <2>2, <3>1, CallShape DEF Ledger, Handles, Shape
    <3>3. call[u].op # op
      BY <1>1, <2>2, <3>1, <3>2 DEF CallOwned
    <3> QED
      BY <1>1, <2>2, <3>1, <3>2, <3>3 DEF CallOwned, Live, MayReport
  <2> QED
    BY <2>1, <2>2
<1> QED
  BY <1>4, <1>5 DEF Handles

LEMMA AppendLedger ==
  ASSUME Ledger, NEW w \in Workers, NEW a \in Appends, AppendOutcome(w, a)
  PROVE  Ledger'
<1> DEFINE op == call[w].op
           r == Entry(call[w].op, call[w].outcome)
<1>1. /\ op \in Ops /\ r.op = op /\ r.what = call[w].outcome
      /\ call[w].outcome \in Outcomes /\ MayReport(op, call[w].outcome)
      /\ UNCHANGED <<owner, effect>>
      /\ owner[op] = w /\ state[op] = "open"
      /\ state'[op] = StateAfter(a)
      /\ stored'[op] = IF a.ending = "ok" THEN stored[op] ELSE a.ending
      /\ \A o \in Ops \ {op} : state'[o] = state[o] /\ stored'[o] = stored[o]
      /\ Len(trail) \in Nat
      /\ \A k \in 1..Len(trail') :
            \/ k \in 1..Len(trail) /\ trail'[k] = trail[k]
            \/ k = Len(trail) + 1 /\ trail'[k] = r
      /\ \A k \in 1..Len(trail) : k \in 1..Len(trail') /\ trail'[k] = trail[k]
      /\ \A k \in 1..Len(trail) : trail[k] \in Records
      /\ acked' = IF a.ending = "ok" THEN acked \cup {r} ELSE acked
      /\ AckedIsInTrail'
  BY AppendEffect
<1>2. Shape' /\ Handles'
  BY AppendShape, AppendHandles DEF Ledger
<1>3. \A o \in Ops : left'[o] # left[o] =>
         o = op /\ left'[o] \in IF a.ending = "ok" THEN {"body"} ELSE {"stored", "dual"}
  BY AppendShape DEF Ledger
<1>4. r = Entry(op, r.what)
  BY <1>1
<1>5. \A o \in Ops, what \in {"intent"} \cup Outcomes : Entry(o, what) = r => o = op /\ what = r.what
  BY DEF Entry
<1> HIDE DEF op, r
<1>6. state'[op] \in {"finalised", "failed"} /\ (state'[op] = "finalised" <=> a.ending = "ok")
  BY <1>1 DEF StateAfter
\* The operation was open: the stream held none of its outcomes.
<1>7. \A k \in 1..Len(trail) : trail[k].what \in Outcomes => trail[k].op \in Ops \ {op}
  BY <1>1 DEF Ledger, OutcomesSettle, Settled, Records
<1>8. Accountable'
  <2> SUFFICES ASSUME NEW o \in Ops
               PROVE  /\ Live(o)' => Entry(o, "intent") \in acked'
                      /\ effect'[o] => Live(o)'
    BY DEF Accountable
  <2>1. Live(o)' <=> Live(o)
    BY <1>1, <1>6 DEF Live
  <2> QED
    BY <1>1, <2>1 DEF Ledger, Accountable
<1>9. OutcomesSettle'
  <2> SUFFICES ASSUME NEW k \in 1..Len(trail'), trail'[k].what \in Outcomes
               PROVE  /\ Settled(trail[k].op)'
                      /\ \E j \in 1..(k - 1) : trail'[j] = Entry(trail'[k].op, "intent")
    BY DEF OutcomesSettle, Settled
  <2>1. CASE k \in 1..Len(trail) /\ trail'[k] = trail[k]
    <3>1. /\ Settled(trail[k].op)
          /\ \E j \in 1..(k - 1) : trail[j] = Entry(trail[k].op, "intent")
      BY <2>1 DEF Ledger, OutcomesSettle
    <3> QED
      BY <1>1, <1>7, <2>1, <3>1 DEF Settled
  <2>2. CASE k = Len(trail) + 1 /\ trail'[k] = r
    <3>1. Entry(op, "intent") \in acked
      BY <1>1 DEF Ledger, Accountable, Live
    <3>2. \E j \in 1..Len(trail) : trail[j] = Entry(op, "intent")
      BY <3>1 DEF Ledger, AckedIsInTrail
    <3> QED
      BY <1>1, <1>6, <2>2, <3>2 DEF Settled
  <2> QED
    BY <1>1, <2>1, <2>2
<1>10. StateTells'
  <2>1. ASSUME NEW o \in Ops \ {op}
        PROVE  /\ state'[o] = "finalised" <=> \E outcome \in Outcomes : Entry(o, outcome) \in acked'
               /\ state'[o] = "failed" <=> stored'[o] # "none"
    <3>1. \A outcome \in Outcomes : Entry(o, outcome) \in acked' <=> Entry(o, outcome) \in acked
      BY <1>1, <1>5
    <3>2. state'[o] = state[o] /\ stored'[o] = stored[o]
      BY <1>1
    <3>3. /\ state[o] = "finalised" <=> \E outcome \in Outcomes : Entry(o, outcome) \in acked
          /\ state[o] = "failed" <=> stored[o] # "none"
      BY DEF Ledger, StateTells
    <3> QED
      BY <3>1, <3>2, <3>3
  <2>2. state'[op] = "finalised" <=> \E outcome \in Outcomes : Entry(op, outcome) \in acked'
    BY <1>1, <1>4, <1>6 DEF Ledger, StateTells
  <2>3. state'[op] = "failed" <=> stored'[op] # "none"
    <3>1. stored[op] = "none"
      BY <1>1 DEF Ledger, StateTells
    <3>2. a.ending # "none"
      BY DEF Appends, Endings
    <3> QED
      BY <1>1, <1>6, <3>1, <3>2
  <2> QED
    BY <2>1, <2>2, <2>3 DEF StateTells
<1>11. LeftTells'
  <2> SUFFICES ASSUME NEW o \in Ops
               PROVE  /\ left'[o] \in {"clean", "body"} => state'[o] = "finalised"
                      /\ left'[o] \in {"stored", "dual"} => state'[o] = "failed"
    BY DEF LeftTells
  <2>1. CASE left'[o] = left[o]
    BY <1>1, <2>1 DEF Ledger, LeftTells
  <2>2. CASE left'[o] # left[o]
    BY <1>3, <1>6, <2>2
  <2> QED
    BY <2>1, <2>2
<1>12. AtMostOneOutcome'
  BY <1>1, <1>7 DEF Ledger, AtMostOneOutcome, IsOutcome
<1>13. OutcomesTruthful'
  BY <1>1 DEF Ledger, OutcomesTruthful, MayReport
<1> QED
  BY <1>1, <1>2, <1>8, <1>9, <1>10, <1>11, <1>12, <1>13 DEF Ledger

\* A crash leaves nobody a handle, and the stream is what it was as far as it goes.
LEMMA CrashLedger ==
  ASSUME Ledger, Crash
  PROVE  Ledger'
<1>1. UNCHANGED <<state, stored, acked, effect, left>>
  BY DEF Crash
<1>2. /\ \A k \in 1..Len(trail') : k \in 1..Len(trail) /\ trail'[k] = trail[k]
      /\ \A r \in acked : \E k \in 1..Len(trail') : trail'[k] = r
      /\ trail' \in Seq(Records)
  BY CrashTrail DEF Ledger, Shape
<1>3. Shape'
  BY CrashShape DEF Ledger
<1>4. Handles'
  <2>1. \A w \in Workers : blocks'[w] = <<>> /\ call'[w] = NoCall
    BY DEF Crash
  <2> QED
    BY <2>1 DEF Handles, CallOwned
<1>5. Accountable' /\ AckedIsInTrail' /\ StateTells' /\ LeftTells'
  BY <1>1, <1>2 DEF Ledger, Accountable, Live, AckedIsInTrail, StateTells, LeftTells
<1>6. OutcomesSettle'
  <2> SUFFICES ASSUME NEW k \in 1..Len(trail'), trail'[k].what \in Outcomes
               PROVE  /\ Settled(trail[k].op)'
                      /\ \E j \in 1..(k - 1) : trail'[j] = Entry(trail'[k].op, "intent")
    BY DEF OutcomesSettle, Settled
  <2>1. k \in 1..Len(trail) /\ trail'[k] = trail[k] /\ Len(trail') \in Nat
    BY <1>2
  <2>2. PICK j \in 1..(k - 1) : trail[j] = Entry(trail[k].op, "intent")
    BY <2>1 DEF Ledger, OutcomesSettle
  <2>3. j \in 1..Len(trail')
    BY <2>1
  <2>4. trail'[j] = trail[j]
    BY <1>2, <2>3
  <2>5. Settled(trail[k].op)
    BY <2>1 DEF Ledger, OutcomesSettle
  <2> QED
    BY <1>1, <2>1, <2>2, <2>4, <2>5 DEF Settled
<1>7. AtMostOneOutcome'
  <2> SUFFICES ASSUME NEW op \in Ops, NEW j \in 1..Len(trail'), NEW k \in 1..Len(trail'),
                      IsOutcome(trail'[j], op), IsOutcome(trail'[k], op)
               PROVE  j = k
    BY DEF AtMostOneOutcome, IsOutcome
  <2>1. /\ j \in 1..Len(trail) /\ trail'[j] = trail[j]
        /\ k \in 1..Len(trail) /\ trail'[k] = trail[k]
    BY <1>2
  <2> QED
    BY <2>1 DEF Ledger, AtMostOneOutcome
<1>8. OutcomesTruthful'
  <2> SUFFICES ASSUME NEW k \in 1..Len(trail')
               PROVE  /\ trail'[k].what = "success" => effect[trail'[k].op]
                      /\ trail'[k].what = "failure" => ~effect[trail'[k].op]
    BY <1>1 DEF OutcomesTruthful
  <2>1. k \in 1..Len(trail) /\ trail'[k] = trail[k]
    BY <1>2
  <2> QED
    BY <2>1 DEF Ledger, OutcomesTruthful
<1> QED
  BY <1>3, <1>4, <1>5, <1>6, <1>7, <1>8 DEF Ledger

LEMMA LedgerStep ==
  ASSUME Helpers = {}
  PROVE  Ledger /\ [Next]_vars => Ledger'
<1> SUFFICES ASSUME Ledger, [Next]_vars PROVE Ledger'
  OBVIOUS
<1>1. CASE UNCHANGED vars
  <2>1. UNCHANGED <<state, stored, owner, trail, acked, effect, blocks, call, left>>
    BY <1>1 DEF vars
  <2>2. Shape'
    BY ShapeStep DEF Ledger
  <2>3. Handles' /\ LeftTells'
    BY <2>1 DEF Ledger, Handles, BlockOwned, CallOwned, Live, MayReport, LeftTells
  <2> QED
    BY <2>1, <2>2, <2>3, QuietLedger
<1>2. CASE \E w \in Workers : Body(w) \/ Library(w)
  <2>1. PICK w \in Workers : Body(w) \/ Library(w)
    BY <1>2
  <2>2. CASE Body(w)
    BY <2>2, BodyLedger, MutateLedger, BeginLedger, CallOutcomeLedger DEF Body
  <2>3. CASE Library(w)
    BY <2>3, CheckLedger, AppendLedger, LeavingLedger, ExitEscapedLedger DEF Library, Leaving
  <2> QED
    BY <2>1, <2>2, <2>3
<1> QED
  BY <1>1, <1>2, CrashLedger DEF Next

--------------------------------------------------------------------------------
(* What the audit path promises, when every worker keeps to its own operations. *)

\* At most one outcome of an operation is ever in the stream, whatever appends that
\* raised have left there: _finalise attempts one append (audit.py:307-349).
THEOREM OneOutcome ==
  ASSUME Helpers = {}
  PROVE  Spec => []AtMostOneOutcome
<1>1. Ledger => AtMostOneOutcome
  BY DEF Ledger
<1> QED
  BY <1>1, LedgerInit, LedgerStep, PTL DEF Spec

\* An effect, and an outcome in the stream, have a durable intent behind them: no handle
\* exists before the append of the intent has returned (audit.py:121-154).
THEOREM IntentComesFirst ==
  ASSUME Helpers = {}
  PROVE  Spec => []NothingWithoutDurableIntent
<1>1. Ledger => NothingWithoutDurableIntent
  <2> SUFFICES ASSUME Ledger PROVE NothingWithoutDurableIntent
    OBVIOUS
  <2>1. \A op \in Ops : effect[op] =>
           /\ Entry(op, "intent") \in acked
           /\ \E k \in 1..Len(trail) : trail[k] = Entry(op, "intent")
    BY DEF Ledger, Accountable, AckedIsInTrail
  <2>2. ASSUME NEW k \in 1..Len(trail), trail[k].what \in Outcomes
        PROVE  /\ Entry(trail[k].op, "intent") \in acked
               /\ \E j \in 1..(k - 1) : trail[j] = Entry(trail[k].op, "intent")
    <3>1. trail \in Seq(Records)
      BY DEF Ledger, Shape, TypeOK
    <3>2. trail[k] \in Records
      BY <3>1
    <3>3. trail[k].op \in Ops
      BY <3>2 DEF Records
    <3> QED
      BY <2>2, <3>3 DEF Ledger, OutcomesSettle, Settled, Accountable, Live
  <2> QED
    BY <2>1, <2>2 DEF NothingWithoutDurableIntent
<1> QED
  BY <1>1, LedgerInit, LedgerStep, PTL DEF Spec

\* The stream claims success only of an effect that happened and failure only of one that
\* did not: neither the library nor a later mutation belies what the application reported
\* (audit.py:295-349).
THEOREM TrailIsTruthful ==
  ASSUME Helpers = {}
  PROVE  Spec => []OutcomesTruthful
<1>1. Ledger => OutcomesTruthful
  BY DEF Ledger
<1> QED
  BY <1>1, LedgerInit, LedgerStep, PTL DEF Spec

\* A block that ends silently about the audit has an acknowledged outcome (__exit__,
\* audit.py:354-401).
THEOREM SilenceMeansRecorded ==
  ASSUME Helpers = {}
  PROVE  Spec => []SilentExitMeansRecorded
<1>1. Ledger => SilentExitMeansRecorded
  BY DEF Ledger, LeftTells, StateTells, AckedIsInTrail, SilentExitMeansRecorded
<1> QED
  BY <1>1, LedgerInit, LedgerStep, PTL DEF Spec

\* A block that reports a finalisation failure is of an operation that holds one, and no
\* outcome of it was acknowledged (__exit__, audit.py:354-401).
THEOREM FailureReportsAreReal ==
  ASSUME Helpers = {}
  PROVE  Spec => []ReportedFailureIsReal
<1>1. Ledger => ReportedFailureIsReal
  <2> SUFFICES ASSUME Ledger, NEW op \in Ops, left[op] \in {"stored", "dual"}
               PROVE  /\ state[op] = "failed"
                      /\ stored[op] # "none"
                      /\ \A outcome \in Outcomes : Entry(op, outcome) \notin acked
    BY DEF ReportedFailureIsReal
  <2>1. state[op] = "failed"
    BY DEF Ledger, LeftTells
  <2> QED
    BY <2>1 DEF Ledger, StateTells
<1> QED
  BY <1>1, LedgerInit, LedgerStep, PTL DEF Spec

\* A settled operation stays as it is and adds nothing to the stream (_finalise,
\* audit.py:307-313).
THEOREM SettledStaysSettled ==
  ASSUME Helpers = {}
  PROVE  Spec => SettledForGood
<1> DEFINE Stays == \A op \in Ops : state[op] \in {"finalised", "failed"} =>
      /\ state'[op] = state[op]
      /\ \A k \in (Len(trail) + 1)..Len(trail') : trail'[k].op # op
<1>1. Ledger /\ [Next]_vars => [Stays]_vars
  <2> SUFFICES ASSUME Ledger, Next PROVE Stays
    OBVIOUS
  <2>7. CASE Crash
    <3>1. trail \in Seq(Records) /\ trail' \in Seq(Records)
      BY <2>7, CrashTrail DEF Ledger, Shape, TypeOK
    <3>2. Len(trail) \in Nat /\ Len(trail') \in Nat
      BY <3>1
    <3>3. \A k \in 1..Len(trail') : k \in 1..Len(trail)
      BY <2>7, CrashTrail DEF Ledger, Shape
    <3> QED
      BY <2>7, <3>2, <3>3 DEF Crash
  <2> SUFFICES ASSUME NEW w \in Workers, Body(w) \/ Library(w) PROVE Stays
    BY <2>7 DEF Next
  <2>2. CASE UNCHANGED <<state, trail>>
    <3>1. trail \in Seq(Records)
      BY DEF Ledger, Shape, TypeOK
    <3>2. Len(trail) \in Nat
      BY <3>1
    <3> QED
      BY <2>2, <3>2
  <2>3. ASSUME NEW op \in Ops, NEW form \in Forms, NEW a \in Appends, Begin(w, op, form, a)
        PROVE  Stays
    <3>1. Entry(op, "intent").op = op
      BY DEF Entry
    <3>2. \A k \in (Len(trail) + 1)..Len(trail') : trail'[k].op = op
      BY <2>3, <3>1, BeginEffect
    <3>3. state[op] = "unused" /\ \A o \in Ops \ {op} : state'[o] = state[o]
      BY <2>3, BeginEffect
    <3> QED
      BY <3>2, <3>3
  <2>4. ASSUME NEW a \in Appends, AppendOutcome(w, a) PROVE Stays
    <3> DEFINE op == call[w].op
    <3>1. \A k \in (Len(trail) + 1)..Len(trail') : trail'[k].op = op
      BY <2>4, AppendEffect
    <3>2. state[op] = "open" /\ \A o \in Ops \ {op} : state'[o] = state[o]
      BY <2>4, AppendEffect
    <3> QED
      BY <3>1, <3>2
  <2>5. CASE Body(w)
    BY <2>2, <2>3, <2>5 DEF Body, RaiseForeign, Catch, Mutate, CallOutcome
  <2>6. CASE Library(w)
    BY <2>2, <2>4, <2>6
       DEF Library, CheckState, ExitFinalised, ExitFailed, ExitForgotten, ExitEscaped
  <2> QED
    BY <2>5, <2>6
<1> QED
  BY <1>1, LedgerInit, LedgerStep, PTL DEF Spec, SettledForGood
=============================================================================
