---------------------------- MODULE DurableLogProofs ----------------------------
(***************************************************************************)
(* What follows from the promise of DurableLog, for any records and files. *)
(* The places are numbers: the one assumption, stated by each theorem.     *)
(***************************************************************************)
EXTENDS DurableLog, TLAPS

PlacesAreNumbers == Offsets \subseteq Nat

Entries == [rec : Records, at : Nat]

\* An entry has a place, and what is secured is a piece of the file from its beginning.
LogTyped ==
    /\ status \in [Records -> Statuses]
    /\ entries \in [Files -> SUBSET Entries]
    /\ secured \in [Files -> Nat]

LEMMA LogTypedStep ==
  ASSUME PlacesAreNumbers, LogTyped, [Next]_log
  PROVE  LogTyped'
<1> USE DEF LogTyped, Statuses
<1>1. CASE UNCHANGED log
  BY <1>1 DEF log
<1>2. ASSUME NEW f \in Files, Recycle(f) \/ Secure(f)
      PROVE  LogTyped'
  BY <1>2 DEF Recycle, Secure, PlacesAreNumbers
<1>3. ASSUME NEW r \in Records, Submit(r) \/ Refuse(r) \/ Confirm(r) \/ Accept(r) \/ Fail(r)
      PROVE  LogTyped'
  BY <1>3 DEF Submit, Refuse, Confirm, Accept, Fail, Tell
<1>4. ASSUME NEW r \in Records, NEW f \in Files, Store(r, f)
      PROVE  LogTyped'
  <2>1. PICK place \in Offsets :
            entries' = [entries EXCEPT ![f] = @ \cup {[rec |-> r, at |-> place]}]
    BY <1>4 DEF Store
  <2>2. [rec |-> r, at |-> place] \in Entries
    BY DEF PlacesAreNumbers, Entries
  <2> QED
    BY <1>4, <2>1, <2>2 DEF Store
<1>5. CASE Crash
  BY <1>5 DEF Crash
<1> QED
  BY <1>1, <1>2, <1>3, <1>4, <1>5 DEF Next

LEMMA LogTypeCorrect ==
  ASSUME PlacesAreNumbers
  PROVE  Spec => []LogTyped
<1>1. Init => LogTyped
  BY DEF Init, LogTyped, Statuses
<1>2. LogTyped /\ [Next]_log => LogTyped'
  BY LogTypedStep
<1> QED
  BY <1>1, <1>2, PTL DEF Spec

\* A record told durable is in a secured place of some file in every state that follows.
THEOREM DurableForGood ==
  ASSUME PlacesAreNumbers
  PROVE  Spec => []DurableStays
<1>1. Init => DurableStays
  BY DEF Init, DurableStays
<1>2. LogTyped /\ DurableStays /\ [Next]_log => DurableStays'
  <2> SUFFICES ASSUME LogTyped, DurableStays, [Next]_log,
                      NEW r \in Records, status'[r] = "durable"
               PROVE  \E f \in Files : SecureIn(r, f)'
    BY DEF DurableStays
  <2>1. ASSUME status[r] = "durable"
        PROVE  \E f \in Files : SecureIn(r, f)'
    <3>0. PICK f \in Files : SecureIn(r, f)
      BY <2>1 DEF DurableStays
    <3>1. PICK e \in entries[f] : e.rec = r /\ e.at <= secured[f]
      BY <3>0 DEF SecureIn
    <3> SUFFICES e \in entries'[f] /\ e.at <= secured'[f]
      BY <3>1 DEF SecureIn
    <3>2. e.at \in Nat /\ secured[f] \in Nat
      BY DEF LogTyped, Entries
    <3>3. CASE UNCHANGED log
      BY <3>1, <3>3 DEF log
    <3>4. ASSUME NEW g \in Files, Recycle(g) \/ Secure(g)
          PROVE  e \in entries'[f] /\ e.at <= secured'[f]
      <4>1. CASE Recycle(g)
        BY <2>1, <3>1, <4>1 DEF Recycle, LogTyped
      <4>2. CASE Secure(g)
        BY <3>1, <3>2, <4>2 DEF Secure, LogTyped, PlacesAreNumbers
      <4> QED
        BY <3>4, <4>1, <4>2
    <3>5. ASSUME NEW s \in Records,
                 Submit(s) \/ Refuse(s) \/ Confirm(s) \/ Accept(s) \/ Fail(s)
          PROVE  e \in entries'[f] /\ e.at <= secured'[f]
      BY <3>1, <3>5 DEF Submit, Refuse, Confirm, Accept, Fail
    <3>6. ASSUME NEW s \in Records, NEW g \in Files, Store(s, g)
          PROVE  e \in entries'[f] /\ e.at <= secured'[f]
      BY <3>1, <3>6 DEF Store, LogTyped
    <3>7. CASE Crash
      <4>1. PICK cut \in [Files -> Offsets] :
                /\ \A g \in Files : secured[g] <= cut[g]
                /\ entries' = [g \in Files |-> {d \in entries[g] : d.at <= cut[g]}]
        BY <3>7 DEF Crash
      <4>2. cut[f] \in Nat /\ secured[f] <= cut[f]
        BY <4>1 DEF PlacesAreNumbers
      <4>3. e.at <= cut[f]
        BY <3>1, <3>2, <4>2
      <4> QED
        BY <3>1, <3>7, <4>1, <4>3 DEF Crash
    <3> QED
      BY <3>3, <3>4, <3>5, <3>6, <3>7 DEF Next
  <2>2. ASSUME status[r] # "durable"
        PROVE  \E f \in Files : SecureIn(r, f)'
    <3>1. Confirm(r)
      BY <2>2 DEF Next, log, Recycle, Secure, Submit, Refuse, Confirm, Accept, Fail, Tell,
                  Store, Crash, LogTyped
    <3> QED
      BY <3>1 DEF Confirm, SecureIn
  <2> QED
    BY <2>1, <2>2
<1> QED
  BY <1>1, <1>2, LogTypeCorrect, PTL DEF Spec

\* The entries a step adds: the one of the record it stores.
LEMMA NewEntry ==
  ASSUME PlacesAreNumbers, LogTyped, [Next]_log,
         NEW f \in Files, NEW e \in entries'[f], e \notin entries[f]
  PROVE  /\ Store(e.rec, f)
         /\ e.rec \in Records
         /\ \A d \in entries[f] : d.at < e.at
         /\ entries' = [entries EXCEPT ![f] = @ \cup {e}]
<1>1. entries'[f] # entries[f]
  OBVIOUS
<1>2. ~(\E g \in Files : Recycle(g) \/ Secure(g))
  BY <1>1 DEF Recycle, Secure, LogTyped
<1>3. ~Crash
  BY DEF Crash
<1>4. PICK r \in Records, g \in Files : Store(r, g)
  BY <1>1, <1>2, <1>3 DEF Next, log, Submit, Refuse, Confirm, Accept, Fail
<1>5. PICK place \in Offsets :
          /\ \A d \in entries[g] : d.at < place
          /\ entries' = [entries EXCEPT ![g] = @ \cup {[rec |-> r, at |-> place]}]
  BY <1>4 DEF Store
<1>6. g = f /\ e = [rec |-> r, at |-> place]
  BY <1>5 DEF LogTyped
<1> QED
  BY <1>4, <1>5, <1>6

\* A refused record is in no file, ever.
THEOREM RefusedForGood ==
  ASSUME PlacesAreNumbers
  PROVE  Spec => []RefusedIsNowhere
<1>1. Init => RefusedIsNowhere
  BY DEF Init, RefusedIsNowhere
<1>2. LogTyped /\ RefusedIsNowhere /\ [Next]_log => RefusedIsNowhere'
  <2> SUFFICES ASSUME LogTyped, RefusedIsNowhere, [Next]_log,
                      NEW r \in Records, status'[r] = "refused",
                      NEW f \in Files, NEW e \in entries'[f], e.rec = r
               PROVE  FALSE
    BY DEF RefusedIsNowhere, StoredIn
  <2>1. CASE e \in entries[f]
    <3>1. status[r] # "refused"
      BY <2>1 DEF RefusedIsNowhere, StoredIn
    <3>2. Refuse(r)
      BY <3>1 DEF Next, log, Recycle, Secure, Submit, Refuse, Confirm, Accept, Fail, Tell,
                  Store, Crash, LogTyped
    <3> QED
      BY <2>1, <3>2 DEF Refuse, StoredIn
  <2>2. CASE e \notin entries[f]
    <3>1. Store(r, f)
      BY <2>2, NewEntry
    <3> QED
      BY <3>1 DEF Store
  <2> QED
    BY <2>1, <2>2
<1> QED
  BY <1>1, <1>2, LogTypeCorrect, PTL DEF Spec

\* One call leaves at most one record, in a place of its own.
THEOREM OnceForGood ==
  ASSUME PlacesAreNumbers
  PROVE  Spec => []StoredOnce
<1>1. Init => StoredOnce
  BY DEF Init, StoredOnce
<1>2. LogTyped /\ StoredOnce /\ [Next]_log => StoredOnce'
  <2> SUFFICES ASSUME LogTyped, StoredOnce, [Next]_log,
                      NEW f \in Files, NEW g \in Files,
                      NEW d \in entries'[f], NEW e \in entries'[g],
                      d.rec = e.rec \/ (f = g /\ d.at = e.at)
               PROVE  f = g /\ d = e
    BY DEF StoredOnce
  <2>1. CASE d \in entries[f] /\ e \in entries[g]
    BY <2>1 DEF StoredOnce
  <2>2. CASE d \notin entries[f] /\ e \notin entries[g]
    BY <2>2, NewEntry DEF LogTyped
  <2>3. CASE d \notin entries[f] /\ e \in entries[g]
    <3>1. Store(d.rec, f) /\ \A c \in entries[f] : c.at < d.at
      BY <2>3, NewEntry
    <3>2. d.rec # e.rec
      BY <2>3, <3>1 DEF Store, StoredIn
    <3>3. f = g /\ e.at < d.at /\ d.at = e.at
      BY <2>3, <3>1, <3>2
    <3>4. e.at \in Nat
      BY <2>3 DEF LogTyped, Entries
    <3> QED
      BY <3>3, <3>4
  <2>4. CASE d \in entries[f] /\ e \notin entries[g]
    <3>1. Store(e.rec, g) /\ \A c \in entries[g] : c.at < e.at
      BY <2>4, NewEntry
    <3>2. d.rec # e.rec
      BY <2>4, <3>1 DEF Store, StoredIn
    <3>3. f = g /\ d.at < e.at /\ d.at = e.at
      BY <2>4, <3>1, <3>2
    <3>4. d.at \in Nat
      BY <2>4 DEF LogTyped, Entries
    <3> QED
      BY <3>3, <3>4
  <2> QED
    BY <2>1, <2>2, <2>3, <2>4
<1> QED
  BY <1>1, <1>2, LogTypeCorrect, PTL DEF Spec

================================================================================
