--------------------------- MODULE AddressesProofs ---------------------------
(***************************************************************************)
(* Proofs about Addresses: for any orders, addresses and requests, what    *)
(* the mock makes up enters the graph of confirmed pins by hand only, and  *)
(* a pin put by a person is moved by another one only, or by a proposal of *)
(* the AI that was made before it.                                         *)
(***************************************************************************)
EXTENDS Addresses, FiniteSetTheorems, SequenceTheorems, TLAPS

\* A place that the graph may know, or be told, of an address.
Sound(a, p) == p = Mock => a \in byHand

\* The rows that may be written: a pin of the mock is marked as one.
SoundRow(o, r) == r.at = Mock => r.from = "MOCK" \/ AddressOf[o] \in byHand

\* What a request may be about to write to a row that is there.
Changes == [order : PlacedOrders, at : Points \cup {Mock}, by : {"HAND", "BATCH", "AI", "GPS"}]
SoundChange ==
    {c \in Changes : Exists(c.order) /\ (c.by = "HAND" \/ Sound(AddressOf[c.order], c.at))}

Rows == [status : {"open", "closed"}, at : Points \cup {Mock}, from : {"FOUND", "MOCK", "HAND"},
         sure : BOOLEAN, verified : BOOLEAN]

RowsOK ==
    /\ order \in [PlacedOrders -> Rows \cup {Absent}]
    /\ \A o \in PlacedOrders : Exists(o) => SoundRow(o, order[o])

\* The graph is an invariant of its own: the property.
GraphOK ==
    /\ graph \in [Addresses -> Points \cup {Mock, NoPin}]
    /\ MockOnlyByHand

\* What each request has still to write, and to teach.
Steps == {"idle", "insert", "read", "write", "learn"}
Inserts == [order : PlacedOrders, row : Rows]
TodoOK(r) ==
    LET step == req[r].step
        todo == req[r].todo
    IN  /\ step = "insert" => /\ todo \in Seq(Inserts) /\ todo # <<>>
                              /\ SoundRow(Head(todo).order, Head(todo).row)
        /\ step \in {"read", "write", "learn"} => todo \in Seq(SoundChange) /\ todo # <<>>
        /\ step = "learn" => Sound(AddressOf[Head(todo).order], Head(todo).at)

RequestsOK ==
    /\ req \in [Requests -> [step : Steps, todo : Seq(Inserts) \cup Seq(Changes)]]
    /\ \A r \in Requests : TodoOK(r)

ProposalOK == IsFiniteSet(proposal) /\ proposal \subseteq SoundChange

PageOK == \A o \in DOMAIN page : o \in PlacedOrders /\ Exists(o) /\ page[o] \in Points \cup {Mock}

IInv == RowsOK /\ GraphOK /\ RequestsOK /\ ProposalOK /\ PageOK

-----------------------------------------------------------------------------
\* SetToSeq gives a sequence of the elements, none when there are none.
LEMMA SetToSeqIsASeq ==
    ASSUME NEW S, IsFiniteSet(S)
    PROVE  /\ SetToSeq(S) \in Seq(S)
           /\ S # {} => SetToSeq(S) # <<>>
<1> DEFINE n == Cardinality(S)
<1>1. n \in Nat /\ ExistsBijection(1..n, S) /\ (S # {} => n # 0)
  BY FS_CardinalityType, FS_EmptySet
<1>2. \E f \in [1..n -> S] : IsInjective(f)
  BY <1>1 DEF ExistsBijection, Bijection, Injection
<1>3. SetToSeq(S) \in [1..n -> S]
  BY <1>2 DEF SetToSeq
<1>4. SetToSeq(S) \in Seq(S) /\ Len(SetToSeq(S)) = n
  <2> DEFINE f == SetToSeq(S)
  <2> HIDE DEF f
  <2>1. f \in [1..n -> S]
    BY <1>3 DEF f
  <2>2. f \in Seq(S) /\ Len(f) = n
    BY <1>1, <2>1, IsASeq
  <2>3. QED  BY <2>2 DEF f
<1>5. QED  BY <1>1, <1>4

\* What the geocoder answers may be written; and what it is sure of, taught.
LEMMA GeocodedIsSound ==
    ASSUME AddressesAssumption, GraphOK, NEW o \in PlacedOrders, NEW g \in Geocoded(AddressOf[o])
    PROVE  g \in Rows /\ SoundRow(o, g) /\ (g.sure => Sound(AddressOf[o], g.at))
<1> DEFINE a == AddressOf[o]
<1>1. a \in Addresses /\ graph[a] \in Points \cup {Mock, NoPin} /\ Mock \notin Points
  BY DEF AddressesAssumption, GraphOK
<1>2. CASE graph[a] # NoPin
  <2>1. g = Row(graph[a], "FOUND", TRUE, TRUE)
    BY <1>2 DEF Geocoded
  <2>2. graph[a] \in Points \cup {Mock} /\ (graph[a] = Mock => a \in byHand)
    BY <1>1, <1>2 DEF GraphOK, MockOnlyByHand
  <2>3. QED  BY <2>1, <2>2 DEF Row, Rows, SoundRow, Sound
<1>3. CASE graph[a] = NoPin
  <2> DEFINE Found == [status : {"open"}, at : Points, from : {"FOUND"}, sure : BOOLEAN,
                       verified : {FALSE}]
  <2>1. g \in Found \/ g = Row(Mock, "MOCK", FALSE, FALSE)
    BY <1>3 DEF Geocoded
  <2>2. CASE g \in Found
    BY <1>1, <2>2 DEF Rows, SoundRow, Sound
  <2>3. CASE g = Row(Mock, "MOCK", FALSE, FALSE)
    BY <2>3 DEF Row, Rows, SoundRow
  <2>4. QED  BY <2>1, <2>2, <2>3
<1>4. QED  BY <1>2, <1>3

\* What was sound stays so, as long as rows stay and byHand only grows.
LEMMA SoundStays ==
    ASSUME IInv, byHand \subseteq byHand', \A o \in PlacedOrders : Exists(o) => Exists(o)'
    PROVE  /\ SoundChange \subseteq SoundChange'
           /\ \A r \in Requests : req'[r] = req[r] => TodoOK(r)'
           /\ proposal' = proposal => ProposalOK'
           /\ page' = page => PageOK'
<1>1. SoundChange \subseteq SoundChange'
  BY DEF SoundChange, Changes, Sound
<1>2. ASSUME NEW r \in Requests, req'[r] = req[r]
      PROVE  TodoOK(r)'
  <2>1. TodoOK(r)
    BY DEF IInv, RequestsOK
  <2>2. req[r].todo \in Seq(SoundChange) => req[r].todo \in Seq(SoundChange')
    BY <1>1, SeqMonotonic
  <2>3. QED  BY <1>2, <2>1, <2>2 DEF TodoOK, SoundRow, Sound
<1>3. proposal' = proposal => ProposalOK'
  BY <1>1 DEF IInv, ProposalOK
<1>4. page' = page => PageOK'
  BY DEF IInv, PageOK
<1>5. QED  BY <1>1, <1>2, <1>3, <1>4

\* A request that goes on: the others have to do what they had.
LEMMA GotoKeeps ==
    ASSUME IInv, byHand \subseteq byHand', \A o \in PlacedOrders : Exists(o) => Exists(o)',
           NEW r \in Requests, NEW step \in Steps, NEW todo, Proceed(r, step, todo),
           TodoOK(r)', todo \in Seq(Inserts) \cup Seq(Changes)
    PROVE  RequestsOK'
<1>1. /\ req' = [req EXCEPT ![r] = [step |-> step, todo |-> todo]]
      /\ req' \in [Requests -> [step : Steps, todo : Seq(Inserts) \cup Seq(Changes)]]
  BY DEF Proceed, IInv, RequestsOK
<1>2. \A q \in Requests \ {r} : req'[q] = req[q]
  BY <1>1 DEF IInv, RequestsOK
<1>3. QED  BY <1>1, <1>2, SoundStays DEF RequestsOK

LEMMA InitIInv == AddressesAssumption /\ PlacesInit => IInv
<1> SUFFICES ASSUME AddressesAssumption, PlacesInit PROVE IInv
  OBVIOUS
<1>1. RowsOK /\ GraphOK /\ PageOK
  BY DEF AddressesAssumption, PlacesInit, RowsOK, Exists, GraphOK, MockOnlyByHand, PageOK
<1>2. <<>> \in Seq(Changes)
  BY EmptySeq
<1>3. RequestsOK
  BY <1>2 DEF PlacesInit, Idle, RequestsOK, TodoOK, Steps
<1>4. ProposalOK
  BY FS_EmptySet DEF PlacesInit, ProposalOK
<1>5. QED  BY <1>1, <1>3, <1>4 DEF IInv

\* A step of a request that writes nothing.
LEMMA GoOnIInv ==
    ASSUME IInv, NEW r \in Requests, NEW step \in Steps, NEW todo, Proceed(r, step, todo),
           UNCHANGED <<order, graph, proposal, page, byHand>>,
           TodoOK(r)', todo \in Seq(Inserts) \cup Seq(Changes)
    PROVE  IInv'
<1>1. RowsOK' /\ GraphOK'
  BY DEF IInv, RowsOK, Exists, SoundRow, GraphOK, MockOnlyByHand
<1>2. ProposalOK' /\ PageOK'
  BY SoundStays DEF Exists
<1>3. RequestsOK'
  BY GotoKeeps DEF Exists
<1>4. QED  BY <1>1, <1>2, <1>3 DEF IInv

\* A list of sound changes is a list of changes.
LEMMA SoundAreChanges ==
    ASSUME NEW todo \in Seq(SoundChange)
    PROVE  todo \in Seq(Inserts) \cup Seq(Changes)
<1>1. todo \in Seq(Changes)
  BY SeqMonotonic DEF SoundChange
<1>2. QED  BY <1>1

LEMMA CreateReadIInv ==
    ASSUME AddressesAssumption, IInv, NEW r \in Requests, CreateRead(r)
    PROVE  IInv'
<1>1. PICK o \in PlacedOrders, new \in FromClient \cup UNION {Geocoded(a) : a \in Addresses} :
        /\ new \in FromClient \cup Geocoded(AddressOf[o])
        /\ Proceed(r, "insert", <<[order |-> o, row |-> new]>>)
  BY DEF CreateRead
<1>2. new \in Rows /\ SoundRow(o, new)
  <2>1. CASE new \in FromClient
    <3>1. PICK p \in Points : new = Row(p, "FOUND", TRUE, TRUE)
      BY <2>1 DEF FromClient
    <3>2. QED  BY <3>1 DEF Row, Rows, SoundRow, AddressesAssumption
  <2>2. CASE new \in Geocoded(AddressOf[o])
    BY <2>2, GeocodedIsSound DEF IInv
  <2>3. QED  BY <1>1, <2>1, <2>2
<1> DEFINE todo == <<[order |-> o, row |-> new]>>
<1>3. /\ todo \in Seq(Inserts) /\ todo # <<>>
      /\ Head(todo) = [order |-> o, row |-> new]
  BY <1>2 DEF Inserts
<1>4. /\ req'[r] = [step |-> "insert", todo |-> todo]
      /\ UNCHANGED <<order, graph, proposal, page, byHand>>
  BY <1>1 DEF Proceed, CreateRead, IInv, RequestsOK
<1>5. TodoOK(r)'
  <2> HIDE DEF todo
  <2>1. QED  BY <1>2, <1>3, <1>4 DEF TodoOK, SoundRow, Inserts
<1>6. QED
  <2> HIDE DEF todo
  <2>1. Proceed(r, "insert", todo)
    BY <1>1 DEF todo
  <2>2. "insert" \in Steps /\ todo \in Seq(Inserts) \cup Seq(Changes)
    BY <1>3 DEF Steps
  <2>3. QED  BY <1>4, <1>5, <2>1, <2>2, GoOnIInv

\* One change to write: a person's.
LEMMA ByHandIInv ==
    ASSUME IInv, NEW r \in Requests, NEW o \in PlacedOrders, Patch(r, o) \/ DriverFix(r, o)
    PROVE  IInv'
<1>1. PICK p \in Points \cup {Mock} :
        Proceed(r, "write", <<[order |-> o, at |-> p, by |-> "HAND"]>>)
  BY DEF Patch, DriverFix, IInv, PageOK
<1> DEFINE c == [order |-> o, at |-> p, by |-> "HAND"]
           todo == <<c>>
<1>2. UNCHANGED <<order, graph, proposal, page, byHand>> /\ Exists(o)
  BY DEF Patch, DriverFix, IInv, PageOK
<1>3. c \in SoundChange
  BY <1>2 DEF SoundChange, Changes
<1>4. todo \in Seq(SoundChange) /\ todo # <<>> /\ todo \in Seq(Inserts) \cup Seq(Changes)
  <2>1. todo \in Seq(SoundChange) /\ todo # <<>>
    BY <1>3
  <2>2. QED  BY <2>1, SoundAreChanges
<1>5. SoundChange' = SoundChange
  BY <1>2 DEF SoundChange, Sound, Exists
<1>6. req'[r] = [step |-> "write", todo |-> todo]
  BY <1>1 DEF Proceed, IInv, RequestsOK
<1>7. TodoOK(r)'
  <2> HIDE DEF todo
  <2>1. QED  BY <1>4, <1>5, <1>6 DEF TodoOK
<1>8. QED
  <2> HIDE DEF todo
  <2>1. Proceed(r, "write", todo)
    BY <1>1 DEF todo
  <2>2. "write" \in Steps
    BY DEF Steps
  <2>3. QED  BY <1>2, <1>4, <1>7, <2>1, <2>2, GoOnIInv

\* Some sound changes to write, or to read again: a batch's, the AI's.
LEMMA TakeChangesIInv ==
    ASSUME IInv, NEW r \in Requests, NEW step \in {"read", "write"},
           NEW todo \in Seq(SoundChange), todo # <<>>, Proceed(r, step, todo),
           UNCHANGED <<order, graph, page, byHand>>, ProposalOK'
    PROVE  IInv'
<1>1. RowsOK' /\ GraphOK'
  BY DEF IInv, RowsOK, Exists, SoundRow, GraphOK, MockOnlyByHand
<1>2. PageOK'
  BY SoundStays DEF Exists
<1>3. SoundChange' = SoundChange
  BY DEF SoundChange, Sound, Exists
<1>4. req'[r] = [step |-> step, todo |-> todo]
  BY DEF Proceed, IInv, RequestsOK
<1>5. TodoOK(r)'
  BY <1>3, <1>4 DEF TodoOK
<1>6. todo \in Seq(Inserts) \cup Seq(Changes) /\ step \in Steps
  BY SoundAreChanges DEF Steps
<1>7. RequestsOK'
  BY <1>5, <1>6, GotoKeeps DEF Exists
<1>8. QED  BY <1>1, <1>2, <1>7 DEF IInv

LEMMA ConfirmReadIInv ==
    ASSUME AddressesAssumption, IInv, NEW r \in Requests, ConfirmRead(r)
    PROVE  IInv'
<1>1. PICK S \in SUBSET DOMAIN page :
        /\ Confirms(S) # {}
        /\ LET change(o) == [order |-> o, at |-> order[o].at, by |-> "BATCH"]
           IN Proceed(r, "write", SetToSeq({change(o) : o \in Confirms(S)}))
  BY DEF ConfirmRead
<1> DEFINE K == Confirms(S)
           C == {[order |-> o, at |-> order[o].at, by |-> "BATCH"] : o \in K}
           f == [o \in K |-> [order |-> o, at |-> order[o].at, by |-> "BATCH"]]
<1>2. K \subseteq PlacedOrders /\ IsFiniteSet(K)
  <2>1. K \subseteq PlacedOrders
    BY DEF Confirms, IInv, PageOK
  <2>2. QED  BY <2>1, FS_Subset DEF AddressesAssumption
<1>3. C # {} /\ IsFiniteSet(C)
  <2>1. f \in Surjection(K, C)
    BY DEF Surjection
  <2> HIDE DEF f
  <2>2. C # {}
    BY <1>1
  <2> HIDE DEF C, K
  <2>3. QED  BY <1>2, <2>1, <2>2, FS_Surjection
<1>4. C \subseteq SoundChange
  <2> SUFFICES ASSUME NEW o \in K
               PROVE  [order |-> o, at |-> order[o].at, by |-> "BATCH"] \in SoundChange
    OBVIOUS
  <2>1. Exists(o) /\ order[o].from # "MOCK" /\ o \in PlacedOrders
    BY <1>2 DEF Confirms
  <2>2. order[o] \in Rows /\ SoundRow(o, order[o])
    BY <2>1 DEF IInv, RowsOK, Exists
  <2>3. QED  BY <2>1, <2>2 DEF SoundChange, Changes, Rows, SoundRow, Sound
<1>5. SetToSeq(C) \in Seq(SoundChange) /\ SetToSeq(C) # <<>>
  <2> HIDE DEF C
  <2>1. SetToSeq(C) \in Seq(C) /\ SetToSeq(C) # <<>>
    BY <1>3, SetToSeqIsASeq
  <2>2. QED  BY <1>4, <2>1, SeqMonotonic
<1>6. Proceed(r, "write", SetToSeq(C)) /\ UNCHANGED <<order, graph, proposal, page, byHand>>
  BY <1>1 DEF ConfirmRead
<1>7. ProposalOK'
  BY <1>6, SoundStays DEF Exists
<1>8. QED
  <2> HIDE DEF C
  <2>1. QED  BY <1>5, <1>6, <1>7, TakeChangesIInv

LEMMA ProposeIInv ==
    ASSUME AddressesAssumption, IInv, Propose
    PROVE  IInv'
<1>1. PICK found \in [Doubtful -> UNION {Geocoded(a) : a \in Addresses}] :
        /\ \A o \in Doubtful : found[o] \in Geocoded(AddressOf[o])
        /\ proposal' = {[order |-> o, at |-> found[o].at, by |-> "AI"] :
                          o \in {x \in Doubtful : found[x].sure}}
  BY DEF Propose
<1>2. UNCHANGED <<order, graph, req, page, byHand>>
  BY DEF Propose
<1> DEFINE K == {x \in Doubtful : found[x].sure}
           C == {[order |-> o, at |-> found[o].at, by |-> "AI"] : o \in K}
           f == [o \in K |-> [order |-> o, at |-> found[o].at, by |-> "AI"]]
<1>3. K \subseteq PlacedOrders /\ IsFiniteSet(K)
  <2>1. K \subseteq PlacedOrders
    BY DEF Doubtful
  <2>2. QED  BY <2>1, FS_Subset DEF AddressesAssumption
<1>4. IsFiniteSet(C)
  <2>1. f \in Surjection(K, C)
    BY DEF Surjection
  <2> HIDE DEF f, C, K
  <2>2. QED  BY <1>3, <2>1, FS_Surjection
<1>5. C \subseteq SoundChange
  <2> SUFFICES ASSUME NEW o \in K
               PROVE  [order |-> o, at |-> found[o].at, by |-> "AI"] \in SoundChange
    OBVIOUS
  <2>1. o \in PlacedOrders /\ Exists(o) /\ found[o] \in Geocoded(AddressOf[o]) /\ found[o].sure
    BY <1>1 DEF Doubtful
  <2>2. found[o] \in Rows /\ Sound(AddressOf[o], found[o].at)
    BY <2>1, GeocodedIsSound DEF IInv
  <2>3. QED  BY <2>1, <2>2 DEF SoundChange, Changes, Rows
<1>6. SoundChange' = SoundChange
  BY <1>2 DEF SoundChange, Sound, Exists
<1>7. ProposalOK'
  BY <1>1, <1>4, <1>5, <1>6 DEF ProposalOK
<1>8. RowsOK' /\ GraphOK'
  BY <1>2 DEF IInv, RowsOK, Exists, SoundRow, GraphOK, MockOnlyByHand
<1>9. RequestsOK' /\ PageOK'
  BY <1>2, SoundStays DEF IInv, RequestsOK, Exists
<1>10. QED  BY <1>7, <1>8, <1>9 DEF IInv

LEMMA ApplyIInv ==
    ASSUME IInv, NEW r \in Requests, Apply(r)
    PROVE  IInv'
<1>1. /\ proposal # {} /\ proposal' = {} /\ Proceed(r, "read", SetToSeq(proposal))
      /\ UNCHANGED <<order, graph, page, byHand>>
  BY DEF Apply
<1>2. SetToSeq(proposal) \in Seq(proposal) /\ SetToSeq(proposal) # <<>>
  BY <1>1, SetToSeqIsASeq DEF IInv, ProposalOK
<1>3. SetToSeq(proposal) \in Seq(SoundChange)
  BY <1>2, SeqMonotonic DEF IInv, ProposalOK
<1>4. ProposalOK'
  BY <1>1, FS_EmptySet DEF ProposalOK
<1>5. QED  BY <1>1, <1>2, <1>3, <1>4, TakeChangesIInv

\* The first of the changes a request has, and the others.
LEMMA HeadAndTail ==
    ASSUME IInv, NEW r \in Requests, req[r].step \in {"read", "write", "learn"}
    PROVE  /\ req[r].todo \in Seq(SoundChange) /\ req[r].todo # <<>>
           /\ Head(req[r].todo) \in SoundChange
           /\ Tail(req[r].todo) \in Seq(SoundChange)
<1>1. req[r].todo \in Seq(SoundChange) /\ req[r].todo # <<>>
  BY DEF IInv, RequestsOK, TodoOK
<1>2. QED  BY <1>1, HeadTailProperties

LEMMA LoadToApplyIInv ==
    ASSUME IInv, NEW r \in Requests, LoadToApply(r)
    PROVE  IInv'
<1> DEFINE rest == Tail(req[r].todo)
<1>1. /\ req[r].step = "read" /\ UNCHANGED <<order, graph, proposal, page, byHand>>
      /\ IF Open(Head(req[r].todo).order) THEN Proceed(r, "write", req[r].todo)
         ELSE Proceed(r, IF rest = <<>> THEN "idle" ELSE "read", rest)
  BY DEF LoadToApply
<1>2. req[r].todo \in Seq(SoundChange) /\ req[r].todo # <<>> /\ rest \in Seq(SoundChange)
  BY <1>1, HeadAndTail
<1>3. ProposalOK'
  BY <1>1, SoundStays DEF Exists
<1>4. CASE Open(Head(req[r].todo).order)
  BY <1>1, <1>2, <1>3, <1>4, TakeChangesIInv
<1>5. CASE ~Open(Head(req[r].todo).order) /\ rest # <<>>
  <2>1. Proceed(r, "read", rest)
    BY <1>1, <1>5
  <2>2. QED  BY <1>1, <1>2, <1>3, <1>5, <2>1, TakeChangesIInv
<1>6. CASE ~Open(Head(req[r].todo).order) /\ rest = <<>>
  <2>1. Proceed(r, "idle", rest)
    BY <1>1, <1>6
  <2>2. req'[r].step = "idle"
    BY <2>1 DEF Proceed, IInv, RequestsOK
  <2>3. TodoOK(r)'
    BY <2>2 DEF TodoOK
  <2>4. "idle" \in Steps /\ rest \in Seq(Inserts) \cup Seq(Changes)
    BY <1>2, SoundAreChanges DEF Steps
  <2>5. QED  BY <1>1, <2>1, <2>3, <2>4, GoOnIInv
<1>7. QED  BY <1>4, <1>5, <1>6

LEMMA AbortIInv ==
    ASSUME IInv, NEW r \in Requests, Abort(r)
    PROVE  IInv'
<1>1. Proceed(r, "idle", <<>>) /\ UNCHANGED <<order, graph, proposal, page, byHand>>
  BY DEF Abort
<1>2. req'[r].step = "idle"
  BY <1>1 DEF Proceed, IInv, RequestsOK
<1>3. TodoOK(r)'
  BY <1>2 DEF TodoOK
<1>4. "idle" \in Steps /\ <<>> \in Seq(Inserts) \cup Seq(Changes)
  BY EmptySeq DEF Steps
<1>5. QED  BY <1>1, <1>3, <1>4, GoOnIInv

LEMMA LoadIInv ==
    ASSUME IInv, Load
    PROVE  IInv'
<1>1. page' = [o \in Doubtful |-> order[o].at] /\ UNCHANGED <<order, graph, req, proposal, byHand>>
  BY DEF Load
<1>2. \A o \in Doubtful : o \in PlacedOrders /\ Exists(o) /\ order[o].at \in Points \cup {Mock}
  BY DEF Doubtful, IInv, RowsOK, Exists, Rows
<1>3. PageOK'
  BY <1>1, <1>2 DEF PageOK, Exists
<1>4. RowsOK' /\ GraphOK'
  BY <1>1 DEF IInv, RowsOK, Exists, SoundRow, GraphOK, MockOnlyByHand
<1>5. RequestsOK' /\ ProposalOK'
  BY <1>1, SoundStays DEF IInv, RequestsOK, Exists
<1>6. QED  BY <1>3, <1>4, <1>5 DEF IInv

\* What is left of the invariant where rows are written, or the graph is.
LEMMA WritesKeep ==
    ASSUME IInv, byHand \subseteq byHand', RowsOK', GraphOK', RequestsOK',
           UNCHANGED <<proposal, page>>, \A o \in PlacedOrders : Exists(o) => Exists(o)'
    PROVE  IInv'
  BY SoundStays DEF IInv

LEMMA InsertIInv ==
    ASSUME IInv, NEW r \in Requests, Insert(r)
    PROVE  IInv'
<1> DEFINE c == Head(req[r].todo)
<1>1. /\ req[r].step = "insert" /\ Proceed(r, "idle", <<>>)
      /\ order' = [order EXCEPT ![c.order] = c.row]
      /\ UNCHANGED <<graph, proposal, page, byHand>>
  BY DEF Insert
<1>2. c \in Inserts /\ SoundRow(c.order, c.row)
  <2>1. req[r].todo \in Seq(Inserts) /\ req[r].todo # <<>> /\ SoundRow(c.order, c.row)
    BY <1>1 DEF IInv, RequestsOK, TodoOK
  <2>2. QED  BY <2>1, HeadTailProperties
<1> HIDE DEF c
<1>3. c.order \in PlacedOrders /\ c.row \in Rows /\ c.row # Absent
  BY <1>2 DEF Inserts, Rows, Absent
<1>4. \A o \in PlacedOrders : order'[o] = IF o = c.order THEN c.row ELSE order[o]
  BY <1>1, <1>3 DEF IInv, RowsOK
<1>5. RowsOK'
  BY <1>1, <1>2, <1>3, <1>4 DEF IInv, RowsOK, Exists, SoundRow
<1>6. GraphOK'
  BY <1>1 DEF IInv, GraphOK, MockOnlyByHand
<1>7. \A o \in PlacedOrders : Exists(o) => Exists(o)'
  BY <1>3, <1>4 DEF Exists
<1>8. RequestsOK'
  <2>1. req'[r].step = "idle"
    BY <1>1 DEF Proceed, IInv, RequestsOK
  <2>2. TodoOK(r)'
    BY <2>1 DEF TodoOK
  <2>3. "idle" \in Steps /\ <<>> \in Seq(Inserts) \cup Seq(Changes)
    BY EmptySeq DEF Steps
  <2>4. QED  BY <1>1, <1>7, <2>2, <2>3, GotoKeeps
<1>9. QED  BY <1>1, <1>5, <1>6, <1>7, <1>8, WritesKeep

LEMMA WriteIInv ==
    ASSUME IInv, NEW r \in Requests, Write(r)
    PROVE  IInv'
<1>1. PICK todo, c, w :
        /\ todo = req[r].todo /\ c = Head(todo) /\ w = Written(c)
        /\ req[r].step = "write" /\ Proceed(r, "learn", todo)
        /\ order' = [order EXCEPT ![c.order] = w]
        /\ byHand' = IF c.by = "HAND" /\ c.at = Mock
                     THEN byHand \cup {AddressOf[c.order]} ELSE byHand
        /\ UNCHANGED <<graph, proposal, page>>
  BY DEF Write
<1>2. c \in SoundChange /\ todo \in Seq(SoundChange) /\ todo # <<>>
  BY <1>1, HeadAndTail
<1>3. c.order \in PlacedOrders /\ Exists(c.order) /\ c \in Changes
  BY <1>2 DEF SoundChange, Changes
<1>4. byHand \subseteq byHand' /\ Sound(AddressOf[c.order], c.at)'
  BY <1>1, <1>2 DEF SoundChange, Sound
<1>5. order[c.order] \in Rows /\ SoundRow(c.order, order[c.order])
  BY <1>3 DEF IInv, RowsOK, Exists
<1>6. w \in Rows /\ SoundRow(c.order, w)'
  <2>1. CASE c.by = "BATCH"
    <3>1. w = [order[c.order] EXCEPT !.sure = TRUE, !.verified = TRUE]
      BY <1>1, <2>1 DEF Written
    <3>2. w \in Rows /\ w.at = order[c.order].at /\ w.from = order[c.order].from
      BY <1>5, <3>1 DEF Rows
    <3>3. QED  BY <1>4, <1>5, <3>2 DEF SoundRow
  <2>2. CASE c.by # "BATCH"
    <3>1. w = [order[c.order] EXCEPT !.at = c.at, !.sure = TRUE, !.verified = TRUE,
                                     !.from = IF c.by = "HAND" THEN "HAND" ELSE "FOUND"]
      BY <1>1, <2>2 DEF Written
    <3>2. w \in Rows /\ w.at = c.at
      BY <1>3, <1>5, <3>1 DEF Rows, Changes
    <3>3. QED  BY <1>4, <3>2 DEF SoundRow, Sound
  <2>3. QED  BY <2>1, <2>2
<1>7. w # Absent
  BY <1>6 DEF Rows, Absent
<1>8. \A o \in PlacedOrders : order'[o] = IF o = c.order THEN w ELSE order[o]
  BY <1>1, <1>3 DEF IInv, RowsOK
<1>9. \A o \in PlacedOrders : Exists(o) => Exists(o)'
  BY <1>7, <1>8 DEF Exists
<1>10. RowsOK'
  <2>1. order' \in [PlacedOrders -> Rows \cup {Absent}]
    BY <1>1, <1>6 DEF IInv, RowsOK
  <2>2. \A o \in PlacedOrders : Exists(o)' => SoundRow(o, order[o])'
    BY <1>4, <1>6, <1>8 DEF IInv, RowsOK, Exists, SoundRow
  <2>3. QED  BY <2>1, <2>2 DEF RowsOK
<1>11. GraphOK'
  BY <1>1, <1>4 DEF IInv, GraphOK, MockOnlyByHand
<1>12. TodoOK(r)'
  <2>1. req'[r] = [step |-> "learn", todo |-> todo]
    BY <1>1 DEF Proceed, IInv, RequestsOK
  <2>2. todo \in Seq(SoundChange')
    BY <1>2, <1>4, <1>9, SoundStays, SeqMonotonic
  <2>3. req'[r].step = "learn" /\ req'[r].todo = todo
    BY <2>1
  <2>4. Sound(AddressOf[Head(todo).order], Head(todo).at)'
    BY <1>1, <1>4
  <2>5. TodoOK(r)' = (/\ req'[r].todo \in Seq(SoundChange')
                      /\ req'[r].todo # <<>>
                      /\ Sound(AddressOf[Head(todo).order], Head(todo).at)')
    BY <2>3 DEF TodoOK
  <2>6. QED  BY <1>2, <2>2, <2>3, <2>4, <2>5
<1>13. RequestsOK'
  <2>1. "learn" \in Steps /\ todo \in Seq(Inserts) \cup Seq(Changes)
    BY <1>2, SoundAreChanges DEF Steps
  <2>2. QED  BY <1>1, <1>4, <1>9, <1>12, <2>1, GotoKeeps
<1>14. QED  BY <1>1, <1>4, <1>9, <1>10, <1>11, <1>13, WritesKeep

LEMMA LearnIInv ==
    ASSUME IInv, NEW r \in Requests, Learn(r)
    PROVE  IInv'
<1>1. PICK c, rest :
        /\ c = Head(req[r].todo) /\ rest = Tail(req[r].todo)
        /\ req[r].step = "learn"
        /\ graph' = [graph EXCEPT ![AddressOf[c.order]] = c.at]
        /\ Proceed(r, IF rest = <<>> THEN "idle" ELSE IF c.by = "AI" THEN "read" ELSE "write", rest)
        /\ UNCHANGED <<order, proposal, page, byHand>>
  BY DEF Learn
<1>2. c \in SoundChange /\ rest \in Seq(SoundChange) /\ Sound(AddressOf[c.order], c.at)
  BY <1>1, HeadAndTail DEF IInv, RequestsOK, TodoOK
<1>3. RowsOK'
  BY <1>1 DEF IInv, RowsOK, Exists, SoundRow
<1>4. GraphOK'
  <2>1. c.at \in Points \cup {Mock}
    BY <1>2 DEF SoundChange, Changes
  <2>2. QED  BY <1>1, <1>2, <2>1 DEF IInv, GraphOK, MockOnlyByHand, Sound
<1>5. \A o \in PlacedOrders : Exists(o) => Exists(o)'
  BY <1>1 DEF Exists
<1>6. PICK step \in {"idle", "read", "write"} :
        Proceed(r, step, rest) /\ (step # "idle" => rest # <<>>)
  BY <1>1
<1>7. TodoOK(r)'
  <2>1. req'[r] = [step |-> step, todo |-> rest]
    BY <1>6 DEF Proceed, IInv, RequestsOK
  <2>2. SoundChange' = SoundChange
    BY <1>1 DEF SoundChange, Sound, Exists
  <2>3. QED  BY <1>2, <1>6, <2>1, <2>2 DEF TodoOK
<1>8. RequestsOK'
  <2>1. step \in Steps /\ rest \in Seq(Inserts) \cup Seq(Changes)
    BY <1>2, SoundAreChanges DEF Steps
  <2>2. QED  BY <1>1, <1>5, <1>6, <1>7, <2>1, GotoKeeps
<1>9. QED  BY <1>1, <1>3, <1>4, <1>5, <1>8, WritesKeep

LEMMA DeliverIInv ==
    ASSUME AddressesAssumption, IInv, NEW r \in Requests, NEW o \in PlacedOrders, Deliver(r, o)
    PROVE  IInv'
<1>1. PICK p \in Points : Proceed(r, "learn", <<[order |-> o, at |-> p, by |-> "GPS"]>>)
  BY DEF Deliver
<1>2. /\ order' = [order EXCEPT ![o].status = "closed"] /\ Open(o)
      /\ UNCHANGED <<graph, proposal, page, byHand>>
  BY DEF Deliver
<1>3. Exists(o) /\ order[o] \in Rows
  BY <1>2 DEF Open, Absent, Exists, IInv, RowsOK
<1>4. RowsOK' /\ \A x \in PlacedOrders : Exists(x) => Exists(x)'
  <2>1. PICK w : w = [order[o] EXCEPT !.status = "closed"]
    OBVIOUS
  <2>2. w \in Rows /\ w.at = order[o].at /\ w.from = order[o].from /\ w # Absent
    BY <1>3, <2>1 DEF Rows, Absent
  <2>3. \A x \in PlacedOrders : order'[x] = IF x = o THEN w ELSE order[x]
    BY <1>2, <2>1 DEF IInv, RowsOK
  <2>4. order' \in [PlacedOrders -> Rows \cup {Absent}]
    BY <1>2, <2>1, <2>2 DEF IInv, RowsOK
  <2>5. QED  BY <1>2, <1>3, <2>2, <2>3, <2>4 DEF IInv, RowsOK, Exists, SoundRow
<1>5. GraphOK'
  BY <1>2 DEF IInv, GraphOK, MockOnlyByHand
<1> DEFINE c == [order |-> o, at |-> p, by |-> "GPS"]
           todo == <<c>>
<1>6. c \in SoundChange /\ Sound(AddressOf[o], p)
  BY <1>3 DEF AddressesAssumption, SoundChange, Changes, Sound
<1>7. todo \in Seq(SoundChange) /\ todo # <<>> /\ Head(todo) = c
  BY <1>6
<1>8. req'[r] = [step |-> "learn", todo |-> todo]
  BY <1>1 DEF Proceed, IInv, RequestsOK
<1>9. TodoOK(r)'
  <2>1. todo \in Seq(SoundChange')
    BY <1>2, <1>4, <1>7, SoundStays, SeqMonotonic
  <2>2. Sound(AddressOf[Head(req[r].todo).order], Head(req[r].todo).at)'
    BY <1>2, <1>6, <1>7, <1>8 DEF Sound
  <2> HIDE DEF todo
  <2>3. QED  BY <1>7, <1>8, <2>1, <2>2 DEF TodoOK
<1>10. RequestsOK'
  <2>1. "learn" \in Steps /\ todo \in Seq(Inserts) \cup Seq(Changes)
    BY <1>7, SoundAreChanges DEF Steps
  <2>2. Proceed(r, "learn", todo)
    BY <1>1
  <2> HIDE DEF todo
  <2>3. QED  BY <1>2, <1>4, <1>9, <2>1, <2>2, GotoKeeps
<1>11. QED  BY <1>2, <1>4, <1>5, <1>10, WritesKeep

LEMMA StepIInv ==
    ASSUME AddressesAssumption, IInv, [PlacesNext]_placeVars
    PROVE  IInv'
<1>1. CASE UNCHANGED placeVars
  BY <1>1 DEF placeVars, IInv, RowsOK, GraphOK, MockOnlyByHand, RequestsOK, TodoOK, ProposalOK, PageOK,
              SoundChange, SoundRow, Sound, Exists
<1>2. CASE Load
  BY <1>2, LoadIInv
<1>3. CASE Propose
  BY <1>3, ProposeIInv
<1>4. ASSUME NEW r \in Requests,
             CreateRead(r) \/ Insert(r) \/ ConfirmRead(r) \/ Apply(r) \/ LoadToApply(r)
             \/ Write(r) \/ Learn(r) \/ Abort(r)
      PROVE  IInv'
  BY <1>4, CreateReadIInv, InsertIInv, ConfirmReadIInv, ApplyIInv, LoadToApplyIInv, WriteIInv,
     LearnIInv, AbortIInv
<1>5. ASSUME NEW r \in Requests, NEW o \in PlacedOrders,
             Patch(r, o) \/ DriverFix(r, o) \/ Deliver(r, o)
      PROVE  IInv'
  BY <1>5, ByHandIInv, DeliverIInv
<1>6. QED  BY <1>1, <1>2, <1>3, <1>4, <1>5 DEF PlacesNext

\* However new orders, batches, corrections, deliveries and the AI's proposals
\* cross, the graph of confirmed pins (AddressPin) knows the point the mock made
\* up for an address only if a person put that pin on the map by itself.
THEOREM MockEntersByHand ==
    ASSUME AddressesAssumption
    PROVE  PlacesSpec => []MockOnlyByHand
<1>1. PlacesInit => IInv
  BY InitIInv
<1>2. IInv /\ [PlacesNext]_placeVars => IInv'
  BY StepIInv
<1>3. IInv => MockOnlyByHand
  BY DEF IInv, GraphOK
<1>4. QED  BY <1>1, <1>2, <1>3, PTL DEF PlacesSpec

-----------------------------------------------------------------------------
\* What a person put stays, but for the proposals that were made before.

\* An order whose pin was put by a person, in the field or on the map.
HandPut(o) == Exists(o) /\ order[o].from = "HAND"

\* A change that may be written: a proposal of the AI for an order that a person
\* has pinned was made before.
MayWrite(c) ==
    /\ c.by # "GPS"
    /\ c.by = "AI" /\ HandPut(c.order) => c.order \in corrected

ToWrite(step, todo) ==
    /\ step \in {"read", "write"} => \A i \in DOMAIN todo : MayWrite(todo[i])
    /\ step = "learn" => \A i \in DOMAIN Tail(todo) : MayWrite(Tail(todo)[i])

Inserting(r) == req[r].step = "insert"
NewOrder(r) == Head(req[r].todo).order

\* The order a request is about to insert is not there, and nobody else's to insert.
InsertsAreNew ==
    \A r \in Requests : Inserting(r) =>
        /\ ~Exists(NewOrder(r)) /\ Head(req[r].todo).row.from # "HAND"
        /\ \A q \in Requests : Inserting(q) /\ NewOrder(q) = NewOrder(r) => q = r

HandIsVerified == \A o \in PlacedOrders : HandPut(o) => order[o].verified

HandInv ==
    /\ HandIsVerified /\ InsertsAreNew
    /\ \A c \in proposal : MayWrite(c)
    /\ \A r \in Requests : ToWrite(req[r].step, req[r].todo)

-----------------------------------------------------------------------------
LEMMA InitHandInv == PlacesInit => HandInv
<1> SUFFICES ASSUME PlacesInit PROVE HandInv
  OBVIOUS
<1>1. \A o \in PlacedOrders : ~Exists(o)
  BY DEF PlacesInit, Exists
<1>2. \A r \in Requests : req[r].step = "idle"
  BY DEF PlacesInit, Idle
<1>3. proposal = {}
  BY DEF PlacesInit
<1>4. QED
  BY <1>1, <1>2, <1>3 DEF HandInv, HandIsVerified, HandPut, InsertsAreNew, Inserting, ToWrite

\* Where pins become a person's only as they are remembered to be, what may be
\* written still may.
LEMMA MayWriteStays ==
    ASSUME corrected \subseteq corrected',
           \A o \in PlacedOrders : HandPut(o)' => HandPut(o) \/ o \in corrected'
    PROVE  \A c \in Changes : MayWrite(c) => MayWrite(c)'
<1> SUFFICES ASSUME NEW c \in Changes, MayWrite(c) PROVE MayWrite(c)'
  OBVIOUS
<1>1. c.order \in PlacedOrders
  BY DEF Changes
<1>2. HandPut(c.order)' => HandPut(c.order) \/ c.order \in corrected'
  BY <1>1
<1>3. QED  BY <1>2 DEF MayWrite

LEMMA ElementsAreChanges ==
    ASSUME IInv, NEW r \in Requests, req[r].step \in {"read", "write", "learn"}
    PROVE  /\ \A i \in DOMAIN req[r].todo : req[r].todo[i] \in Changes
           /\ \A i \in DOMAIN Tail(req[r].todo) :
                /\ Tail(req[r].todo)[i] \in Changes
                /\ i + 1 \in DOMAIN req[r].todo
                /\ Tail(req[r].todo)[i] = req[r].todo[i + 1]
<1>1. PICK todo : todo = req[r].todo
  OBVIOUS
<1>2. todo \in Seq(SoundChange) /\ todo # <<>> /\ SoundChange \subseteq Changes
  BY <1>1, HeadAndTail DEF SoundChange
<1>3. \A i \in DOMAIN todo : todo[i] \in Changes
  BY <1>2
<1>4. \A i \in DOMAIN Tail(todo) : i + 1 \in DOMAIN todo /\ Tail(todo)[i] = todo[i + 1]
  BY <1>2
<1>5. QED  BY <1>1, <1>3, <1>4

\* The step of a request.
LEMMA GoOnHandInv ==
    ASSUME IInv, HandInv, NEW r \in Requests, NEW step, NEW todo, Proceed(r, step, todo),
           corrected \subseteq corrected', proposal' \subseteq proposal,
           HandIsVerified',
           \A o \in PlacedOrders : HandPut(o)' => HandPut(o) \/ o \in corrected',
           \A q \in Requests \ {r} : Inserting(q) => ~Exists(NewOrder(q))',
           ToWrite(step, todo)',
           step = "insert" => /\ ~Exists(Head(todo).order)' /\ Head(todo).row.from # "HAND"
                              /\ \A q \in Requests : Inserting(q) => NewOrder(q) # Head(todo).order
    PROVE  HandInv'
<1>1. /\ req'[r] = [step |-> step, todo |-> todo]
      /\ \A q \in Requests \ {r} : req'[q] = req[q]
  BY DEF Proceed, IInv, RequestsOK
<1>2. \A c \in Changes : MayWrite(c) => MayWrite(c)'
  BY MayWriteStays
<1>3. \A c \in proposal' : MayWrite(c)'
  BY <1>2 DEF HandInv, IInv, ProposalOK, SoundChange
<1>4. ASSUME NEW q \in Requests PROVE ToWrite(req[q].step, req[q].todo)'
  <2>1. CASE q = r
    BY <1>1, <2>1 DEF ToWrite
  <2>2. CASE q # r
    <3>1. req'[q] = req[q] /\ ToWrite(req[q].step, req[q].todo)
      BY <1>1, <2>2 DEF HandInv
    <3>2. req[q].step \in {"read", "write"} => \A i \in DOMAIN req[q].todo : MayWrite(req[q].todo[i])'
      BY <1>2, <3>1, ElementsAreChanges DEF ToWrite
    <3>3. req[q].step = "learn" =>
            \A i \in DOMAIN Tail(req[q].todo) : MayWrite(Tail(req[q].todo)[i])'
      BY <1>2, <3>1, ElementsAreChanges DEF ToWrite
    <3>4. QED  BY <3>1, <3>2, <3>3 DEF ToWrite
  <2>3. QED  BY <2>1, <2>2
<1>5. InsertsAreNew'
  <2>1. \A q \in Requests : q # r => /\ Inserting(q)' <=> Inserting(q)
                                     /\ NewOrder(q)' = NewOrder(q)
                                     /\ req'[q].todo = req[q].todo
    BY <1>1 DEF Inserting, NewOrder
  <2>2. /\ Inserting(r)' <=> step = "insert"
        /\ NewOrder(r)' = Head(todo).order /\ req'[r].todo = todo
    BY <1>1 DEF Inserting, NewOrder
  <2>3. ASSUME NEW p \in Requests, Inserting(p)'
        PROVE  /\ ~Exists(NewOrder(p))' /\ Head(req'[p].todo).row.from # "HAND"
               /\ \A q \in Requests : Inserting(q)' /\ NewOrder(q)' = NewOrder(p)' => q = p
    <3>1. CASE p = r
      <4>1. ~Exists(NewOrder(p))'
        BY <2>2, <2>3, <3>1 DEF Exists
      <4>2. QED  BY <2>1, <2>2, <2>3, <3>1, <4>1
    <3>2. CASE p # r
      <4>1. Inserting(p) /\ NewOrder(p)' = NewOrder(p)
        BY <2>1, <2>3, <3>2
      <4>2. ~Exists(NewOrder(p))'
        BY <3>2, <4>1 DEF Exists
      <4>3. ASSUME NEW q \in Requests, Inserting(q)', NewOrder(q)' = NewOrder(p)'
            PROVE  q = p
        <5>1. CASE q = r
          BY <2>2, <4>1, <4>3, <5>1
        <5>2. CASE q # r
          BY <2>1, <4>1, <4>3, <5>2 DEF HandInv, InsertsAreNew
        <5>3. QED  BY <5>1, <5>2
      <4>4. QED  BY <2>1, <3>2, <4>1, <4>2, <4>3 DEF HandInv, InsertsAreNew
    <3>3. QED  BY <3>1, <3>2
  <2>4. QED  BY <2>3 DEF InsertsAreNew
<1>6. QED  BY <1>3, <1>4, <1>5 DEF HandInv

\* The steps that write no row.
LEMMA QuietHandInv ==
    ASSUME IInv, HandInv, NEW r \in Requests, NEW step, NEW todo, Proceed(r, step, todo),
           UNCHANGED <<order, corrected>>, proposal' \subseteq proposal,
           ToWrite(step, todo),
           step = "insert" => /\ ~Exists(Head(todo).order) /\ Head(todo).row.from # "HAND"
                              /\ \A q \in Requests : Inserting(q) => NewOrder(q) # Head(todo).order
    PROVE  HandInv'
<1>1. \A o : (Exists(o)' <=> Exists(o)) /\ (HandPut(o)' <=> HandPut(o))
  BY DEF Exists, HandPut
<1>2. HandIsVerified' /\ \A o \in PlacedOrders : HandPut(o)' => HandPut(o)
  BY <1>1 DEF HandInv, HandIsVerified
<1>3. ASSUME NEW q \in Requests \ {r}, Inserting(q) PROVE ~Exists(NewOrder(q))'
  <2>1. PICK o : o = NewOrder(q)
    OBVIOUS
  <2>2. ~Exists(o)
    BY <1>3, <2>1 DEF HandInv, InsertsAreNew
  <2>3. req'[q] = req[q]
    BY DEF Proceed, IInv, RequestsOK
  <2>4. QED  BY <2>1, <2>2, <2>3 DEF Exists, NewOrder
<1>4. ToWrite(step, todo)'
  BY DEF ToWrite, MayWrite, HandPut, Exists
<1>5. step = "insert" => ~Exists(Head(todo).order)'
  BY <1>1
<1>6. QED  BY <1>2, <1>3, <1>4, <1>5, GoOnHandInv

LEMMA ReadsHandInv ==
    ASSUME AddressesAssumption, IInv, HandInv, NEW r \in Requests,
           \/ CreateRead(r) \/ ConfirmRead(r) \/ Apply(r) \/ LoadToApply(r)
           \/ Learn(r) \/ Abort(r)
           \/ \E o \in PlacedOrders : Patch(r, o) \/ DriverFix(r, o)
    PROVE  HandInv'
<1>1. UNCHANGED <<order, corrected>> /\ proposal' \subseteq proposal
  BY DEF CreateRead, ConfirmRead, Apply, LoadToApply, Learn, Abort, Patch, DriverFix
<1>2. CASE CreateRead(r)
  <2>1. PICK o \in PlacedOrders, new \in FromClient \cup UNION {Geocoded(a) : a \in Addresses} :
          /\ ~Exists(o) /\ new \in FromClient \cup Geocoded(AddressOf[o])
          /\ \A q \in Requests : req[q].step = "insert" => Head(req[q].todo).order # o
          /\ Proceed(r, "insert", <<[order |-> o, row |-> new]>>)
    BY <1>2 DEF CreateRead
  <2>2. new.from # "HAND"
    <3>1. CASE new \in FromClient
      BY <3>1 DEF FromClient, Row
    <3>2. CASE new \in Geocoded(AddressOf[o])
      <4>1. \/ new = Row(graph[AddressOf[o]], "FOUND", TRUE, TRUE)
            \/ new = Row(Mock, "MOCK", FALSE, FALSE)
            \/ new \in [status : {"open"}, at : Points, from : {"FOUND"}, sure : BOOLEAN,
                        verified : {FALSE}]
        BY <3>2 DEF Geocoded
      <4>2. Row(graph[AddressOf[o]], "FOUND", TRUE, TRUE).from # "HAND"
        BY DEF Row
      <4>3. Row(Mock, "MOCK", FALSE, FALSE).from # "HAND"
        BY DEF Row
      <4>4. ASSUME new \in [status : {"open"}, at : Points, from : {"FOUND"}, sure : BOOLEAN,
                            verified : {FALSE}]
            PROVE  new.from # "HAND"
        BY <4>4
      <4>5. QED  BY <4>1, <4>2, <4>3, <4>4
    <3>3. QED  BY <2>1, <3>1, <3>2
  <2>3. PICK todo : todo = <<[order |-> o, row |-> new]>>
    OBVIOUS
  <2>4. Head(todo).order = o /\ Head(todo).row = new
    BY <2>3
  <2>5. ToWrite("insert", todo)
    BY DEF ToWrite
  <2>6. Proceed(r, "insert", todo) /\ \A q \in Requests : Inserting(q) => NewOrder(q) # o
    BY <2>1, <2>3 DEF Inserting, NewOrder
  <2>7. QED  BY <1>1, <2>1, <2>2, <2>4, <2>5, <2>6, QuietHandInv
<1>3. CASE ConfirmRead(r)
  <2>1. PICK S \in SUBSET DOMAIN page :
          LET change(o) == [order |-> o, at |-> order[o].at, by |-> "BATCH"]
          IN Proceed(r, "write", SetToSeq({change(o) : o \in Confirms(S)}))
    BY <1>3 DEF ConfirmRead
  <2> DEFINE K == Confirms(S)
             C == {[order |-> o, at |-> order[o].at, by |-> "BATCH"] : o \in K}
             f == [o \in K |-> [order |-> o, at |-> order[o].at, by |-> "BATCH"]]
  <2>2. K \subseteq PlacedOrders /\ IsFiniteSet(K)
    <3>1. K \subseteq PlacedOrders
      BY DEF Confirms, IInv, PageOK
    <3>2. QED  BY <3>1, FS_Subset DEF AddressesAssumption
  <2>3. IsFiniteSet(C)
    <3>1. f \in Surjection(K, C)
      BY DEF Surjection
    <3> HIDE DEF f, C, K
    <3>2. QED  BY <2>2, <3>1, FS_Surjection
  <2>4. \A c \in C : MayWrite(c)
    BY DEF MayWrite
  <2>5. PICK todo : todo = SetToSeq(C)
    OBVIOUS
  <2>6. Proceed(r, "write", todo)
    BY <2>1, <2>5
  <2>7. todo \in Seq(C)
    <3> HIDE DEF C
    <3>1. QED  BY <2>3, <2>5, SetToSeqIsASeq
  <2>8. ToWrite("write", todo)
    <3> HIDE DEF C
    <3>1. \A i \in DOMAIN todo : todo[i] \in C
      BY <2>7
    <3>2. QED  BY <2>4, <3>1 DEF ToWrite
  <2>9. QED  BY <1>1, <2>6, <2>8, QuietHandInv
<1>4. CASE Apply(r)
  <2>1. PICK todo : todo = SetToSeq(proposal)
    OBVIOUS
  <2>2. Proceed(r, "read", todo) /\ todo \in Seq(proposal)
    BY <1>4, <2>1, SetToSeqIsASeq DEF Apply, IInv, ProposalOK
  <2>3. \A i \in DOMAIN todo : todo[i] \in proposal
    BY <2>2
  <2>4. ToWrite("read", todo)
    BY <2>3 DEF ToWrite, HandInv
  <2>5. QED  BY <1>1, <2>2, <2>4, QuietHandInv
<1>5. CASE LoadToApply(r)
  <2>1. req[r].step = "read" /\ ToWrite(req[r].step, req[r].todo)
    BY <1>5 DEF LoadToApply, HandInv
  <2>2. CASE Open(Head(req[r].todo).order)
    <3>1. Proceed(r, "write", req[r].todo) /\ ToWrite("write", req[r].todo)
      BY <1>5, <2>1, <2>2 DEF LoadToApply, ToWrite
    <3>2. QED  BY <1>1, <3>1, QuietHandInv
  <2>3. CASE ~Open(Head(req[r].todo).order)
    <3>1. PICK step \in {"idle", "read"} : Proceed(r, step, Tail(req[r].todo))
      BY <1>5, <2>3 DEF LoadToApply
    <3>2. \A i \in DOMAIN Tail(req[r].todo) : MayWrite(Tail(req[r].todo)[i])
      BY <2>1, ElementsAreChanges DEF ToWrite
    <3>3. ToWrite(step, Tail(req[r].todo))
      BY <3>1, <3>2 DEF ToWrite
    <3>4. QED  BY <1>1, <3>1, <3>3, QuietHandInv
  <2>4. QED  BY <2>2, <2>3
<1>6. CASE Learn(r)
  <2>1. ToWrite("learn", req[r].todo)
    BY <1>6 DEF Learn, HandInv
  <2>2. PICK step \in {"idle", "read", "write"} : Proceed(r, step, Tail(req[r].todo))
    BY <1>6 DEF Learn
  <2>3. ToWrite(step, Tail(req[r].todo))
    BY <2>1, <2>2 DEF ToWrite
  <2>4. QED  BY <1>1, <2>2, <2>3, QuietHandInv
<1>7. CASE Abort(r)
  <2>1. Proceed(r, "idle", <<>>) /\ ToWrite("idle", <<>>)
    BY <1>7 DEF Abort, ToWrite
  <2>2. QED  BY <1>1, <2>1, QuietHandInv
<1>8. ASSUME NEW o \in PlacedOrders, Patch(r, o) \/ DriverFix(r, o)
      PROVE  HandInv'
  <2>1. PICK todo, p : /\ todo = <<[order |-> o, at |-> p, by |-> "HAND"]>>
                       /\ Proceed(r, "write", todo)
    BY <1>8 DEF Patch, DriverFix
  <2>2. ToWrite("write", todo)
    BY <2>1 DEF ToWrite, MayWrite
  <2>3. QED  BY <1>1, <2>1, <2>2, QuietHandInv
<1>9. QED  BY <1>2, <1>3, <1>4, <1>5, <1>6, <1>7, <1>8

\* The rows that a step leaves: only one of them changes.
LEMMA RowWritten ==
    ASSUME IInv, NEW o \in PlacedOrders, NEW w \in Rows, order' = [order EXCEPT ![o] = w],
           w.from = "HAND" => w.verified, HandInv
    PROVE  /\ HandIsVerified'
           /\ \A x \in PlacedOrders : HandPut(x)' <=> IF x = o THEN w.from = "HAND" ELSE HandPut(x)
           /\ \A x \in PlacedOrders : x # o => (Exists(x)' <=> Exists(x))
<1>1. \A x \in PlacedOrders : order'[x] = IF x = o THEN w ELSE order[x]
  BY DEF IInv, RowsOK
<1>2. w # Absent
  BY DEF Rows, Absent
<1>3. QED  BY <1>1, <1>2 DEF HandInv, HandIsVerified, HandPut, Exists

LEMMA InsertHandInv ==
    ASSUME IInv, HandInv, NEW r \in Requests, Insert(r)
    PROVE  HandInv'
<1>1. PICK c : c = Head(req[r].todo)
  OBVIOUS
<1>2. /\ Inserting(r) /\ Proceed(r, "idle", <<>>) /\ order' = [order EXCEPT ![c.order] = c.row]
      /\ UNCHANGED <<proposal, corrected>>
  BY <1>1 DEF Insert, Inserting
<1>3. c \in Inserts
  <2>1. req[r].todo \in Seq(Inserts) /\ req[r].todo # <<>>
    BY <1>2 DEF IInv, RequestsOK, TodoOK, Inserting
  <2>2. QED  BY <1>1, <2>1, HeadTailProperties
<1>4. c.order \in PlacedOrders /\ c.row \in Rows /\ c.order = NewOrder(r) /\ c.row.from # "HAND"
  BY <1>1, <1>2, <1>3 DEF Inserts, NewOrder, HandInv, InsertsAreNew
<1>5. /\ HandIsVerified'
      /\ \A x \in PlacedOrders : HandPut(x)' => HandPut(x)
      /\ \A x \in PlacedOrders : x # c.order => (Exists(x)' <=> Exists(x))
  BY <1>2, <1>4, RowWritten
<1>6. ASSUME NEW q \in Requests \ {r}, Inserting(q) PROVE ~Exists(NewOrder(q))'
  <2>1. PICK o : o = NewOrder(q)
    OBVIOUS
  <2>2. ~Exists(o) /\ o # c.order
    BY <1>2, <1>4, <1>6, <2>1 DEF HandInv, InsertsAreNew
  <2>3. o \in PlacedOrders
    <3>1. req[q].todo \in Seq(Inserts) /\ req[q].todo # <<>>
      BY <1>6 DEF IInv, RequestsOK, TodoOK, Inserting
    <3>2. Head(req[q].todo) \in Inserts
      BY <3>1, HeadTailProperties
    <3>3. QED  BY <2>1, <3>2 DEF NewOrder, Inserts
  <2>4. req'[q] = req[q]
    BY <1>2 DEF Proceed, IInv, RequestsOK
  <2>5. QED  BY <1>5, <2>1, <2>2, <2>3, <2>4 DEF NewOrder, Exists
<1>7. ToWrite("idle", <<>>)'
  BY DEF ToWrite
<1>8. QED  BY <1>2, <1>5, <1>6, <1>7, GoOnHandInv

\* An order that is there is not one that a request is about to insert.
LEMMA ThereIsNotNew ==
    ASSUME IInv, HandInv, NEW r \in Requests, NEW step, NEW todo, Proceed(r, step, todo),
           NEW o \in PlacedOrders, Exists(o),
           \A x \in PlacedOrders : x # o => (Exists(x)' <=> Exists(x)),
           NEW q \in Requests \ {r}, Inserting(q)
    PROVE  ~Exists(NewOrder(q))'
<1>1. PICK x : x = NewOrder(q)
  OBVIOUS
<1>2. ~Exists(x)
  BY <1>1 DEF HandInv, InsertsAreNew
<1>3. x \in PlacedOrders
  <2>1. req[q].todo \in Seq(Inserts) /\ req[q].todo # <<>>
    BY DEF IInv, RequestsOK, TodoOK, Inserting
  <2>2. Head(req[q].todo) \in Inserts
    BY <2>1, HeadTailProperties
  <2>3. QED  BY <1>1, <2>2 DEF NewOrder, Inserts
<1>4. req'[q] = req[q]
  BY DEF Proceed, IInv, RequestsOK
<1>5. QED  BY <1>1, <1>2, <1>3, <1>4 DEF NewOrder, Exists

\* What a change is about, and what it leaves in the row.
LEMMA WriteFacts ==
    ASSUME IInv, HandInv, NEW r \in Requests, Write(r)
    PROVE  \E c \in SoundChange, w \in Rows :
             /\ MayWrite(c) /\ order' = [order EXCEPT ![c.order] = w]
             /\ corrected' = IF c.by = "HAND" THEN corrected \cup {c.order} ELSE corrected
             /\ w.verified
             /\ w.from = "HAND" <=> c.by = "HAND" \/ (c.by = "BATCH" /\ order[c.order].from = "HAND")
<1>1. PICK todo, c, w :
        /\ todo = req[r].todo /\ c = Head(todo) /\ w = Written(c)
        /\ req[r].step = "write"
        /\ order' = [order EXCEPT ![c.order] = w]
        /\ corrected' = IF c.by = "HAND" THEN corrected \cup {c.order} ELSE corrected
  BY DEF Write
<1>2. c \in SoundChange /\ todo \in Seq(SoundChange) /\ todo # <<>>
  BY <1>1, HeadAndTail
<1>3. MayWrite(c)
  <2>1. ToWrite("write", todo)
    BY <1>1 DEF HandInv
  <2>2. 1 \in DOMAIN todo /\ todo[1] = c
    BY <1>1, <1>2
  <2>3. QED  BY <2>1, <2>2 DEF ToWrite
<1>4. c \in Changes /\ order[c.order] \in Rows
  BY <1>2 DEF SoundChange, Changes, IInv, RowsOK, Exists
<1>5. CASE c.by = "BATCH"
  <2>1. w = [order[c.order] EXCEPT !.sure = TRUE, !.verified = TRUE]
    BY <1>1, <1>5 DEF Written
  <2>2. w \in Rows /\ w.from = order[c.order].from /\ w.verified
    BY <1>4, <2>1 DEF Rows
  <2>3. QED  BY <1>1, <1>2, <1>3, <1>5, <2>2
<1>6. CASE c.by # "BATCH"
  <2>1. w = [order[c.order] EXCEPT !.at = c.at, !.sure = TRUE, !.verified = TRUE,
                                   !.from = IF c.by = "HAND" THEN "HAND" ELSE "FOUND"]
    BY <1>1, <1>6 DEF Written
  <2>2. w \in Rows /\ w.verified /\ w.from = IF c.by = "HAND" THEN "HAND" ELSE "FOUND"
    BY <1>4, <2>1 DEF Rows, Changes
  <2>3. QED  BY <1>1, <1>2, <1>3, <1>6, <2>2
<1>7. QED  BY <1>5, <1>6

LEMMA WriteHandInv ==
    ASSUME IInv, HandInv, NEW r \in Requests, Write(r)
    PROVE  HandInv'
<1>1. PICK c \in SoundChange, w \in Rows :
        /\ MayWrite(c) /\ order' = [order EXCEPT ![c.order] = w]
        /\ corrected' = IF c.by = "HAND" THEN corrected \cup {c.order} ELSE corrected
        /\ w.verified
        /\ w.from = "HAND" <=> c.by = "HAND" \/ (c.by = "BATCH" /\ order[c.order].from = "HAND")
  BY WriteFacts
<1>2. PICK todo : todo = req[r].todo /\ Proceed(r, "learn", todo)
  BY DEF Write
<1>3. req[r].step = "write" /\ proposal' = proposal /\ corrected \subseteq corrected'
  BY <1>1 DEF Write
<1>4. c.order \in PlacedOrders /\ Exists(c.order)
  BY DEF SoundChange, Changes
<1>5. /\ HandIsVerified'
      /\ \A x \in PlacedOrders : HandPut(x)' <=> IF x = c.order THEN w.from = "HAND" ELSE HandPut(x)
      /\ \A x \in PlacedOrders : x # c.order => (Exists(x)' <=> Exists(x))
  BY <1>1, <1>4, RowWritten
<1>6. \A x \in PlacedOrders : HandPut(x)' => HandPut(x) \/ x \in corrected'
  BY <1>1, <1>4, <1>5 DEF HandPut
<1>7. \A q \in Requests \ {r} : Inserting(q) => ~Exists(NewOrder(q))'
  BY <1>2, <1>4, <1>5, ThereIsNotNew
<1>8. ToWrite("learn", todo)'
  <2>1. \A x \in Changes : MayWrite(x) => MayWrite(x)'
    BY <1>3, <1>6, MayWriteStays
  <2>2. \A i \in DOMAIN Tail(todo) : MayWrite(Tail(todo)[i]) /\ Tail(todo)[i] \in Changes
    BY <1>2, <1>3, ElementsAreChanges DEF HandInv, ToWrite
  <2>3. QED  BY <2>1, <2>2 DEF ToWrite
<1>9. QED  BY <1>2, <1>3, <1>5, <1>6, <1>7, <1>8, GoOnHandInv

LEMMA DeliverHandInv ==
    ASSUME IInv, HandInv, NEW r \in Requests, NEW o \in PlacedOrders, Deliver(r, o)
    PROVE  HandInv'
<1>1. PICK todo, p : /\ todo = <<[order |-> o, at |-> p, by |-> "GPS"]>>
                     /\ Proceed(r, "learn", todo)
  BY DEF Deliver
<1>2. /\ order' = [order EXCEPT ![o].status = "closed"] /\ Open(o)
      /\ UNCHANGED <<proposal, corrected>>
  BY DEF Deliver
<1>3. Exists(o) /\ order[o] \in Rows
  BY <1>2 DEF Open, Absent, Exists, IInv, RowsOK
<1>4. PICK w : w = [order[o] EXCEPT !.status = "closed"]
  OBVIOUS
<1>5. /\ w \in Rows /\ w.from = order[o].from /\ w.verified = order[o].verified
      /\ order' = [order EXCEPT ![o] = w]
  BY <1>2, <1>3, <1>4 DEF Rows, IInv, RowsOK
<1>6. w.from = "HAND" => w.verified
  BY <1>3, <1>5 DEF HandInv, HandIsVerified, HandPut
<1>7. /\ HandIsVerified'
      /\ \A x \in PlacedOrders : HandPut(x)' <=> IF x = o THEN w.from = "HAND" ELSE HandPut(x)
      /\ \A x \in PlacedOrders : x # o => (Exists(x)' <=> Exists(x))
  BY <1>5, <1>6, RowWritten
<1>8. \A x \in PlacedOrders : HandPut(x)' => HandPut(x)
  BY <1>3, <1>5, <1>7 DEF HandPut
<1>9. \A q \in Requests \ {r} : Inserting(q) => ~Exists(NewOrder(q))'
  BY <1>1, <1>3, <1>7, ThereIsNotNew
<1>10. ToWrite("learn", todo)'
  BY <1>1 DEF ToWrite
<1>11. QED  BY <1>1, <1>2, <1>7, <1>8, <1>9, <1>10, GoOnHandInv

\* The page is loaded, or the AI proposes: for orders that nobody has verified.
LEMMA OthersHandInv ==
    ASSUME IInv, HandInv, Load \/ Propose \/ UNCHANGED placeVars
    PROVE  HandInv'
<1>1. UNCHANGED <<order, req>>
  BY DEF Load, Propose, placeVars
<1>2. HandIsVerified' /\ InsertsAreNew'
  BY <1>1 DEF HandInv, HandIsVerified, HandPut, Exists, InsertsAreNew, Inserting, NewOrder
<1>3. CASE Load \/ UNCHANGED placeVars
  <2>1. UNCHANGED <<proposal, corrected>>
    BY <1>3 DEF Load, placeVars
  <2>2. QED  BY <1>1, <1>2, <2>1 DEF HandInv, ToWrite, MayWrite, HandPut, Exists
<1>4. CASE Propose
  <2>1. PICK found :
          proposal' = {[order |-> o, at |-> found[o].at, by |-> "AI"] :
                        o \in {x \in Doubtful : found[x].sure}}
    BY <1>4 DEF Propose
  <2>2. \A c \in proposal' : c.by = "AI" /\ c.order \in Doubtful
    BY <2>1
  <2>3. \A o \in Doubtful : ~HandPut(o)'
    BY <1>1 DEF Doubtful, HandInv, HandIsVerified, HandPut, Exists
  <2>4. \A c \in proposal' : MayWrite(c)'
    BY <1>1, <2>2, <2>3 DEF MayWrite, HandPut, Exists
  <2>5. \A r \in Requests : \A c \in ToSet(req[r].todo) : req[r].step # "insert" => c.by # "AI"
    BY <1>4 DEF Propose
  <2>6. ASSUME NEW r \in Requests PROVE ToWrite(req[r].step, req[r].todo)'
    <3>1. ToWrite(req[r].step, req[r].todo)
      BY DEF HandInv
    <3>2. req[r].step \in {"read", "write"} => \A i \in DOMAIN req[r].todo : MayWrite(req[r].todo[i])'
      BY <1>1, <2>5, <3>1 DEF ToSet, ToWrite, MayWrite
    <3>3. req[r].step = "learn" =>
            \A i \in DOMAIN Tail(req[r].todo) : MayWrite(Tail(req[r].todo)[i])'
      BY <1>1, <2>5, <3>1, ElementsAreChanges DEF ToSet, ToWrite, MayWrite
    <3>4. QED  BY <1>1, <3>2, <3>3 DEF ToWrite
  <2>7. QED  BY <1>2, <2>4, <2>6 DEF HandInv
<1>5. QED  BY <1>3, <1>4

LEMMA StepHandInv ==
    ASSUME AddressesAssumption, IInv, HandInv, [PlacesNext]_placeVars
    PROVE  HandInv'
  BY ReadsHandInv, InsertHandInv, WriteHandInv, DeliverHandInv, OthersHandInv DEF PlacesNext

\* A pin that a person put, in the field or on the map, is moved by no batch, no
\* delivery and no new order: only by another person, or by a proposal of the AI
\* that was made before it.
THEOREM CorrectionsOutlastNewProposals ==
    ASSUME AddressesAssumption
    PROVE  PlacesSpec => OnlyOldProposalsMove
<1>1. PlacesInit => IInv /\ HandInv
  BY InitIInv, InitHandInv
<1>2. IInv /\ HandInv /\ [PlacesNext]_placeVars => (IInv /\ HandInv)'
  BY StepIInv, StepHandInv
<1>3. ASSUME IInv, HandInv, [PlacesNext]_placeVars
      PROVE  [\A o \in PlacedOrders : Moved(o) => o \in corrected]_placeVars
  <2> SUFFICES ASSUME PlacesNext, NEW o \in PlacedOrders, HandPut(o), order'[o].from # "HAND"
               PROVE  o \in corrected
    BY <1>3 DEF Moved, HandPut
  <2>1. ASSUME UNCHANGED order PROVE FALSE
    BY <2>1 DEF HandPut
  <2>2. ASSUME NEW r \in Requests, Insert(r) PROVE FALSE
    <3>1. order' = [order EXCEPT ![NewOrder(r)] = Head(req[r].todo).row] /\ Inserting(r)
      BY <2>2 DEF Insert, NewOrder, Inserting
    <3>2. NewOrder(r) # o
      BY <1>3, <3>1 DEF HandInv, InsertsAreNew, HandPut
    <3>3. order'[o] = order[o]
      BY <1>3, <3>1, <3>2 DEF IInv, RowsOK
    <3>4. QED  BY <3>3 DEF HandPut
  <2>3. ASSUME NEW r \in Requests, Write(r) PROVE o \in corrected
    <3>1. PICK c \in SoundChange, w \in Rows :
            /\ MayWrite(c) /\ order' = [order EXCEPT ![c.order] = w]
            /\ w.from = "HAND" <=> c.by = "HAND" \/ (c.by = "BATCH" /\ order[c.order].from = "HAND")
      BY <1>3, <2>3, WriteFacts
    <3>2. order'[o] = IF o = c.order THEN w ELSE order[o]
      BY <1>3, <3>1 DEF IInv, RowsOK
    <3>3. o = c.order /\ c.by \notin {"HAND", "BATCH"}
      BY <3>1, <3>2 DEF HandPut
    <3>4. c.by = "AI"
      BY <3>1, <3>3 DEF SoundChange, Changes, MayWrite
    <3>5. QED  BY <3>1, <3>3, <3>4 DEF MayWrite
  <2>4. ASSUME NEW r \in Requests, NEW p \in PlacedOrders, Deliver(r, p) PROVE FALSE
    <3>1. order' = [order EXCEPT ![p].status = "closed"]
      BY <2>4 DEF Deliver
    <3>2. order[o] \in Rows
      BY <1>3 DEF IInv, RowsOK, HandPut, Exists
    <3>3. order'[o].from = order[o].from
      BY <1>3, <3>1, <3>2 DEF IInv, RowsOK, Rows
    <3>4. QED  BY <3>3 DEF HandPut
  <2>5. \/ UNCHANGED order
        \/ \E r \in Requests : Insert(r) \/ Write(r) \/ \E p \in PlacedOrders : Deliver(r, p)
    BY DEF PlacesNext, CreateRead, Patch, DriverFix, ConfirmRead, Apply, LoadToApply, Learn, Abort,
           Load, Propose
  <2>6. QED  BY <2>1, <2>2, <2>3, <2>4, <2>5
<1>4. QED  BY <1>1, <1>2, <1>3, PTL DEF PlacesSpec, OnlyOldProposalsMove
=============================================================================
