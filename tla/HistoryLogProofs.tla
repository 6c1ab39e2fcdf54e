-------------------------- MODULE HistoryLogProofs --------------------------
(***************************************************************************)
(* Proofs about HistoryLog, for every set of workflows, writers and        *)
(* events and every bound.                                                 *)
(***************************************************************************)
EXTENDS HistoryLog, SequenceTheorems, TLAPS

\* The stamped batch of a Save: its length and its messages.
LEMMA StampProperties ==
  ASSUME NEW w \in Workflow, NEW v \in Nat, NEW evs \in Seq(Event)
  PROVE  /\ Stamp(w, v, evs) \in Seq(Message)
         /\ Len(Stamp(w, v, evs)) = Len(evs)
         /\ \A i \in 1..Len(evs) :
              Stamp(w, v, evs)[i] = [wf |-> w, ver |-> v + i, ev |-> evs[i]]
  BY DEF Stamp, Message

\* The batches of Next are sequences of events.
LEMMA BatchIsSeq ==
  ASSUME NEW evs \in Batch PROVE evs \in Seq(Event) /\ Len(evs) \in Nat
<1>1. PICK n \in 1..MaxBatch : evs \in [1..n -> Event]
  BY DEF Batch
<1>2. n \in Nat
  BY LogAssumption
<1> QED
  BY <1>1, <1>2

(***************************************************************************)
(* The heart of the argument.  If the JetStream server accepts a Save then *)
(* version, position read and last sequence on the subject coincide, and   *)
(* the messages up to there all belong to this workflow.                   *)
(***************************************************************************)
LEMMA AcceptedIsComplete ==
  ASSUME IInv, NEW s \in open, LastSeqIs(s.wf, s.version)
  PROVE  /\ s.version = s.pos
         /\ s.pos \in DOMAIN stream
         /\ \A j \in 1..s.pos : stream[j].wf = s.wf
         /\ \A j \in DOMAIN stream : stream[j].wf = s.wf => j <= s.pos
<1>1. /\ s.pos \in DOMAIN stream
      /\ stream[s.pos].wf = s.wf
      /\ s.version = stream[s.pos].ver
  BY DEF IInv, SessionsMatchStream
<1>2. s.version \in 1..s.pos
  BY <1>1 DEF IInv, VersionBehindSequence
<1>3. s.pos <= s.version
  BY <1>1 DEF LastSeqIs
<1>4. s.pos \in Nat /\ s.version \in Nat
  BY <1>1, <1>2 DEF IInv, TypeOK, Session
<1>5. s.version = s.pos
  BY <1>2, <1>3, <1>4
<1> QED
  BY <1>1, <1>5 DEF IInv, VersionBehindSequence, LastSeqIs

\* The empty stream satisfies the invariant.
LEMMA InitIInv == Init => IInv
  BY DEF Init, IInv, TypeOK, VersionsContiguous, VersionBehindSequence,
         OnlyFirstWorkflowAdvances, SessionsMatchStream

\* The steps that leave the stream alone keep IInv if the sessions stay matched.
LEMMA QuietStep ==
  ASSUME IInv, UNCHANGED stream, subjects' \subseteq Workflow,
         open' \subseteq Session, SessionsMatchStream'
  PROVE  IInv'
  BY DEF IInv, TypeOK, VersionsContiguous, VersionBehindSequence,
         OnlyFirstWorkflowAdvances, Precedes

\* A session keeps its position when the stream is extended.
LEMMA ExtendKeepsSessions ==
  ASSUME IInv, open' \subseteq open, stream' \in Seq(Message),
         Len(stream) <= Len(stream'),
         \A i \in DOMAIN stream : stream'[i] = stream[i]
  PROVE  SessionsMatchStream'
<1>1. DOMAIN stream \subseteq DOMAIN stream'
  BY DEF IInv, TypeOK
<1> QED
  BY <1>1 DEF IInv, SessionsMatchStream

\* The version of a stored event stays right when the stream is extended.
LEMMA ExtendKeepsVersions ==
  ASSUME IInv, stream' \in Seq(Message), Len(stream) <= Len(stream'),
         \A i \in DOMAIN stream : stream'[i] = stream[i],
         NEW i \in DOMAIN stream
  PROVE  \/ stream'[i].ver = 1 /\ \A j \in 1..(i - 1) : stream'[j].wf # stream'[i].wf
         \/ \E j \in DOMAIN stream' : Precedes(j, i)' /\ stream'[i].ver = stream'[j].ver + 1
<1>1. /\ DOMAIN stream = 1..Len(stream) /\ Len(stream) \in Nat
      /\ DOMAIN stream' = 1..Len(stream') /\ Len(stream') \in Nat
  BY DEF IInv, TypeOK
<1>2. CASE stream[i].ver = 1 /\ \A j \in 1..(i - 1) : stream[j].wf # stream[i].wf
  BY <1>1, <1>2
<1>3. CASE \E j \in DOMAIN stream : Precedes(j, i) /\ stream[i].ver = stream[j].ver + 1
  <2>1. PICK j \in DOMAIN stream : Precedes(j, i) /\ stream[i].ver = stream[j].ver + 1
    BY <1>3
  <2>2. \A k \in (j + 1)..(i - 1) : stream'[k] = stream[k]
    BY <1>1
  <2>3. Precedes(j, i)'
    BY <2>1, <2>2 DEF Precedes
  <2>4. j \in DOMAIN stream'
    BY <1>1
  <2> QED
    BY <2>1, <2>3, <2>4
<1> QED
  BY <1>2, <1>3 DEF IInv, VersionsContiguous

\* The command handler's publish of WorkflowStarted.
LEMMA StartStep ==
  ASSUME IInv, NEW w \in Workflow, NEW e \in Event, Start(w, e)
  PROVE  IInv'
<1> DEFINE n == Len(stream) + 1
<1>1. /\ n \in Nat \ {0}
      /\ stream \in Seq(Message) /\ DOMAIN stream = 1..(n - 1)
      /\ stream' \in Seq(Message) /\ DOMAIN stream' = 1..n /\ Len(stream') = n
      /\ \A i \in 1..(n - 1) : stream'[i] = stream[i]
      /\ stream'[n] = [wf |-> w, ver |-> 1, ev |-> e]
  BY DEF Start, IInv, TypeOK, Message
<1>2. \A j \in 1..(n - 1) : stream[j].wf # w
  <2>1. \A j \in DOMAIN stream : stream[j].wf = w => j <= 0
    BY DEF Start, LastSeqIs
  <2> QED
    BY <1>1, <2>1
<1> HIDE DEF n
<1>3. TypeOK'
  BY <1>1 DEF Start, IInv, TypeOK
<1>4. VersionsContiguous'
  <2> SUFFICES ASSUME NEW i \in DOMAIN stream'
               PROVE  \/ stream'[i].ver = 1 /\ \A j \in 1..(i - 1) : stream'[j].wf # stream'[i].wf
                      \/ \E j \in DOMAIN stream' : Precedes(j, i)' /\ stream'[i].ver = stream'[j].ver + 1
    BY DEF VersionsContiguous
  <2>1. CASE i = n
    BY <2>1, <1>1, <1>2
  <2>2. CASE i \in 1..(n - 1)
    <3>1. Len(stream) <= Len(stream')
      BY <1>1 DEF n
    <3> QED
      BY <2>2, <3>1, <1>1, ExtendKeepsVersions
  <2> QED
    BY <2>1, <2>2, <1>1
<1>5. VersionBehindSequence'
  <2> SUFFICES ASSUME NEW i \in 1..n
               PROVE  /\ stream'[i].ver \in 1..i
                      /\ stream'[i].ver = i => \A j \in 1..i : stream'[j].wf = stream'[i].wf
    BY <1>1 DEF VersionBehindSequence
  <2>1. CASE i = n
    BY <2>1, <1>1
  <2>2. CASE i \in 1..(n - 1)
    BY <2>2, <1>1 DEF IInv, VersionBehindSequence
  <2> QED
    BY <2>1, <2>2, <1>1
<1>6. OnlyFirstWorkflowAdvances'
  BY <1>1 DEF IInv, OnlyFirstWorkflowAdvances
<1>7. SessionsMatchStream'
  BY <1>1, ExtendKeepsSessions DEF Start
<1> QED
  BY <1>3, <1>4, <1>5, <1>6, <1>7 DEF IInv

\* A Save that the server accepts, acknowledged or not.
LEMMA StoreStep ==
  ASSUME IInv, NEW s \in open, NEW evs \in Batch, Store(s, evs), open' \subseteq open
  PROVE  IInv'
<1> DEFINE n == Len(stream)
           m == Len(evs)
<1>0. evs \in Seq(Event) /\ m \in Nat
  BY BatchIsSeq
<1>1. s \in Session /\ s.wf \in Workflow /\ s.version \in Nat
  BY DEF IInv, TypeOK, Session
<1>2. /\ n \in Nat
      /\ stream \in Seq(Message) /\ DOMAIN stream = 1..n
      /\ stream' \in Seq(Message) /\ DOMAIN stream' = 1..(n + m)
      /\ Len(stream') = n + m
      /\ \A i \in 1..n : stream'[i] = stream[i]
      /\ \A i \in 1..m :
           stream'[n + i] = [wf |-> s.wf, ver |-> s.version + i, ev |-> evs[i]]
  <2>1. stream \in Seq(Message) /\ n \in Nat /\ DOMAIN stream = 1..n
    BY DEF IInv, TypeOK
  <2>2. stream' = stream \o Stamp(s.wf, s.version, evs)
    BY DEF Store
  <2> DEFINE b == Stamp(s.wf, s.version, evs)
  <2>3. /\ b \in Seq(Message) /\ Len(b) = m
        /\ \A i \in 1..m : b[i] = [wf |-> s.wf, ver |-> s.version + i, ev |-> evs[i]]
    BY <1>0, <1>1, StampProperties
  <2> HIDE DEF b
  <2>4. stream' = stream \o b
    BY <2>2 DEF b
  <2>5. stream' \in Seq(Message) /\ Len(stream') = n + m
    <3>1. b \in Seq(Message) /\ stream \in Seq(Message)
      BY <2>1, <2>3
    <3>2. stream \o b \in Seq(Message) /\ Len(stream \o b) = Len(stream) + Len(b)
      BY <3>1, ConcatProperties, Zenon
    <3> QED
      BY <3>2, <2>3, <2>4
  <2>6. \A i \in 1..n : stream'[i] = stream[i]
    BY <1>0, <2>1, <2>3, <2>4
  <2>7. \A i \in 1..m : stream'[n + i] = b[i]
    BY <1>0, <2>1, <2>3, <2>4
  <2> QED
    BY <2>1, <2>3, <2>5, <2>6, <2>7
<1>3. /\ s.version = s.pos
      /\ s.pos \in 1..n
      /\ \A j \in 1..s.pos : stream[j].wf = s.wf
      /\ \A j \in 1..n : stream[j].wf = s.wf => j <= s.pos
  BY <1>2, AcceptedIsComplete DEF Store, Accepts
<1>4. stream[s.pos].ver = s.version
  BY DEF IInv, SessionsMatchStream
<1>5. \A i \in (n + 1)..(n + m) :
        /\ stream'[i].wf = s.wf
        /\ stream'[i].ver = s.version + (i - n)
  <2> SUFFICES ASSUME NEW i \in (n + 1)..(n + m)
               PROVE  stream'[i].wf = s.wf /\ stream'[i].ver = s.version + (i - n)
    OBVIOUS
  <2> DEFINE k == i - n
  <2>1. k \in 1..m /\ n + k = i
    BY <1>0, <1>2
  <2>2. stream'[n + k] = [wf |-> s.wf, ver |-> s.version + k, ev |-> evs[k]]
    BY <2>1, <1>2
  <2> QED
    BY <2>1, <2>2
<1> HIDE DEF n, m
<1>6. TypeOK'
  BY <1>2 DEF Store, IInv, TypeOK
<1>7. VersionsContiguous'
  <2> SUFFICES ASSUME NEW i \in 1..(n + m)
               PROVE  \/ stream'[i].ver = 1 /\ \A j \in 1..(i - 1) : stream'[j].wf # stream'[i].wf
                      \/ \E j \in 1..(n + m) : Precedes(j, i)' /\ stream'[i].ver = stream'[j].ver + 1
    BY <1>2 DEF VersionsContiguous
  <2>1. CASE i \in 1..n
    <3>1. Len(stream) <= Len(stream')
      BY <1>0, <1>2 DEF n
    <3> QED
      BY <2>1, <3>1, <1>2, ExtendKeepsVersions
  <2>2. CASE i = n + 1
    <3>1. Precedes(s.pos, i)'
      <4>1. s.pos < i /\ i \in (n + 1)..(n + m) /\ stream'[i].wf = s.wf
        <5>1. n \in Nat /\ m \in Nat /\ s.pos \in 1..n
          BY <1>0, <1>2, <1>3
        <5>2. s.pos < i /\ i \in (n + 1)..(n + m)
          BY <5>1, <2>2
        <5> QED
          BY <5>2, <1>5
      <4>2. stream'[s.pos].wf = s.wf
        BY <1>2, <1>3
      <4>3. ASSUME NEW j \in (s.pos + 1)..(i - 1) PROVE stream'[j].wf # s.wf
        <5>1. j \in 1..n /\ ~(j <= s.pos)
          BY <2>2, <1>2, <1>3
        <5> QED
          BY <5>1, <1>2, <1>3
      <4> QED
        BY <4>1, <4>2, <4>3 DEF Precedes
    <3> QED
      BY <3>1, <2>2, <1>0, <1>2, <1>3, <1>4, <1>5
  <2>3. CASE i \in (n + 2)..(n + m)
    <3>1. i - 1 \in (n + 1)..(n + m)
      BY <2>3, <1>0, <1>2
    <3>2. Precedes(i - 1, i)'
      BY <3>1, <2>3, <1>0, <1>2, <1>5 DEF Precedes
    <3>3. stream'[i].ver = stream'[i - 1].ver + 1
      <4>1. stream'[i].ver = s.version + (i - n)
        <5>1. i \in (n + 1)..(n + m)
          BY <2>3, <1>0, <1>2
        <5> QED
          BY <5>1, <1>5
      <4>2. stream'[i - 1].ver = s.version + ((i - 1) - n)
        BY <3>1, <1>5
      <4> QED
        BY <4>1, <4>2, <2>3, <1>0, <1>1, <1>2
    <3> QED
      BY <3>1, <3>2, <3>3, <1>0, <1>2
  <2> QED
    BY <2>1, <2>2, <2>3, <1>0, <1>2
<1>8. VersionBehindSequence'
  <2> SUFFICES ASSUME NEW i \in 1..(n + m)
               PROVE  /\ stream'[i].ver \in 1..i
                      /\ stream'[i].ver = i => \A j \in 1..i : stream'[j].wf = stream'[i].wf
    BY <1>2 DEF VersionBehindSequence
  <2>1. CASE i \in 1..n
    <3>1. /\ stream[i].ver \in 1..i
          /\ stream[i].ver = i => \A j \in 1..i : stream[j].wf = stream[i].wf
      BY <2>1, <1>2 DEF IInv, VersionBehindSequence
    <3>2. \A j \in 1..i : j \in 1..n
      BY <2>1, <1>2
    <3>3. \A j \in 1..i : stream'[j] = stream[j]
      BY <3>2, <1>2
    <3> QED
      BY <3>1, <3>3, <2>1, <1>2
  <2>2. CASE i \in (n + 1)..(n + m)
    <3>1. stream'[i].wf = s.wf /\ stream'[i].ver = s.pos + (i - n)
      BY <2>2, <1>3, <1>5
    <3>2. stream'[i].ver \in 1..i
      BY <3>1, <2>2, <1>0, <1>2, <1>3
    <3>3. ASSUME stream'[i].ver = i, NEW j \in 1..i
          PROVE  stream'[j].wf = stream'[i].wf
      <4>1. s.pos = n
        BY <3>1, <3>3, <2>2, <1>0, <1>2, <1>3
      <4>2. CASE j \in 1..n
        BY <4>1, <4>2, <3>1, <1>2, <1>3
      <4>3. CASE j \in (n + 1)..(n + m)
        BY <4>3, <3>1, <1>5
      <4> QED
        BY <4>2, <4>3, <2>2, <1>0, <1>2
    <3> QED
      BY <3>2, <3>3
  <2> QED
    BY <2>1, <2>2, <1>0, <1>2
<1>9. OnlyFirstWorkflowAdvances'
  <2> SUFFICES ASSUME NEW i \in 1..(n + m), stream'[i].ver > 1
               PROVE  stream'[i].wf = stream'[1].wf
    BY <1>2 DEF OnlyFirstWorkflowAdvances
  <2>1. 1 \in 1..n /\ stream'[1].wf = s.wf
    BY <1>2, <1>3
  <2>2. CASE i \in 1..n
    BY <2>1, <2>2, <1>2 DEF IInv, OnlyFirstWorkflowAdvances
  <2>3. CASE i \in (n + 1)..(n + m)
    BY <2>1, <2>3, <1>5
  <2> QED
    BY <2>2, <2>3, <1>0, <1>2
<1>10. SessionsMatchStream'
  BY <1>0, <1>2, ExtendKeepsSessions DEF n
<1> QED
  BY <1>6, <1>7, <1>8, <1>9, <1>10 DEF IInv

\* Every step of the log keeps the invariant.
LEMMA NextIInv == IInv /\ [Next]_vars => IInv'
<1> SUFFICES ASSUME IInv, [Next]_vars PROVE IInv'
  OBVIOUS
<1> USE DEF IInv, TypeOK
<1>1. CASE UNCHANGED vars
  BY <1>1 DEF vars, VersionsContiguous, VersionBehindSequence, Precedes,
              OnlyFirstWorkflowAdvances, SessionsMatchStream
<1>2. ASSUME NEW w \in Workflow, NEW e \in Event, Start(w, e) PROVE IInv'
  BY <1>2, StartStep
<1>3. CASE EnsureStreams
  BY <1>3, QuietStep DEF EnsureStreams, SessionsMatchStream
<1>4. ASSUME NEW x \in Writer, NEW w \in Workflow, NEW n \in DOMAIN stream, Get(x, w, n)
      PROVE  IInv'
  <2>1. n \in Nat /\ stream[n] \in Message
    OBVIOUS
  <2>2. open' \subseteq Session
    <3>1. [by |-> x, wf |-> w, pos |-> n, version |-> stream[n].ver, ensured |-> FALSE]
            \in Session
      BY <2>1 DEF Session, Message
    <3> QED
      BY <1>4, <3>1 DEF Get
  <2>3. SessionsMatchStream'
    BY <1>4 DEF Get, SessionsMatchStream
  <2> QED
    BY <1>4, <2>2, <2>3, QuietStep DEF Get
<1>5. ASSUME NEW s \in open, EnsureStream(s) PROVE IInv'
  <2>1. s \in Session
    OBVIOUS
  <2>2. open' \subseteq Session /\ subjects' \subseteq Workflow
    BY <1>5, <2>1 DEF EnsureStream, Session
  <2>3. SessionsMatchStream'
    BY <1>5, <2>1 DEF EnsureStream, SessionsMatchStream, Session
  <2> QED
    BY <1>5, <2>2, <2>3, QuietStep DEF EnsureStream
<1>6. ASSUME NEW s \in open, NEW evs \in Batch, Publish(s, evs) \/ PublishUnacked(s, evs)
      PROVE  IInv'
  BY <1>6, StoreStep DEF Publish, PublishUnacked
<1>7. ASSUME NEW s \in open, PublishRefused(s) \/ Close(s) PROVE IInv'
  BY <1>7, QuietStep DEF PublishRefused, Close, SessionsMatchStream
<1>8. ASSUME NEW h \in Host, Exit(h) PROVE IInv'
  BY <1>8, QuietStep DEF Exit, SessionsMatchStream
<1> QED
  BY <1>1, <1>2, <1>3, <1>4, <1>5, <1>6, <1>7, <1>8 DEF Next

(***************************************************************************)
(* The stream, its subjects and the loaded aggregates keep their types.    *)
(***************************************************************************)
THEOREM TypeCorrect == Spec => []TypeOK
<1>1. IInv => TypeOK
  BY DEF IInv
<1> QED
  BY <1>1, InitIInv, NextIInv, PTL DEF Spec

(***************************************************************************)
(* Versions count up without gap or repetition, for any number of workers  *)
(* and workflows: the optimistic check of appendSingleEvent and            *)
(* publishBatch never lets two Saves claim one version.                    *)
(***************************************************************************)
THEOREM VersionsAreContiguous == Spec => []VersionsContiguous
<1>1. IInv => VersionsContiguous
  BY DEF IInv
<1> QED
  BY <1>1, InitIInv, NextIInv, PTL DEF Spec

(***************************************************************************)
(* Every workflow but the one whose WorkflowStarted is message 1 of the    *)
(* shared stream stays at version 1.                                       *)
(***************************************************************************)
THEOREM FirstWorkflowOnly == Spec => []OnlyFirstWorkflowAdvances
<1>1. IInv => OnlyFirstWorkflowAdvances
  BY DEF IInv
<1> QED
  BY <1>1, InitIInv, NextIInv, PTL DEF Spec

(***************************************************************************)
(* A Save appends only what was decided on the complete history.           *)
(***************************************************************************)
THEOREM NoLostUpdate == Spec => SavesCompleteReads
<1> DEFINE k == Len(stream) + 1
           Complete(s) == /\ LastSeqIs(s.wf, s.pos)
                          /\ stream'[k].wf = s.wf
                          /\ stream'[k].ver = stream[s.pos].ver + 1
           A == (stream' # stream /\ stream'[k].ver > 1) =>
                  \E s \in open \ open' : Complete(s)
<1>1. IInv /\ [Next]_vars => [A]_vars
  <2> SUFFICES ASSUME IInv, Next, stream' # stream, stream'[k].ver > 1
               PROVE  \E s \in open \ open' : Complete(s)
    OBVIOUS
  <2>1. ASSUME NEW w \in Workflow, NEW e \in Event, Start(w, e) PROVE FALSE
    <3>1. stream \in Seq(Message)
      BY DEF IInv, TypeOK
    <3>2. stream'[k].ver = 1
      BY <2>1, <3>1 DEF Start
    <3> QED
      BY <3>2
  <2>2. PICK s \in open, evs \in Batch : Store(s, evs) /\ s \notin open'
    BY <2>1 DEF Next, EnsureStreams, Get, EnsureStream, PublishRefused, Close, Exit,
                Publish, PublishUnacked, Of
  <2>3. LastSeqIs(s.wf, s.version)
    BY <2>2 DEF Store, Accepts
  <2>4. s.version = s.pos /\ s.pos \in DOMAIN stream /\ LastSeqIs(s.wf, s.pos)
    BY <2>3, AcceptedIsComplete
  <2>5. s.version = stream[s.pos].ver
    BY DEF IInv, SessionsMatchStream
  <2>6. stream'[k].wf = s.wf /\ stream'[k].ver = s.version + 1
    <3> DEFINE b == Stamp(s.wf, s.version, evs)
    <3>1. evs \in Seq(Event) /\ Len(evs) \in Nat
      BY BatchIsSeq
    <3>2. s.wf \in Workflow /\ s.version \in Nat /\ stream \in Seq(Message)
      BY DEF IInv, TypeOK, Session
    <3>3. /\ b \in Seq(Message) /\ Len(b) = Len(evs)
          /\ \A i \in 1..Len(evs) : b[i] = [wf |-> s.wf, ver |-> s.version + i, ev |-> evs[i]]
      BY <3>1, <3>2, StampProperties
    <3> HIDE DEF b
    <3>4. stream' = stream \o b
      BY <2>2 DEF Store, b
    <3>5. Len(evs) > 0
      <4>1. SUFFICES ASSUME Len(evs) = 0 PROVE FALSE
        BY <3>1
      <4>2. b = <<>>
        BY <3>3, <4>1
      <4> QED
        BY <3>2, <3>4, <4>2
    <3>6. stream'[k] = b[1]
      BY <3>1, <3>2, <3>3, <3>4, <3>5
    <3>7. b[1] = [wf |-> s.wf, ver |-> s.version + 1, ev |-> evs[1]]
      BY <3>1, <3>3, <3>5
    <3> QED
      BY <3>6, <3>7
  <2> QED
    BY <2>2, <2>4, <2>5, <2>6
<1> QED
  BY <1>1, InitIInv, NextIInv, PTL DEF Spec, SavesCompleteReads
=============================================================================
