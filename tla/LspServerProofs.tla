-------------------------- MODULE LspServerProofs --------------------------
(***************************************************************************)
(* Proofs about LspServer, for every set of documents, files and edits,    *)
(* and pipes of every size.                                                *)
(***************************************************************************)
EXTENDS LspServer, SetInduction, FiniteSetTheorems, TLAPS

(***************************************************************************)
(* Edits make texts of texts.                                              *)
(***************************************************************************)
LEMMA SpliceTyped ==
  ASSUME NEW text \in Text, NEW change \in Change,
         change.range # None => change.range[1] <= change.range[2]
  PROVE  Splice(text, change) \in Text
<1>1. CASE change.range = None
  BY <1>1 DEF Splice, Change
<1>2. CASE change.range # None
  <2> DEFINE cut(n) == IF n < Len(text) THEN n ELSE Len(text)
  <2>1. change.range \in Nat \X Nat /\ change.text \in Seq(Char) /\ text \in Seq(Char)
    BY <1>2 DEF Change, Text
  <2>2. /\ cut(change.range[1]) \in 0..Len(text) /\ cut(change.range[2]) \in 0..Len(text)
        /\ Len(text) \in Nat
    BY <2>1
  <2> HIDE DEF cut
  <2>3. SubSeq(text, 1, cut(change.range[1])) \in Seq(Char)
    BY <2>1, <2>2
  <2>4. SubSeq(text, cut(change.range[2]) + 1, Len(text)) \in Seq(Char)
    BY <2>1, <2>2
  <2>5. Splice(text, change) = SubSeq(text, 1, cut(change.range[1])) \o change.text
                                 \o SubSeq(text, cut(change.range[2]) + 1, Len(text))
    BY <1>2 DEF Splice, cut
  <2>6. QED
    BY <2>1, <2>3, <2>4, <2>5 DEF Text
<1>3. QED
  BY <1>1, <1>2

\* The texts after the first n changes.
IsEditing(f, n, text, changes) ==
  f = [i \in 0..n |-> IF i = 0 THEN text ELSE Splice(f[i - 1], changes[i])]

LEMMA EditingExists ==
  ASSUME NEW text, NEW changes \in Edits
  PROVE  \E f : IsEditing(f, Len(changes), text, changes)
<1> DEFINE S == {n \in Nat : \E f : IsEditing(f, n, text, changes)}
<1>1. Len(changes) \in Nat
  BY EditsAssumption
<1>2. 0 \in S
  <2>1. IsEditing([i \in 0..0 |-> text], 0, text, changes)
    BY DEF IsEditing
  <2>2. QED
    BY <2>1
<1>3. ASSUME NEW n \in Nat, n \in S PROVE n + 1 \in S
  <2>1. PICK f : IsEditing(f, n, text, changes)
    BY <1>3
  <2> DEFINE g == [i \in 0..(n + 1) |-> IF i = n + 1 THEN Splice(f[n], changes[n + 1]) ELSE f[i]]
  <2>2. \A i \in 0..n : g[i] = f[i]
    BY <1>3
  <2>3. \A i \in 0..(n + 1) : g[i] = IF i = 0 THEN text ELSE Splice(g[i - 1], changes[i])
    <3>1. TAKE i \in 0..(n + 1)
    <3>2. CASE i = n + 1
      <4>1. i # 0 /\ i - 1 = n /\ n \in 0..n
        BY <3>2
      <4>2. QED
        BY <2>2, <3>2, <4>1
    <3>3. CASE i \in 1..n
      <4>1. i - 1 \in 0..n /\ i # n + 1
        BY <3>3
      <4>2. QED
        BY <2>1, <2>2, <3>3, <4>1 DEF IsEditing
    <3>4. CASE i = 0
      BY <2>1, <3>4 DEF IsEditing
    <3>5. QED
      BY <3>2, <3>3, <3>4
  <2>4. IsEditing(g, n + 1, text, changes)
    BY <2>3 DEF IsEditing
  <2>5. QED
    BY <2>4
<1> HIDE DEF S
<1>4. \A i \in 0..Len(changes) : i \in S
  <2>1. \A i \in 0..(Len(changes) - 1) : i \in S => i + 1 \in S
    BY <1>1, <1>3
  <2>2. QED
    BY <1>1, <1>2, <2>1, Induction
<1>5. QED
  BY <1>1, <1>4 DEF S

LEMMA EditedIs ==
  ASSUME NEW text, NEW changes \in Edits
  PROVE  \E f : IsEditing(f, Len(changes), text, changes) /\ Edited(text, changes) = f[Len(changes)]
<1> DEFINE P(f) == f = [i \in 0..Len(changes) |-> IF i = 0 THEN text ELSE Splice(f[i - 1], changes[i])]
<1>1. PICK f : P(f)
  <2>1. PICK g : IsEditing(g, Len(changes), text, changes)
    BY EditingExists
  <2>2. P(g)
    BY <2>1 DEF IsEditing
  <2>3. QED
    BY <2>2, Zenon
<1>2. P(CHOOSE g : P(g))
  BY <1>1, Zenon
<1>3. Edited(text, changes) = (CHOOSE g : P(g))[Len(changes)]
  BY Zenon DEF Edited
<1>4. QED
  BY <1>2, <1>3 DEF IsEditing

LEMMA EditedTyped ==
  ASSUME NEW text \in Text, NEW changes \in Edits PROVE Edited(text, changes) \in Text
<1>1. PICK f : IsEditing(f, Len(changes), text, changes) /\ Edited(text, changes) = f[Len(changes)]
  BY EditedIs
<1>2. changes \in Seq(Change) /\ Len(changes) \in Nat
  BY EditsAssumption
<1> DEFINE S == {i \in Nat : f[i] \in Text}
<1>3. 0 \in S
  BY <1>1, <1>2 DEF IsEditing
<1>4. ASSUME NEW i \in 0..(Len(changes) - 1), i \in S PROVE i + 1 \in S
  <2>1. i + 1 \in 1..Len(changes) /\ (i + 1) - 1 = i
    BY <1>2
  <2>2. changes[i + 1] \in Change
    BY <1>2, <2>1
  <2>3. changes[i + 1].range # None => changes[i + 1].range[1] <= changes[i + 1].range[2]
    BY <1>2, <2>1, EditsAssumption
  <2>4. f[i + 1] = Splice(f[i], changes[i + 1])
    BY <1>1, <1>2, <2>1 DEF IsEditing
  <2>5. QED
    BY <1>4, <2>2, <2>3, <2>4, SpliceTyped
<1> HIDE DEF S
<1>5. \A i \in 0..Len(changes) : i \in S
  BY <1>2, <1>3, <1>4, Induction
<1>6. QED
  BY <1>1, <1>2, <1>5 DEF S

\* The editor means the changes as the server applies them.
LEMMA TypedAsEdited == ASSUME NEW text, NEW changes PROVE Typed(text, changes) = Edited(text, changes)
BY DEF Typed, Edited

-----------------------------------------------------------------------------
(***************************************************************************)
(* Types.                                                                  *)
(***************************************************************************)
\* Every step is one of these.
LEMMA StepCases ==
  ASSUME [Next]_vars, NEW G,
         DidOpenOrChange => G, DidClose => G, DidChangeWatchedFiles => G, CancelRequest => G,
         Request => G, Shutdown => G, Exit => G, Compile => G, Send => G,
         (\E d \in Doc : Open(d)) => G, (\E d \in Doc : Close(d)) => G,
         (\E d \in Doc, changes \in Edits : ChangeText(d, changes)) => G,
         (\E f \in File : Write(f)) => G, Watch => G,
         (\E d \in Doc, method \in {"feature", "preview"} : Ask(method, d)) => G,
         (\E id \in pending : CancelAsked(id)) => G, Stop => G, Receive => G,
         UNCHANGED vars => G
  PROVE  G
BY DEF Next, Serve, Edit

\* A sequence of whatever.
Ordered(s) == \E S : s \in Seq(S)

LEMMA Appending ==
  ASSUME NEW s, Ordered(s), NEW m
  PROVE  /\ Ordered(Append(s, m))
         /\ Len(s) \in Nat /\ DOMAIN s = 1..Len(s)
         /\ DOMAIN Append(s, m) = 1..(Len(s) + 1) /\ Len(Append(s, m)) = Len(s) + 1
         /\ \A i \in 1..Len(s) : Append(s, m)[i] = s[i]
         /\ Append(s, m)[Len(s) + 1] = m
<1>1. PICK S : s \in Seq(S)
  BY DEF Ordered
<1>2. s \in Seq(S \cup {m}) /\ m \in S \cup {m}
  BY <1>1
<1>3. Append(s, m) \in Seq(S \cup {m})
  BY <1>2
<1>4. QED
  BY <1>2, <1>3 DEF Ordered

LEMMA Taking ==
  ASSUME NEW s, Ordered(s), s # <<>>
  PROVE  /\ Ordered(Tail(s))
         /\ Len(s) \in Nat /\ Len(s) >= 1 /\ DOMAIN s = 1..Len(s) /\ Head(s) = s[1]
         /\ DOMAIN Tail(s) = 1..(Len(s) - 1) /\ Len(Tail(s)) = Len(s) - 1
         /\ \A i \in 1..(Len(s) - 1) : Tail(s)[i] = s[i + 1]
<1>1. PICK S : s \in Seq(S)
  BY DEF Ordered
<1>2. Tail(s) \in Seq(S) /\ Len(s) \in Nat /\ Len(s) >= 1
  BY <1>1
<1>3. QED
  BY <1>1, <1>2 DEF Ordered

\* The messages to the editor.
IsToEditor(m) ==
  /\ m.method \in {"publishDiagnostics", "response"}
  /\ m.method = "publishDiagnostics" => m.doc \in Doc /\ m.report \in Report(m.doc) \cup {None}
OutboxTyped == Ordered(outbox) /\ \A i \in DOMAIN outbox : IsToEditor(outbox[i])

LEMMA OutboxAppend ==
  ASSUME OutboxTyped, NEW m, IsToEditor(m), outbox' = Append(outbox, m)
  PROVE  OutboxTyped'
<1>1. /\ Ordered(outbox') /\ DOMAIN outbox' = 1..(Len(outbox) + 1) /\ DOMAIN outbox = 1..Len(outbox)
      /\ \A i \in 1..Len(outbox) : outbox'[i] = outbox[i]
      /\ outbox'[Len(outbox) + 1] = m /\ Len(outbox) \in Nat
  BY Appending DEF OutboxTyped
<1>2. ASSUME NEW i \in DOMAIN outbox' PROVE IsToEditor(outbox'[i])
  <2>1. i \in 1..Len(outbox) \/ i = Len(outbox) + 1
    BY <1>1
  <2>2. QED
    BY <1>1, <2>1 DEF OutboxTyped
<1>3. \A i \in DOMAIN outbox' : IsToEditor(outbox[i])'
  BY <1>2 DEF IsToEditor
<1>4. QED
  BY <1>1, <1>3 DEF OutboxTyped, Ordered

LEMMA ResponseTyped == \A id, result : IsToEditor(Response(id, result))
BY DEF IsToEditor, Response

LEMMA MessageTyped ==
  ASSUME TypeOK, inbox # <<>>
  PROVE  /\ Message \in ToServer /\ Tail(inbox) \in Seq(ToServer)
         /\ Message.method \in {"didOpen", "didChange"} => Message.doc \in Doc /\ Message.version \in Nat
         /\ Message.method = "didOpen" => Message.text \in Text
         /\ Message.method = "didChange" => Message.changes \in Edits
         /\ Message.method = "didClose" => Message.doc \in Doc
         /\ Message.method \in {"feature", "preview"} => Message.doc \in Doc /\ Message.id \in Id
         /\ Message.method \in {"$/cancelRequest", "shutdown"} => Message.id \in Id
<1>1. inbox \in Seq(ToServer)
  BY DEF TypeOK
<1>2. Message \in ToServer /\ Tail(inbox) \in Seq(ToServer)
  BY <1>1 DEF Message
<1>3. QED
  BY <1>2 DEF ToServer

LEMMA StoredTyped ==
  ASSUME NEW store \in [Doc -> Buffer \cup {None}], NEW m \in ToServer
  PROVE  Stored(store, m) \in [Doc -> Buffer \cup {None}]
<1>1. CASE m.method = "didOpen"
  BY <1>1 DEF Stored, ToServer, Buffer
<1>2. CASE m.method = "didChange" /\ store[m.doc] # None
  <2>1. m.doc \in Doc /\ m.changes \in Edits /\ m.version \in Nat /\ store[m.doc] \in Buffer
    BY <1>2 DEF ToServer
  <2>2. Edited(store[m.doc].text, m.changes) \in Text
    BY <2>1, EditedTyped DEF Buffer
  <2>3. Stored(store, m) =
          [store EXCEPT ![m.doc] = [text |-> Edited(store[m.doc].text, m.changes), version |-> m.version]]
    BY <1>2 DEF Stored
  <2>4. QED
    BY <2>1, <2>2, <2>3 DEF Buffer
<1>3. CASE m.method = "didClose"
  BY <1>3 DEF Stored, ToServer
<1>4. CASE ~(m.method = "didOpen" \/ m.method = "didClose"
             \/ (m.method = "didChange" /\ store[m.doc] # None))
  BY <1>4 DEF Stored
<1>5. QED
  BY <1>1, <1>2, <1>3, <1>4

LEMMA CompiledTyped ==
  ASSUME TypeOK, NEW d \in Doc, NEW text \in Text PROVE Compiled(d, text) \in Report(d)
<1>1. \A f \in Inputs[d] : disk[f] \in Nat
  BY InputsAssumption, BoundsAssumption DEF TypeOK
<1>2. QED
  BY <1>1 DEF Compiled, Report

LEMMA TaskTyped ==
  ASSUME NEW kind \in {"publish", "preview"}, NEW d \in Doc, NEW id \in Id \cup {None},
         NEW version \in Nat
  PROVE  Task(kind, d, id, version) \in Tasks
BY DEF Task, Tasks

\* What the server has in hand, and what it needs to be in hand.
ServerTyped ==
  /\ documents \in [Doc -> Buffer \cup {None}] /\ cancelled \subseteq Id
  /\ work \in Seq(Tasks)
  /\ compiled # None => work # <<>> /\ compiled \in Report(Head(work).doc)
  /\ shutdownRequested \in BOOLEAN /\ exiting \in BOOLEAN
EditorTyped ==
  /\ buffers \in [Doc -> Buffer \cup {None}]
  /\ disk \in [File -> 0..MaxDiskChanges] /\ unseen \in BOOLEAN
  /\ DOMAIN shown = Doc /\ \A d \in Doc : shown[d] \in Report(d) \cup {None}
  /\ pending \subseteq Id /\ cancelling \subseteq pending
  /\ requests \in Id /\ stopping \in {"no", "shutdown", "exit"}
InboxTyped == inbox \in Seq(ToServer)

LEMMA TypeParts ==
  /\ TypeOK <=> /\ EditorTyped /\ ServerTyped /\ InboxTyped
                /\ \A i \in DOMAIN outbox : IsToEditor(outbox[i])
BY DEF TypeOK, EditorTyped, ServerTyped, InboxTyped, IsToEditor

\* While the server reads a message there is nothing else in its hands.
LEMMA ReadingTyped ==
  ASSUME TypeOK, NEW methods, Reads(methods), Consume
  PROVE  /\ EditorTyped' /\ InboxTyped' /\ inbox # <<>> /\ Message.method \in methods
         /\ work = <<>> /\ compiled = None
<1>1. inbox # <<>> /\ Message.method \in methods /\ work = <<>> /\ UNCHANGED editor
  BY DEF Reads, Consume, Idle, Message
<1>2. inbox' \in Seq(ToServer)
  BY <1>1, MessageTyped DEF Consume
<1>3. EditorTyped'
  BY <1>1, TypeParts DEF EditorTyped, editor
<1>4. compiled = None
  BY <1>1 DEF TypeOK
<1>5. QED
  BY <1>1, <1>2, <1>3, <1>4 DEF InboxTyped

LEMMA ServeTyped ==
  ASSUME TypeOK, OutboxTyped,
         \/ DidOpenOrChange \/ DidClose \/ DidChangeWatchedFiles \/ CancelRequest
         \/ Request \/ Shutdown \/ Exit
  PROVE  TypeOK' /\ OutboxTyped'
<1> DEFINE G == EditorTyped' /\ InboxTyped' /\ ServerTyped' /\ OutboxTyped'
<1> SUFFICES G
  BY TypeParts DEF OutboxTyped, TypeOK, EditorTyped, ServerTyped, InboxTyped, IsToEditor
<1>1. CASE DidOpenOrChange
  <2>1. /\ EditorTyped' /\ InboxTyped' /\ inbox # <<>> /\ work = <<>> /\ compiled = None
        /\ Message.method \in {"didOpen", "didChange"}
    BY <1>1, ReadingTyped DEF DidOpenOrChange
  <2>2. Message \in ToServer /\ Message.doc \in Doc /\ Message.version \in Nat
    BY <2>1, MessageTyped
  <2>3. documents' \in [Doc -> Buffer \cup {None}]
    BY <1>1, <2>2, StoredTyped DEF DidOpenOrChange, TypeOK
  <2>4. work' \in Seq(Tasks)
    <3>1. Task("publish", Message.doc, None, Message.version) \in Tasks
      BY <2>2, TaskTyped
    <3>2. <<>> \in Seq(Tasks) /\ <<Task("publish", Message.doc, None, Message.version)>> \in Seq(Tasks)
      BY <3>1
    <3>3. QED
      BY <1>1, <3>2 DEF DidOpenOrChange
  <2>5. UNCHANGED <<outbox, cancelled, compiled, shutdownRequested, exiting>>
    BY <1>1 DEF DidOpenOrChange
  <2>6. ServerTyped'
    BY <2>1, <2>3, <2>4, <2>5 DEF TypeOK, ServerTyped
  <2>7. OutboxTyped'
    BY <2>5 DEF OutboxTyped, IsToEditor, Ordered
  <2>8. QED
    BY <2>1, <2>6, <2>7
<1>2. CASE DidClose
  <2>1. /\ EditorTyped' /\ InboxTyped' /\ inbox # <<>> /\ work = <<>> /\ compiled = None
        /\ Message.method \in {"didClose"}
    BY <1>2, ReadingTyped DEF DidClose
  <2>2. Message \in ToServer /\ Message.doc \in Doc
    BY <2>1, MessageTyped
  <2>3. documents' \in [Doc -> Buffer \cup {None}]
    BY <1>2, <2>2, StoredTyped DEF DidClose, TypeOK
  <2>4. OutboxTyped'
    <3>1. IsToEditor(Publication(Message.doc, None, None))
      BY <2>2 DEF IsToEditor, Publication
    <3>2. QED
      BY <1>2, <3>1, OutboxAppend DEF DidClose
  <2>5. ServerTyped'
    BY <1>2, <2>3 DEF DidClose, TypeOK, ServerTyped
  <2>6. QED
    BY <2>1, <2>4, <2>5
<1>3. CASE DidChangeWatchedFiles
  <2>1. /\ EditorTyped' /\ InboxTyped' /\ work = <<>> /\ compiled = None
    BY <1>3, ReadingTyped DEF DidChangeWatchedFiles
  <2>2. work' \in Seq(Tasks)
    <3> DEFINE S == {d \in Doc : documents[d] # None}
    <3>1. PICK order \in SetToSeqs(S) :
            work' = [i \in DOMAIN order |-> Task("publish", order[i], None, documents[order[i]].version)]
      BY <1>3 DEF DidChangeWatchedFiles
    <3>2. Cardinality(S) \in Nat
      BY DocAssumption, FS_Subset, FS_CardinalityType
    <3>3. DOMAIN order = 1..Cardinality(S) /\ \A i \in DOMAIN order : order[i] \in S
      BY <3>1 DEF SetToSeqs
    <3>4. ASSUME NEW i \in DOMAIN order
          PROVE  Task("publish", order[i], None, documents[order[i]].version) \in Tasks
      <4>1. order[i] \in Doc /\ documents[order[i]] \in Buffer
        BY <3>3 DEF TypeOK
      <4>2. documents[order[i]].version \in Nat
        BY <4>1 DEF Buffer
      <4>3. QED
        BY <4>1, <4>2, TaskTyped
    <3>5. work' \in [1..Cardinality(S) -> Tasks]
      BY <3>1, <3>3, <3>4
    <3>6. \A n \in Nat : \A g \in [1..n -> Tasks] : g \in Seq(Tasks)
      OBVIOUS
    <3>7. QED
      BY <3>2, <3>5, <3>6
  <2>3. UNCHANGED <<outbox, documents, cancelled, compiled, shutdownRequested, exiting>>
    BY <1>3 DEF DidChangeWatchedFiles
  <2>4. OutboxTyped'
    BY <2>3 DEF OutboxTyped, IsToEditor, Ordered
  <2>5. ServerTyped'
    BY <2>1, <2>2, <2>3 DEF TypeOK, ServerTyped
  <2>6. QED
    BY <2>1, <2>4, <2>5
<1>4. CASE CancelRequest
  <2>1. /\ EditorTyped' /\ InboxTyped' /\ inbox # <<>> /\ Message.method \in {"$/cancelRequest"}
    BY <1>4, ReadingTyped DEF CancelRequest
  <2>2. UNCHANGED outbox /\ cancelled' \subseteq Id
    BY <1>4, <2>1, MessageTyped DEF CancelRequest, TypeOK
  <2>3. OutboxTyped'
    BY <2>2 DEF OutboxTyped, IsToEditor, Ordered
  <2>4. ServerTyped'
    BY <1>4, <2>2 DEF CancelRequest, TypeOK, ServerTyped
  <2>5. QED
    BY <2>1, <2>3, <2>4
<1>5. CASE Request
  <2>1. /\ EditorTyped' /\ InboxTyped' /\ inbox # <<>> /\ work = <<>> /\ compiled = None
        /\ Message.method \in {"feature", "preview"}
    BY <1>5, ReadingTyped DEF Request
  <2>2. Message.doc \in Doc /\ Message.id \in Id
    BY <2>1, MessageTyped
  <2>3. UNCHANGED <<documents, compiled, shutdownRequested, exiting>> /\ cancelled' \subseteq Id
    BY <1>5 DEF Request, TypeOK
  <2>4. \/ UNCHANGED work /\ \E result : outbox' = Append(outbox, Response(Message.id, result))
        \/ /\ documents[Message.doc] # None /\ UNCHANGED outbox
           /\ work' = <<Task("preview", Message.doc, Message.id, documents[Message.doc].version)>>
    BY <1>5 DEF Request, NotOpen
  <2>5. OutboxTyped'
    <3>1. CASE UNCHANGED outbox
      BY <3>1 DEF OutboxTyped, IsToEditor, Ordered
    <3>2. CASE \E result : outbox' = Append(outbox, Response(Message.id, result))
      BY <3>2, OutboxAppend, ResponseTyped
    <3>3. QED
      BY <2>4, <3>1, <3>2
  <2>6. work' \in Seq(Tasks)
    <3>1. CASE UNCHANGED work
      BY <3>1 DEF TypeOK
    <3>2. CASE /\ documents[Message.doc] # None
               /\ work' = <<Task("preview", Message.doc, Message.id, documents[Message.doc].version)>>
      <4>1. documents[Message.doc].version \in Nat
        BY <2>2, <3>2 DEF TypeOK, Buffer
      <4>2. Task("preview", Message.doc, Message.id, documents[Message.doc].version) \in Tasks
        BY <2>2, <4>1, TaskTyped
      <4>3. QED
        BY <3>2, <4>2
    <3>3. QED
      BY <2>4, <3>1, <3>2
  <2>7. ServerTyped'
    BY <2>1, <2>3, <2>6 DEF TypeOK, ServerTyped
  <2>8. QED
    BY <2>1, <2>5, <2>7
<1>6. CASE Shutdown
  <2>1. /\ EditorTyped' /\ InboxTyped'
    BY <1>6, ReadingTyped DEF Shutdown
  <2>2. OutboxTyped'
    BY <1>6, OutboxAppend, ResponseTyped DEF Shutdown
  <2>3. ServerTyped'
    BY <1>6 DEF Shutdown, TypeOK, ServerTyped
  <2>4. QED
    BY <2>1, <2>2, <2>3
<1>7. CASE Exit
  <2>1. /\ EditorTyped' /\ InboxTyped'
    BY <1>7, ReadingTyped DEF Exit
  <2>2. OutboxTyped'
    BY <1>7 DEF Exit, OutboxTyped, IsToEditor, Ordered
  <2>3. ServerTyped'
    BY <1>7 DEF Exit, TypeOK, ServerTyped
  <2>4. QED
    BY <2>1, <2>2, <2>3
<1>8. QED
  BY <1>1, <1>2, <1>3, <1>4, <1>5, <1>6, <1>7

\* What is in hand is about open documents, at the version that they have; only
\* previews were asked for.
TasksFit ==
  \A i \in DOMAIN work :
    HasVersion(work[i].doc, work[i].version) /\ (work[i].kind = "publish" => work[i].id = None)

LEMMA StoresVersion ==
  ASSUME NEW store \in [Doc -> Buffer \cup {None}], NEW m, m.method \in {"didOpen", "didChange"},
         m.doc \in Doc, Stored(store, m)[m.doc] # None
  PROVE  Stored(store, m)[m.doc].version = m.version
<1>1. CASE m.method = "didOpen"
  BY <1>1 DEF Stored
<1>2. CASE m.method = "didChange" /\ store[m.doc] # None
  BY <1>2 DEF Stored
<1>3. CASE m.method = "didChange" /\ store[m.doc] = None
  BY <1>3 DEF Stored
<1>4. QED
  BY <1>1, <1>2, <1>3

LEMMA TasksStep ==
  ASSUME TypeOK, TasksFit, [Next]_vars PROVE TasksFit'
<1>1. CASE DidOpenOrChange
  <2>1. Message.doc \in Doc /\ Message.method \in {"didOpen", "didChange"}
    BY <1>1, MessageTyped DEF DidOpenOrChange, Reads, Message
  <2>2. CASE documents'[Message.doc] = None
    BY <1>1, <2>2 DEF DidOpenOrChange, TasksFit
  <2>3. CASE documents'[Message.doc] # None
    <3>1. documents'[Message.doc].version = Message.version
      BY <1>1, <2>1, <2>3, StoresVersion DEF DidOpenOrChange, TypeOK
    <3>2. work' = <<Task("publish", Message.doc, None, Message.version)>>
      BY <1>1, <2>3 DEF DidOpenOrChange
    <3>3. /\ DOMAIN work' = {1} /\ work'[1].doc = Message.doc
          /\ work'[1].version = Message.version /\ work'[1].id = None
      BY <3>2 DEF Task
    <3>4. QED
      BY <2>3, <3>1, <3>3 DEF TasksFit, HasVersion
  <2>4. QED
    BY <2>2, <2>3
<1>2. CASE DidClose \/ CancelRequest \/ Shutdown \/ Exit
  <2>1. work' = <<>>
    BY <1>2 DEF DidClose, CancelRequest, Shutdown, Exit, Reads, Idle
  <2>2. QED
    BY <2>1 DEF TasksFit
<1>3. CASE DidChangeWatchedFiles
  <2> DEFINE S == {d \in Doc : documents[d] # None}
  <2>1. PICK order \in SetToSeqs(S) :
          work' = [i \in DOMAIN order |-> Task("publish", order[i], None, documents[order[i]].version)]
    BY <1>3 DEF DidChangeWatchedFiles
  <2>2. \A i \in DOMAIN order : order[i] \in S
    BY <2>1 DEF SetToSeqs
  <2>3. documents' = documents
    BY <1>3 DEF DidChangeWatchedFiles
  <2>4. ASSUME NEW i \in DOMAIN work'
        PROVE  /\ documents'[work'[i].doc] # None
               /\ documents'[work'[i].doc].version = work'[i].version /\ work'[i].id = None
    <3>1. i \in DOMAIN order
          /\ work'[i] = Task("publish", order[i], None, documents[order[i]].version)
      BY <2>1
    <3>2. /\ work'[i].doc = order[i] /\ work'[i].version = documents[order[i]].version
          /\ work'[i].id = None
      BY <3>1 DEF Task
    <3>3. QED
      BY <2>2, <2>3, <3>1, <3>2
  <2>5. QED
    BY <2>4 DEF TasksFit, HasVersion
<1>4. CASE Request
  <2>1. work = <<>> /\ documents' = documents
    BY <1>4 DEF Request, Reads, Idle
  <2>2. \/ work' = <<>>
        \/ /\ documents[Message.doc] # None
           /\ work' = <<Task("preview", Message.doc, Message.id, documents[Message.doc].version)>>
    BY <1>4, <2>1 DEF Request
  <2>3. CASE work' = <<>>
    BY <2>3 DEF TasksFit
  <2>4. CASE /\ documents[Message.doc] # None
             /\ work' = <<Task("preview", Message.doc, Message.id, documents[Message.doc].version)>>
    <3>1. DOMAIN work' = {1} /\ work'[1].doc = Message.doc
          /\ work'[1].version = documents[Message.doc].version /\ work'[1].kind = "preview"
      BY <2>4 DEF Task
    <3>2. QED
      BY <2>1, <2>4, <3>1 DEF TasksFit, HasVersion
  <2>5. QED
    BY <2>2, <2>3, <2>4
<1>5. CASE Send
  <2>1. /\ DOMAIN Tail(work) = 1..(Len(work) - 1) /\ DOMAIN work = 1..Len(work) /\ Len(work) \in Nat
        /\ \A i \in 1..(Len(work) - 1) : Tail(work)[i] = work[i + 1]
    BY <1>5, Taking DEF Send, TypeOK, Ordered
  <2>2. work' = Tail(work) /\ documents' = documents
    BY <1>5 DEF Send
  <2>3. \A i \in DOMAIN work' : i + 1 \in DOMAIN work /\ work'[i] = work[i + 1]
    BY <2>1, <2>2
  <2>4. QED
    BY <2>2, <2>3 DEF TasksFit, HasVersion
<1>6. CASE UNCHANGED <<documents, work>>
  BY <1>6 DEF TasksFit, HasVersion
<1>7. QED
  <2>1. Compile => UNCHANGED <<documents, work>>
    BY DEF Compile
  <2>2. Edit \/ Receive \/ UNCHANGED vars => UNCHANGED <<documents, work>>
    BY DEF Edit, Open, Close, ChangeText, Write, Watch, Ask, CancelAsked, Stop, Receive, Tell,
           server, vars
  <2>3. QED
    BY <1>1, <1>2, <1>3, <1>4, <1>5, <1>6, <2>1, <2>2 DEF Next, Serve

LEMMA WorkTyped ==
  ASSUME TypeOK, OutboxTyped, TasksFit, Compile \/ Send PROVE TypeOK' /\ OutboxTyped'
<1> DEFINE task == Head(work)
<1>1. work \in Seq(Tasks) /\ work # <<>> /\ task \in Tasks /\ Tail(work) \in Seq(Tasks)
  BY DEF Compile, Send, TypeOK
<1>2. task.doc \in Doc /\ task.kind \in {"publish", "preview"} /\ task.version \in Nat
  BY <1>1 DEF Tasks
<1>3. EditorTyped' /\ InboxTyped'
  BY TypeParts DEF Compile, Send, EditorTyped, InboxTyped, editor
<1>4. CASE Compile
  <2>1. UNCHANGED <<outbox, documents, cancelled, work, shutdownRequested, exiting>>
        /\ compiled' = Compiled(task.doc, documents[task.doc].text)
    BY <1>4 DEF Compile
  <2>2. documents[task.doc].text \in Text => compiled' \in Report(task.doc)
    BY <1>2, <2>1, CompiledTyped
  <2>3. documents[task.doc].text \in Text
    <3>1. 1 \in DOMAIN work /\ task = work[1]
      BY <1>1
    <3>2. documents[task.doc] # None
      BY <3>1 DEF TasksFit, HasVersion
    <3>3. documents[task.doc] \in Buffer
      BY <1>2, <3>2 DEF TypeOK
    <3>4. QED
      BY <3>3 DEF Buffer
  <2>4. ServerTyped'
    BY <1>1, <2>1, <2>2, <2>3 DEF TypeOK, ServerTyped
  <2>5. OutboxTyped'
    BY <2>1 DEF OutboxTyped, IsToEditor, Ordered
  <2>6. QED
    BY <1>3, <2>4, <2>5 DEF OutboxTyped, TypeOK, EditorTyped, ServerTyped, InboxTyped, IsToEditor
<1>5. CASE Send
  <2>1. /\ UNCHANGED <<documents, cancelled, shutdownRequested, exiting>>
        /\ work' = Tail(work) /\ compiled' = None /\ outbox' = Sent
    BY <1>5 DEF Send
  <2>2. compiled \in Report(task.doc)
    BY <1>5 DEF Send, TypeOK
  <2>3. OutboxTyped'
    <3>1. \/ UNCHANGED outbox
          \/ outbox' = Append(outbox, Publication(task.doc, task.version, compiled))
          \/ \E result : outbox' = Append(outbox, Response(task.id, result))
      BY <2>1 DEF Sent
    <3>2. CASE UNCHANGED outbox
      BY <3>2 DEF OutboxTyped, IsToEditor, Ordered
    <3>3. CASE outbox' = Append(outbox, Publication(task.doc, task.version, compiled))
      <4>1. IsToEditor(Publication(task.doc, task.version, compiled))
        BY <1>2, <2>2 DEF IsToEditor, Publication
      <4>2. QED
        BY <3>3, <4>1, OutboxAppend
    <3>4. CASE \E result : outbox' = Append(outbox, Response(task.id, result))
      BY <3>4, OutboxAppend, ResponseTyped
    <3>5. QED
      BY <3>1, <3>2, <3>3, <3>4
  <2>4. ServerTyped'
    BY <1>1, <2>1 DEF TypeOK, ServerTyped
  <2>5. QED
    BY <1>3, <2>3, <2>4 DEF OutboxTyped, TypeOK, EditorTyped, ServerTyped, InboxTyped, IsToEditor
<1>6. QED
  BY <1>4, <1>5

\* What the editor and the disk do leaves the server alone.
LEMMA EditorStepTyped ==
  ASSUME TypeOK, OutboxTyped, UNCHANGED <<outbox, server>>, EditorTyped',
         UNCHANGED inbox \/ \E m \in ToServer : Tell(m)
  PROVE  TypeOK' /\ OutboxTyped'
<1>1. InboxTyped'
  BY TypeParts DEF InboxTyped, Tell
<1>2. ServerTyped'
  BY TypeParts DEF ServerTyped, server
<1>3. OutboxTyped'
  BY DEF OutboxTyped, IsToEditor, Ordered
<1>4. QED
  BY <1>1, <1>2, <1>3 DEF OutboxTyped, TypeOK, EditorTyped, ServerTyped, InboxTyped, IsToEditor

LEMMA ChangedBuffer ==
  ASSUME TypeOK, NEW d \in Doc, NEW changes, ChangeText(d, changes)
  PROVE  buffers' = [buffers EXCEPT ![d] = [text |-> Typed(buffers[d].text, changes),
                                            version |-> buffers[d].version + 1]]
<1> DEFINE t == Typed(buffers[d].text, changes)
           v == buffers[d].version + 1
<1>1. buffers \in [Doc -> Buffer \cup {None}] /\ buffers[d] \in Buffer
  BY DEF ChangeText, TypeOK
<1>2. buffers' = [buffers EXCEPT ![d].text = Typed(@, changes), ![d].version = @ + 1]
  BY DEF ChangeText
<1>3. PICK a, b : buffers[d] = [text |-> a, version |-> b]
  BY <1>1 DEF Buffer
<1> HIDE DEF t, v
<1>4. [[buffers[d] EXCEPT !.text = t] EXCEPT !.version = v] = [text |-> t, version |-> v]
  <2>1. [buffers[d] EXCEPT !.text = t] = [text |-> t, version |-> b]
    BY <1>3
  <2>2. [[text |-> t, version |-> b] EXCEPT !.version = v] = [text |-> t, version |-> v]
    OBVIOUS
  <2>3. QED
    BY <2>1, <2>2, Zenon
<1>5. buffers' = [buffers EXCEPT ![d] = [[buffers[d] EXCEPT !.text = t] EXCEPT !.version = v]]
  BY <1>1, <1>2, <1>3 DEF t, v
<1>6. QED
  BY <1>4, <1>5 DEF t, v

LEMMA EditTyped ==
  ASSUME TypeOK, OutboxTyped, NEW d \in Doc,
         Open(d) \/ Close(d) \/ \E changes \in Edits : ChangeText(d, changes)
  PROVE  TypeOK' /\ OutboxTyped'
<1> SUFFICES EditorTyped' /\ UNCHANGED <<outbox, server>> /\ \E m \in ToServer : Tell(m)
  BY EditorStepTyped
<1>1. CASE Open(d)
  <2>1. [method |-> "didOpen", doc |-> d, text |-> <<>>, version |-> 1] \in ToServer
    BY DEF ToServer, Text
  <2>2. buffers' \in [Doc -> Buffer \cup {None}]
    BY <1>1 DEF Open, TypeOK, Buffer, Text
  <2>3. QED
    BY <1>1, <2>1, <2>2 DEF Open, Tell, TypeOK, EditorTyped
<1>2. CASE Close(d)
  <2>1. [method |-> "didClose", doc |-> d] \in ToServer
    BY DEF ToServer
  <2>2. QED
    BY <1>2, <2>1 DEF Close, Tell, TypeOK, EditorTyped
<1>3. ASSUME NEW changes \in Edits, ChangeText(d, changes)
      PROVE  EditorTyped' /\ UNCHANGED <<outbox, server>> /\ \E m \in ToServer : Tell(m)
  <2> DEFINE m == [method |-> "didChange", doc |-> d, changes |-> changes,
                   version |-> buffers[d].version + 1]
  <2>1. buffers[d] \in Buffer /\ Tell(m)
    BY <1>3 DEF ChangeText, TypeOK
  <2>2. buffers[d].text \in Text /\ buffers[d].version \in Nat
    BY <2>1 DEF Buffer
  <2>3. m \in ToServer
    BY <2>2 DEF ToServer
  <2>4. Typed(buffers[d].text, changes) \in Text
    BY <2>2, EditedTyped, TypedAsEdited
  <2>5. buffers' = [buffers EXCEPT ![d] = [text |-> Typed(buffers[d].text, changes),
                                           version |-> buffers[d].version + 1]]
    BY <1>3, ChangedBuffer
  <2>6. buffers' \in [Doc -> Buffer \cup {None}]
    BY <2>2, <2>4, <2>5 DEF TypeOK, Buffer
  <2>7. QED
    BY <1>3, <2>1, <2>3, <2>6 DEF ChangeText, Tell, TypeOK, EditorTyped
<1>4. QED
  BY <1>1, <1>2, <1>3

LEMMA TypeStep == ASSUME TypeOK, OutboxTyped, TasksFit, [Next]_vars PROVE TypeOK' /\ OutboxTyped'
<1>1. ASSUME NEW f \in File, Write(f) PROVE TypeOK' /\ OutboxTyped'
  <2>1. disk' \in [File -> 0..MaxDiskChanges]
    BY <1>1, BoundsAssumption DEF Write, TypeOK
  <2>2. EditorTyped'
    BY <1>1, <2>1 DEF Write, TypeOK, EditorTyped
  <2>3. QED
    BY <1>1, <2>2, EditorStepTyped DEF Write
<1>2. CASE Watch
  <2>1. [method |-> "didChangeWatchedFiles"] \in ToServer
    BY DEF ToServer
  <2>2. EditorTyped'
    BY <1>2 DEF Watch, TypeOK, EditorTyped
  <2>3. QED
    BY <1>2, <2>1, <2>2, EditorStepTyped DEF Watch, Tell
<1>3. ASSUME NEW d \in Doc, NEW method \in {"feature", "preview"}, Ask(method, d)
      PROVE  TypeOK' /\ OutboxTyped'
  <2>1. requests' \in Id
    BY <1>3, BoundsAssumption DEF Ask, TypeOK, Id
  <2>2. [method |-> method, doc |-> d, id |-> requests'] \in ToServer
    BY <2>1 DEF ToServer
  <2>3. EditorTyped'
    BY <1>3, <2>1 DEF Ask, TypeOK, EditorTyped
  <2>4. QED
    BY <1>3, <2>2, <2>3, EditorStepTyped DEF Ask, Tell
<1>4. ASSUME NEW id \in pending, CancelAsked(id) PROVE TypeOK' /\ OutboxTyped'
  <2>1. id \in Id
    BY DEF TypeOK
  <2>2. [method |-> "$/cancelRequest", id |-> id] \in ToServer
    BY <2>1 DEF ToServer
  <2>3. EditorTyped'
    BY <1>4 DEF CancelAsked, TypeOK, EditorTyped
  <2>4. QED
    BY <1>4, <2>2, <2>3, EditorStepTyped DEF CancelAsked, Tell
<1>5. CASE Stop
  <2>1. 0 \in Id
    BY BoundsAssumption DEF Id
  <2>2. [method |-> "shutdown", id |-> 0] \in ToServer /\ [method |-> "exit"] \in ToServer
    BY <2>1 DEF ToServer
  <2>3. EditorTyped'
    BY <1>5, <2>1 DEF Stop, TypeOK, EditorTyped
  <2>4. UNCHANGED <<outbox, server>> /\ \E m \in ToServer : Tell(m)
    BY <1>5, <2>2 DEF Stop, Tell
  <2>5. QED
    BY <2>3, <2>4, EditorStepTyped
<1>6. CASE Receive
  <2>1. /\ 1 \in DOMAIN outbox /\ Head(outbox) = outbox[1] /\ Ordered(outbox')
        /\ DOMAIN outbox' = 1..(Len(outbox) - 1) /\ Len(outbox) \in Nat /\ DOMAIN outbox = 1..Len(outbox)
        /\ \A i \in 1..(Len(outbox) - 1) : outbox'[i] = outbox[i + 1]
    BY <1>6, Taking DEF Receive, OutboxTyped
  <2>2. OutboxTyped'
    <3>1. ASSUME NEW i \in DOMAIN outbox' PROVE IsToEditor(outbox'[i])
      <4>1. i + 1 \in DOMAIN outbox /\ outbox'[i] = outbox[i + 1]
        BY <2>1
      <4>2. QED
        BY <4>1 DEF OutboxTyped
    <3>2. QED
      BY <2>1, <3>1 DEF OutboxTyped, IsToEditor, Ordered
  <2>3. IsToEditor(outbox[1])
    BY <2>1 DEF OutboxTyped
  <2>4. EditorTyped'
    <3>1. CASE outbox[1].method = "response"
      BY <1>6, <2>1, <3>1 DEF Receive, TypeOK, EditorTyped
    <3>2. CASE outbox[1].method # "response"
      <4>1. shown' = [shown EXCEPT ![outbox[1].doc] = outbox[1].report]
            /\ UNCHANGED <<pending, cancelling, buffers, disk, unseen, requests, stopping>>
        BY <1>6, <2>1, <3>2 DEF Receive
      <4>2. CASE outbox[1].method = "publishDiagnostics"
        BY <2>3, <4>1, <4>2 DEF IsToEditor, TypeOK, EditorTyped, Report
      <4>3. QED
        BY <2>3, <3>2, <4>2 DEF IsToEditor
    <3>3. QED
      BY <3>1, <3>2
  <2>5. InboxTyped' /\ ServerTyped'
    BY <1>6, TypeParts DEF Receive, InboxTyped, ServerTyped, server
  <2>6. QED
    BY <2>2, <2>4, <2>5 DEF OutboxTyped, TypeOK, EditorTyped, ServerTyped, InboxTyped, IsToEditor
<1>7. CASE UNCHANGED vars
  <2>1. EditorTyped'
    BY <1>7, TypeParts DEF vars, editor, EditorTyped
  <2>2. QED
    BY <1>7, <2>1, EditorStepTyped DEF vars
<1>8. QED
  <2>1. (\E d \in Doc : Open(d)) \/ (\E d \in Doc : Close(d))
          \/ (\E d \in Doc, changes \in Edits : ChangeText(d, changes)) => TypeOK' /\ OutboxTyped'
    BY EditTyped
  <2>2. QED
    BY <1>1, <1>2, <1>3, <1>4, <1>5, <1>6, <1>7, <2>1, StepCases, ServeTyped, WorkTyped

LEMMA Typing == Spec => [](TypeOK /\ OutboxTyped /\ TasksFit)
<1>1. Init => TypeOK /\ OutboxTyped /\ TasksFit
  <2> SUFFICES ASSUME Init PROVE TypeOK /\ OutboxTyped /\ TasksFit
    OBVIOUS
  <2>1. disk \in [File -> 0..MaxDiskChanges]
    BY BoundsAssumption DEF Init
  <2>2. inbox \in Seq(ToServer) /\ work \in Seq(Tasks) /\ outbox \in Seq({})
    BY DEF Init
  <2>3. 0 \in Id
    BY BoundsAssumption DEF Id
  <2>4. DOMAIN outbox = {}
    BY DEF Init
  <2>5. TypeOK
    BY <2>1, <2>2, <2>3, <2>4 DEF Init, TypeOK
  <2>6. QED
    BY <2>2, <2>4, <2>5 DEF OutboxTyped, TasksFit, Ordered, Init
<1>2. TypeOK /\ OutboxTyped /\ TasksFit /\ [Next]_vars => TypeOK' /\ OutboxTyped' /\ TasksFit'
  BY TypeStep, TasksStep
<1>3. QED
  BY <1>1, <1>2, PTL DEF Spec

\* The variables keep their types: texts stay texts under any edit, and a
\* result is one of the document that it was made for.
THEOREM TypeCorrect == Spec => []TypeOK
BY Typing, PTL

-----------------------------------------------------------------------------
(***************************************************************************)
(* The server's store follows the editor's buffers.                        *)
(***************************************************************************)
\* f holds the stores after the first n messages of s, from the store a on.
IsRun(f, n, a, s) == f = [i \in 0..n |-> IF i = 0 THEN a ELSE Stored(f[i - 1], s[i])]

LEMMA RunExists == ASSUME NEW n \in Nat, NEW a, NEW s PROVE \E f : IsRun(f, n, a, s)
<1> DEFINE S == {k \in Nat : \E f : IsRun(f, k, a, s)}
<1>1. 0 \in S
  <2>1. IsRun([i \in 0..0 |-> a], 0, a, s)
    BY DEF IsRun
  <2>2. QED
    BY <2>1
<1>2. ASSUME NEW k \in Nat, k \in S PROVE k + 1 \in S
  <2>1. PICK f : IsRun(f, k, a, s)
    BY <1>2
  <2> DEFINE g == [i \in 0..(k + 1) |-> IF i = k + 1 THEN Stored(f[k], s[k + 1]) ELSE f[i]]
  <2>2. \A i \in 0..k : g[i] = f[i]
    BY <1>2
  <2>3. \A i \in 0..(k + 1) : g[i] = IF i = 0 THEN a ELSE Stored(g[i - 1], s[i])
    <3>1. TAKE i \in 0..(k + 1)
    <3>2. CASE i = k + 1
      <4>1. i # 0 /\ i - 1 = k /\ k \in 0..k
        BY <3>2
      <4>2. QED
        BY <2>2, <3>2, <4>1
    <3>3. CASE i \in 1..k
      <4>1. i - 1 \in 0..k /\ i # k + 1
        BY <3>3
      <4>2. QED
        BY <2>1, <2>2, <3>3, <4>1 DEF IsRun
    <3>4. CASE i = 0
      BY <2>1, <3>4 DEF IsRun
    <3>5. QED
      BY <3>2, <3>3, <3>4
  <2>4. IsRun(g, k + 1, a, s)
    BY <2>3 DEF IsRun
  <2>5. QED
    BY <2>4
<1> HIDE DEF S
<1>3. \A i \in 0..n : i \in S
  <2>1. \A i \in 0..(n - 1) : i \in S => i + 1 \in S
    BY <1>2
  <2>2. QED
    BY <1>1, <2>1, Induction
<1>4. QED
  BY <1>3 DEF S

LEMMA RunChosen ==
  ASSUME NEW a, NEW s, Len(s) \in Nat
  PROVE  IsRun(CHOOSE f : f = [i \in 0..Len(s) |-> IF i = 0 THEN a ELSE Stored(f[i - 1], s[i])],
               Len(s), a, s)
<1> DEFINE P(f) == f = [i \in 0..Len(s) |-> IF i = 0 THEN a ELSE Stored(f[i - 1], s[i])]
<1>1. PICK f : P(f)
  <2>1. PICK g : IsRun(g, Len(s), a, s)
    BY RunExists
  <2>2. P(g)
    BY <2>1 DEF IsRun
  <2>3. QED
    BY <2>2, Zenon
<1>2. P(CHOOSE g : P(g))
  BY <1>1, Zenon
<1>3. QED
  BY <1>2, Zenon DEF IsRun

\* A run that starts in the middle of another and reads the same messages goes
\* through the same stores.
LEMMA RunsAgree ==
  ASSUME NEW n \in Nat, NEW m \in Nat, NEW k \in Nat, k + m <= n,
         NEW f, NEW a, NEW s, IsRun(f, n, a, s),
         NEW g, NEW t, IsRun(g, m, f[k], t), \A i \in 1..m : t[i] = s[k + i]
  PROVE  g[m] = f[k + m]
<1> DEFINE S == {i \in Nat : g[i] = f[k + i]}
<1>1. 0 \in S
  BY DEF IsRun
<1>2. ASSUME NEW i \in 0..(m - 1), i \in S PROVE i + 1 \in S
  <2>1. i + 1 \in 1..m /\ (i + 1) - 1 = i /\ i + 1 # 0
    OBVIOUS
  <2>2. k + (i + 1) \in 0..n /\ (k + (i + 1)) - 1 = k + i /\ k + (i + 1) # 0
    BY <2>1
  <2>3. g[i + 1] = Stored(g[i], t[i + 1])
    BY <2>1 DEF IsRun
  <2>4. f[k + (i + 1)] = Stored(f[k + i], s[k + (i + 1)])
    BY <2>2 DEF IsRun
  <2>5. QED
    BY <1>2, <2>1, <2>3, <2>4
<1> HIDE DEF S
<1>3. \A i \in 0..m : i \in S
  BY <1>1, <1>2, Induction
<1>4. QED
  BY <1>3 DEF S

LEMMA AfterRuns == ASSUME Len(inbox) \in Nat PROVE IsRun(After, Len(inbox), documents, inbox)
BY RunChosen, Zenon DEF After

LEMMA AfterRunsNext ==
  ASSUME Len(inbox') \in Nat PROVE IsRun(After', Len(inbox'), documents', inbox')
BY RunChosen, Zenon DEF After

\* The editor tells what it has done.
LEMMA TellFollows ==
  ASSUME TypeOK, StoreFollowsEditor, NEW m, Tell(m), buffers' = Stored(buffers, m)
  PROVE  StoreFollowsEditor'
<1> DEFINE n == Len(inbox)
<1>1. /\ n \in Nat /\ Len(inbox') = n + 1 /\ inbox'[n + 1] = m
      /\ \A i \in 1..n : inbox'[i] = inbox[i]
  BY Appending DEF Tell, TypeOK, Ordered, server
<1> HIDE DEF n
<1>2. IsRun(After, n, documents, inbox) /\ IsRun(After', n + 1, documents', inbox')
  BY <1>1, AfterRuns, AfterRunsNext DEF n
<1>3. documents' = documents
  BY DEF Tell, server
<1>4. After'[0] = documents
  BY <1>1, <1>2, <1>3 DEF IsRun
<1>5. After[n] = After'[n]
  <2>1. PICK k \in Nat : k = 0
    OBVIOUS
  <2>2. k + n <= n + 1 /\ n + 1 \in Nat /\ k + n = n
    BY <1>1, <2>1
  <2>3. IsRun(After, n, After'[k], inbox) /\ \A i \in 1..n : inbox[i] = inbox'[k + i]
    BY <1>1, <1>2, <1>4, <2>1
  <2>4. After[n] = After'[k + n]
    BY <1>1, <1>2, <2>2, <2>3, RunsAgree
  <2>5. QED
    BY <2>2, <2>4
<1>6. After'[n + 1] = Stored(After'[n], inbox'[n + 1])
  <2>1. n + 1 \in 0..(n + 1) /\ n + 1 # 0 /\ (n + 1) - 1 = n
    BY <1>1
  <2>2. QED
    BY <1>2, <2>1 DEF IsRun
<1>7. After[n] = buffers
  BY DEF StoreFollowsEditor, n
<1>8. After'[n + 1] = buffers'
  BY <1>1, <1>5, <1>6, <1>7
<1>9. QED
  BY <1>1, <1>8 DEF StoreFollowsEditor

\* The server does as it is told.
LEMMA ConsumeFollows ==
  ASSUME TypeOK, StoreFollowsEditor, inbox # <<>>, Consume, documents' = Stored(documents, Message)
  PROVE  StoreFollowsEditor'
<1> DEFINE n == Len(inbox)
<1>1. /\ n \in Nat /\ n >= 1 /\ Len(inbox') = n - 1 /\ Message = inbox[1]
      /\ \A i \in 1..(n - 1) : inbox'[i] = inbox[i + 1]
  BY Taking DEF Consume, TypeOK, Ordered, Message
<1> HIDE DEF n
<1>2. IsRun(After, n, documents, inbox) /\ IsRun(After', n - 1, documents', inbox')
  BY <1>1, AfterRuns, AfterRunsNext DEF n
<1>3. After[1] = documents'
  <2>1. 1 \in 0..n /\ 0 \in 0..n /\ 1 - 1 = 0
    BY <1>1
  <2>2. After[0] = documents /\ After[1] = Stored(After[0], inbox[1])
    BY <1>2, <2>1 DEF IsRun
  <2>3. QED
    BY <1>1, <2>2
<1>4. After'[n - 1] = After[n]
  <2>1. \A i \in 1..(n - 1) : inbox'[i] = inbox[1 + i]
    BY <1>1
  <2>2. 1 + (n - 1) <= n /\ n - 1 \in Nat /\ 1 + (n - 1) = n
    BY <1>1
  <2>3. IsRun(After', n - 1, After[1], inbox')
    BY <1>2, <1>3
  <2>4. After'[n - 1] = After[1 + (n - 1)]
    BY <1>1, <1>2, <2>1, <2>2, <2>3, RunsAgree
  <2>5. QED
    BY <2>2, <2>4
<1>5. After[n] = buffers
  BY DEF StoreFollowsEditor, n
<1>6. UNCHANGED buffers
  BY DEF Consume, editor
<1>7. QED
  BY <1>1, <1>4, <1>5, <1>6 DEF StoreFollowsEditor

LEMMA StoredOther ==
  \A store, m : m.method \notin {"didOpen", "didChange", "didClose"} => Stored(store, m) = store
BY DEF Stored

LEMMA FollowingStep ==
  ASSUME TypeOK, StoreFollowsEditor, [Next]_vars PROVE StoreFollowsEditor'
<1>1. CASE DidOpenOrChange \/ DidClose
  BY <1>1, ConsumeFollows DEF DidOpenOrChange, DidClose, Reads
<1>2. CASE DidChangeWatchedFiles \/ CancelRequest \/ Request \/ Shutdown \/ Exit
  <2>1. /\ inbox # <<>> /\ Consume /\ documents' = documents
        /\ Message.method \notin {"didOpen", "didChange", "didClose"}
    BY <1>2 DEF DidChangeWatchedFiles, CancelRequest, Request, Shutdown, Exit, Reads, Message
  <2>2. QED
    BY <2>1, StoredOther, ConsumeFollows
<1>3. ASSUME NEW d \in Doc, Open(d) PROVE StoreFollowsEditor'
  <2> DEFINE m == [method |-> "didOpen", doc |-> d, text |-> <<>>, version |-> 1]
  <2>1. Tell(m) /\ buffers' = [buffers EXCEPT ![d] = [text |-> <<>>, version |-> 1]]
    BY <1>3 DEF Open
  <2>2. Stored(buffers, m) = [buffers EXCEPT ![d] = [text |-> <<>>, version |-> 1]]
    BY DEF Stored
  <2>3. QED
    BY <2>1, <2>2, TellFollows
<1>4. ASSUME NEW d \in Doc, Close(d) PROVE StoreFollowsEditor'
  <2> DEFINE m == [method |-> "didClose", doc |-> d]
  <2>1. Tell(m) /\ buffers' = [buffers EXCEPT ![d] = None]
    BY <1>4 DEF Close
  <2>2. Stored(buffers, m) = [buffers EXCEPT ![d] = None]
    BY DEF Stored
  <2>3. QED
    BY <2>1, <2>2, TellFollows
<1>5. ASSUME NEW d \in Doc, NEW changes \in Edits, ChangeText(d, changes)
      PROVE  StoreFollowsEditor'
  <2> DEFINE m == [method |-> "didChange", doc |-> d, changes |-> changes,
                   version |-> buffers[d].version + 1]
  <2>1. Tell(m) /\ buffers[d] # None
    BY <1>5 DEF ChangeText
  <2>2. buffers' = [buffers EXCEPT ![d] = [text |-> Edited(buffers[d].text, changes),
                                           version |-> buffers[d].version + 1]]
    BY <1>5, ChangedBuffer, TypedAsEdited
  <2>3. m.method = "didChange" /\ m.doc = d /\ m.changes = changes
        /\ m.version = buffers[d].version + 1
    OBVIOUS
  <2> HIDE DEF m
  <2>4. Stored(buffers, m) = [buffers EXCEPT ![d] = [text |-> Edited(buffers[d].text, changes),
                                                     version |-> buffers[d].version + 1]]
    BY <2>1, <2>3 DEF Stored
  <2>5. QED
    BY <2>1, <2>2, <2>4, TellFollows
<1>6. ASSUME NEW m, m.method \notin {"didOpen", "didChange", "didClose"}, Tell(m), UNCHANGED buffers
      PROVE  StoreFollowsEditor'
  BY <1>6, StoredOther, TellFollows
<1>7. CASE UNCHANGED <<buffers, documents, inbox>>
  BY <1>7 DEF StoreFollowsEditor, After
<1>8. Watch => StoreFollowsEditor'
  <2>1. [method |-> "didChangeWatchedFiles"].method \notin {"didOpen", "didChange", "didClose"}
    OBVIOUS
  <2>2. QED
    BY <1>6, <2>1 DEF Watch
<1>9. ASSUME NEW d \in Doc, NEW method \in {"feature", "preview"}, Ask(method, d)
      PROVE  StoreFollowsEditor'
  <2> DEFINE m == [method |-> method, doc |-> d, id |-> requests']
  <2>1. PICK id : id = requests'
    OBVIOUS
  <2>2. m.method \notin {"didOpen", "didChange", "didClose"}
    OBVIOUS
  <2>3. Tell(m) /\ UNCHANGED buffers
    BY <1>9 DEF Ask
  <2>4. buffers' = Stored(buffers, m)
    BY <2>2, <2>3, StoredOther
  <2>5. QED
    BY <2>1, <2>3, <2>4, TellFollows
<1>10. ASSUME NEW id \in pending, CancelAsked(id) PROVE StoreFollowsEditor'
  <2>1. [method |-> "$/cancelRequest", id |-> id].method \notin {"didOpen", "didChange", "didClose"}
    OBVIOUS
  <2>2. QED
    BY <1>6, <1>10, <2>1 DEF CancelAsked
<1>11. Stop => StoreFollowsEditor'
  <2>1. /\ [method |-> "shutdown", id |-> 0].method \notin {"didOpen", "didChange", "didClose"}
        /\ [method |-> "exit"].method \notin {"didOpen", "didChange", "didClose"}
    OBVIOUS
  <2>2. QED
    BY <1>6, <2>1 DEF Stop
<1>12. Compile \/ Send \/ Receive \/ (\E f \in File : Write(f)) \/ UNCHANGED vars
         => UNCHANGED <<buffers, documents, inbox>>
  BY DEF Compile, Send, Receive, Write, vars, editor, server
<1>13. QED
  BY <1>1, <1>2, <1>3, <1>4, <1>5, <1>7, <1>8, <1>9, <1>10, <1>11, <1>12, StepCases

\* The server never works on a text that the editor has not: brought up to date
\* with the messages on their way, its store is the editor's buffers.
THEOREM StoreIsFollowing == Spec => []StoreFollowsEditor
<1>1. Init => StoreFollowsEditor
  <2> SUFFICES ASSUME Init PROVE StoreFollowsEditor
    OBVIOUS
  <2>1. Len(inbox) = 0 /\ documents = buffers
    BY DEF Init
  <2>2. IsRun(After, Len(inbox), documents, inbox)
    BY <2>1, AfterRuns
  <2>3. After[0] = documents
    BY <2>1, <2>2 DEF IsRun
  <2>4. QED
    BY <2>1, <2>3 DEF StoreFollowsEditor
<1>2. TypeOK /\ StoreFollowsEditor /\ [Next]_vars => StoreFollowsEditor'
  BY FollowingStep
<1>3. QED
  BY <1>1, <1>2, TypeCorrect, PTL DEF Spec

-----------------------------------------------------------------------------
(***************************************************************************)
(* Every request is answered once.                                         *)
(***************************************************************************)
InboxAt(id) == {i \in DOMAIN inbox : Asks(inbox[i], id)}
WorkAt(id) == {i \in DOMAIN work : work[i].id = id}
OutboxAt(id) == {i \in DOMAIN outbox : Answers(outbox[i], id)}
One(S) == \E x \in S : S = {x}
Placed(id) ==
  \/ One(InboxAt(id)) /\ WorkAt(id) = {} /\ OutboxAt(id) = {}
  \/ InboxAt(id) = {} /\ One(WorkAt(id)) /\ OutboxAt(id) = {}
  \/ InboxAt(id) = {} /\ WorkAt(id) = {} /\ One(OutboxAt(id))
Nowhere(id) == InboxAt(id) = {} /\ WorkAt(id) = {} /\ OutboxAt(id) = {}
Answering(id) == IF id \in pending THEN Placed(id) ELSE Nowhere(id)

LEMMA PlacesAre ==
  ASSUME NEW id
  PROVE  /\ Placed(id) => \E p \in Places(id) : Places(id) = {p}
         /\ Nowhere(id) => Places(id) = {}
<1>1. Places(id) = {<<"inbox", i>> : i \in InboxAt(id)} \cup {<<"work", i>> : i \in WorkAt(id)}
                     \cup {<<"outbox", i>> : i \in OutboxAt(id)}
  BY DEF Places, InboxAt, WorkAt, OutboxAt
<1>2. CASE One(InboxAt(id)) /\ WorkAt(id) = {} /\ OutboxAt(id) = {}
  <2>1. PICK x : InboxAt(id) = {x}
    BY <1>2 DEF One
  <2>2. Places(id) = {<<"inbox", x>>}
    BY <1>1, <1>2, <2>1
  <2>3. QED
    BY <2>1, <2>2 DEF Nowhere
<1>3. CASE InboxAt(id) = {} /\ One(WorkAt(id)) /\ OutboxAt(id) = {}
  <2>1. PICK x : WorkAt(id) = {x}
    BY <1>3 DEF One
  <2>2. Places(id) = {<<"work", x>>}
    BY <1>1, <1>3, <2>1
  <2>3. QED
    BY <2>1, <2>2 DEF Nowhere
<1>4. CASE InboxAt(id) = {} /\ WorkAt(id) = {} /\ One(OutboxAt(id))
  <2>1. PICK x : OutboxAt(id) = {x}
    BY <1>4 DEF One
  <2>2. Places(id) = {<<"outbox", x>>}
    BY <1>1, <1>4, <2>1
  <2>3. QED
    BY <2>1, <2>2 DEF Nowhere
<1>5. Nowhere(id) => Places(id) = {}
  BY <1>1 DEF Nowhere
<1>6. QED
  BY <1>2, <1>3, <1>4, <1>5 DEF Placed

\* What one more message, and one message less, does to the places.
LEMMA OneMore ==
  ASSUME NEW n \in Nat, NEW S, S \subseteq 1..n, NEW T, T \subseteq 1..(n + 1),
         \A i \in 1..n : i \in T <=> i \in S
  PROVE  /\ n + 1 \notin T => T = S
         /\ n + 1 \in T /\ S = {} => One(T)
<1>1. \A i \in T : i \in 1..n \/ i = n + 1
  OBVIOUS
<1>2. QED
  BY <1>1 DEF One

LEMMA OneLess ==
  ASSUME NEW n \in Nat, n >= 1, NEW S, S \subseteq 1..n, NEW T, T \subseteq 1..(n - 1),
         \A i \in 1..(n - 1) : i \in T <=> i + 1 \in S
  PROVE  /\ 1 \notin S /\ S = {} => T = {}
         /\ 1 \notin S /\ One(S) => One(T)
         /\ 1 \in S /\ One(S) => T = {}
<1>1. ASSUME One(S), 1 \notin S PROVE One(T)
  <2>1. PICK x \in S : S = {x}
    BY <1>1 DEF One
  <2>2. x - 1 \in 1..(n - 1) /\ (x - 1) + 1 = x
    BY <1>1, <2>1
  <2>3. x - 1 \in T
    BY <2>1, <2>2
  <2>4. \A i \in T : i = x - 1
    BY <2>1
  <2>5. QED
    BY <2>3, <2>4 DEF One
<1>2. ASSUME One(S), 1 \in S PROVE T = {}
  <2>1. S = {1}
    BY <1>2 DEF One
  <2>2. \A i \in 1..(n - 1) : i + 1 # 1
    OBVIOUS
  <2>3. QED
    BY <2>1, <2>2
<1>3. S = {} => T = {}
  OBVIOUS
<1>4. QED
  BY <1>1, <1>2, <1>3

LEMMA InboxTold ==
  ASSUME TypeOK, NEW m, inbox' = Append(inbox, m), NEW id
  PROVE  /\ ~Asks(m, id) => InboxAt(id)' = InboxAt(id)
         /\ Asks(m, id) /\ InboxAt(id) = {} => One(InboxAt(id)')
<1>1. /\ Len(inbox) \in Nat /\ DOMAIN inbox = 1..Len(inbox) /\ DOMAIN inbox' = 1..(Len(inbox) + 1)
      /\ inbox'[Len(inbox) + 1] = m
      /\ \A i \in 1..Len(inbox) : inbox'[i] = inbox[i]
  BY Appending DEF TypeOK, Ordered
<1>2. /\ InboxAt(id) \subseteq 1..Len(inbox) /\ InboxAt(id)' \subseteq 1..(Len(inbox) + 1)
      /\ \A i \in 1..Len(inbox) : i \in InboxAt(id)' <=> i \in InboxAt(id)
      /\ Len(inbox) + 1 \in InboxAt(id)' <=> Asks(m, id)
  BY <1>1 DEF InboxAt, Asks
<1>3. QED
  BY <1>1, <1>2, OneMore

LEMMA InboxConsumed ==
  ASSUME TypeOK, inbox # <<>>, Consume, NEW id
  PROVE  /\ ~Asks(Message, id) /\ InboxAt(id) = {} => InboxAt(id)' = {}
         /\ ~Asks(Message, id) /\ One(InboxAt(id)) => One(InboxAt(id)')
         /\ Asks(Message, id) /\ One(InboxAt(id)) => InboxAt(id)' = {}
         /\ Asks(Message, id) => InboxAt(id) # {}
<1>1. /\ Len(inbox) \in Nat /\ Len(inbox) >= 1 /\ Message = inbox[1]
      /\ DOMAIN inbox = 1..Len(inbox) /\ DOMAIN inbox' = 1..(Len(inbox) - 1)
      /\ \A i \in 1..(Len(inbox) - 1) : inbox'[i] = inbox[i + 1]
  BY Taking DEF Consume, TypeOK, Ordered, Message
<1>2. /\ InboxAt(id) \subseteq 1..Len(inbox) /\ InboxAt(id)' \subseteq 1..(Len(inbox) - 1)
      /\ 1 \in InboxAt(id) <=> Asks(Message, id)
  BY <1>1 DEF InboxAt, Asks
<1>3. \A i \in 1..(Len(inbox) - 1) : i \in InboxAt(id)' <=> i + 1 \in InboxAt(id)
  <2>1. TAKE i \in 1..(Len(inbox) - 1)
  <2>2. i \in DOMAIN inbox' /\ i + 1 \in DOMAIN inbox /\ inbox'[i] = inbox[i + 1]
    BY <1>1
  <2>3. QED
    BY <2>2 DEF InboxAt, Asks
<1>4. QED
  BY <1>1, <1>2, <1>3, OneLess

LEMMA OutboxSent ==
  ASSUME OutboxTyped, NEW m, outbox' = Append(outbox, m), NEW id
  PROVE  /\ ~Answers(m, id) => OutboxAt(id)' = OutboxAt(id)
         /\ Answers(m, id) /\ OutboxAt(id) = {} => One(OutboxAt(id)')
<1>1. /\ Len(outbox) \in Nat /\ DOMAIN outbox = 1..Len(outbox)
      /\ DOMAIN outbox' = 1..(Len(outbox) + 1) /\ outbox'[Len(outbox) + 1] = m
      /\ \A i \in 1..Len(outbox) : outbox'[i] = outbox[i]
  BY Appending DEF OutboxTyped
<1>2. /\ OutboxAt(id) \subseteq 1..Len(outbox) /\ OutboxAt(id)' \subseteq 1..(Len(outbox) + 1)
      /\ \A i \in 1..Len(outbox) : i \in OutboxAt(id)' <=> i \in OutboxAt(id)
      /\ Len(outbox) + 1 \in OutboxAt(id)' <=> Answers(m, id)
  BY <1>1 DEF OutboxAt, Answers
<1>3. QED
  BY <1>1, <1>2, OneMore

LEMMA OutboxTaken ==
  ASSUME OutboxTyped, outbox # <<>>, outbox' = Tail(outbox), NEW id
  PROVE  /\ ~Answers(Head(outbox), id) /\ OutboxAt(id) = {} => OutboxAt(id)' = {}
         /\ ~Answers(Head(outbox), id) /\ One(OutboxAt(id)) => One(OutboxAt(id)')
         /\ Answers(Head(outbox), id) /\ One(OutboxAt(id)) => OutboxAt(id)' = {}
         /\ Answers(Head(outbox), id) => OutboxAt(id) # {}
<1>1. /\ Len(outbox) \in Nat /\ Len(outbox) >= 1 /\ Head(outbox) = outbox[1]
      /\ DOMAIN outbox = 1..Len(outbox) /\ DOMAIN outbox' = 1..(Len(outbox) - 1)
      /\ \A i \in 1..(Len(outbox) - 1) : outbox'[i] = outbox[i + 1]
  BY Taking DEF OutboxTyped
<1>2. /\ OutboxAt(id) \subseteq 1..Len(outbox) /\ OutboxAt(id)' \subseteq 1..(Len(outbox) - 1)
      /\ 1 \in OutboxAt(id) <=> Answers(Head(outbox), id)
  BY <1>1 DEF OutboxAt, Answers
<1>3. \A i \in 1..(Len(outbox) - 1) : i \in OutboxAt(id)' <=> i + 1 \in OutboxAt(id)
  <2>1. TAKE i \in 1..(Len(outbox) - 1)
  <2>2. i \in DOMAIN outbox' /\ i + 1 \in DOMAIN outbox /\ outbox'[i] = outbox[i + 1]
    BY <1>1
  <2>3. QED
    BY <2>2 DEF OutboxAt, Answers
<1>4. QED
  BY <1>1, <1>2, <1>3, OneLess

LEMMA WorkTaken ==
  ASSUME TypeOK, work # <<>>, work' = Tail(work), NEW id
  PROVE  /\ Head(work).id # id /\ WorkAt(id) = {} => WorkAt(id)' = {}
         /\ Head(work).id # id /\ One(WorkAt(id)) => One(WorkAt(id)')
         /\ Head(work).id = id /\ One(WorkAt(id)) => WorkAt(id)' = {}
         /\ Head(work).id = id => WorkAt(id) # {}
<1>1. /\ Len(work) \in Nat /\ Len(work) >= 1 /\ Head(work) = work[1]
      /\ DOMAIN work = 1..Len(work) /\ DOMAIN work' = 1..(Len(work) - 1)
      /\ \A i \in 1..(Len(work) - 1) : work'[i] = work[i + 1]
  BY Taking DEF TypeOK, Ordered
<1>2. /\ WorkAt(id) \subseteq 1..Len(work) /\ WorkAt(id)' \subseteq 1..(Len(work) - 1)
      /\ 1 \in WorkAt(id) <=> Head(work).id = id
  BY <1>1 DEF WorkAt
<1>3. \A i \in 1..(Len(work) - 1) : i \in WorkAt(id)' <=> i + 1 \in WorkAt(id)
  <2>1. TAKE i \in 1..(Len(work) - 1)
  <2>2. i \in DOMAIN work' /\ i + 1 \in DOMAIN work /\ work'[i] = work[i + 1]
    BY <1>1
  <2>3. QED
    BY <2>2 DEF WorkAt
<1>4. QED
  BY <1>1, <1>2, <1>3, OneLess

\* A message is read that is not the request.
LEMMA ReadPast ==
  ASSUME TypeOK, NEW id, Answering(id), inbox # <<>>, work = <<>>, Consume,
         ~Asks(Message, id), WorkAt(id)' = {}, OutboxAt(id)' = OutboxAt(id)
  PROVE  Answering(id)'
<1>1. pending' = pending /\ WorkAt(id) = {}
  BY DEF Consume, editor, WorkAt
<1>2. InboxAt(id) = {} => InboxAt(id)' = {}
  BY InboxConsumed
<1>3. One(InboxAt(id)) => One(InboxAt(id)')
  BY InboxConsumed
<1>4. ~One({})
  BY DEF One
<1>5. Nowhere(id) => Nowhere(id)'
  BY <1>2 DEF Nowhere
<1>6. Placed(id) => Placed(id)'
  BY <1>1, <1>2, <1>3, <1>4 DEF Placed, One
<1>7. QED
  BY <1>1, <1>5, <1>6 DEF Answering

\* The request is read.
LEMMA ReadRequest ==
  ASSUME TypeOK, NEW id, Answering(id), inbox # <<>>, work = <<>>, Consume, Asks(Message, id),
         \/ WorkAt(id)' = {} /\ (OutboxAt(id) = {} => One(OutboxAt(id)'))
         \/ One(WorkAt(id)') /\ OutboxAt(id)' = OutboxAt(id)
  PROVE  Answering(id)'
<1>1. pending' = pending
  BY DEF Consume, editor
<1>2. InboxAt(id) # {}
  BY InboxConsumed
<1>3. id \in pending /\ One(InboxAt(id)) /\ OutboxAt(id) = {}
  BY <1>2 DEF Answering, Placed, Nowhere
<1>4. InboxAt(id)' = {}
  BY <1>3, InboxConsumed
<1>5. Placed(id)'
  BY <1>3, <1>4 DEF Placed, One
<1>6. QED
  BY <1>1, <1>3, <1>5 DEF Answering

LEMMA SingleTask ==
  ASSUME NEW id, NEW kind, NEW d, NEW t, NEW v, work' = <<Task(kind, d, t, v)>>
  PROVE  /\ t # id => WorkAt(id)' = {}
         /\ t = id => One(WorkAt(id)')
<1>1. DOMAIN work' = {1} /\ work'[1].id = t
  BY DEF Task
<1>2. t = id => WorkAt(id)' = {1}
  BY <1>1 DEF WorkAt
<1>3. t # id => WorkAt(id)' = {}
  BY <1>1 DEF WorkAt
<1>4. QED
  BY <1>2, <1>3 DEF One

LEMMA IdIsNumber == \A id \in Id : id # None /\ id \in Nat
BY NoneAssumption, BoundsAssumption DEF Id

LEMMA ReadAnswers ==
  ASSUME TypeOK, OutboxTyped, NEW id \in Id, Answering(id),
         \/ DidOpenOrChange \/ DidClose \/ DidChangeWatchedFiles \/ CancelRequest
         \/ Request \/ Shutdown \/ Exit
  PROVE  Answering(id)'
<1>1. inbox # <<>> /\ work = <<>> /\ Consume
  BY DEF DidOpenOrChange, DidClose, DidChangeWatchedFiles, CancelRequest, Request, Shutdown, Exit,
         Reads, Idle
<1>2. CASE DidOpenOrChange
  <2>1. ~Asks(Message, id) /\ outbox' = outbox
    BY <1>2 DEF DidOpenOrChange, Reads, Message, Asks
  <2>2. OutboxAt(id)' = OutboxAt(id)
    BY <2>1 DEF OutboxAt, Answers
  <2>3. work' = <<>> \/ work' = <<Task("publish", Message.doc, None, Message.version)>>
    BY <1>2 DEF DidOpenOrChange
  <2>4. WorkAt(id)' = {}
    <3>1. work' = <<>> => WorkAt(id)' = {}
      BY DEF WorkAt
    <3>2. QED
      BY <2>3, <3>1, SingleTask, IdIsNumber
  <2>5. QED
    BY <1>1, <2>1, <2>2, <2>4, ReadPast
<1>3. CASE DidClose
  <2>1. ~Asks(Message, id) /\ outbox' = Append(outbox, Publication(Message.doc, None, None))
        /\ work' = work
    BY <1>3 DEF DidClose, Reads, Message, Asks
  <2>2. ~Answers(Publication(Message.doc, None, None), id)
    BY DEF Answers, Publication
  <2>3. OutboxAt(id)' = OutboxAt(id)
    BY <2>1, <2>2, OutboxSent
  <2>4. WorkAt(id)' = {}
    BY <1>1, <2>1 DEF WorkAt
  <2>5. QED
    BY <1>1, <2>1, <2>3, <2>4, ReadPast
<1>4. CASE DidChangeWatchedFiles
  <2>1. ~Asks(Message, id) /\ outbox' = outbox
    BY <1>4 DEF DidChangeWatchedFiles, Reads, Message, Asks
  <2>2. OutboxAt(id)' = OutboxAt(id)
    BY <2>1 DEF OutboxAt, Answers
  <2>3. PICK order :
          work' = [i \in DOMAIN order |-> Task("publish", order[i], None, documents[order[i]].version)]
    BY <1>4 DEF DidChangeWatchedFiles
  <2>4. \A i \in DOMAIN work' : work'[i].id = None
    BY <2>3 DEF Task
  <2>5. WorkAt(id)' = {}
    BY <2>4, IdIsNumber DEF WorkAt
  <2>6. QED
    BY <1>1, <2>1, <2>2, <2>5, ReadPast
<1>5. CASE CancelRequest \/ Exit
  <2>1. ~Asks(Message, id) /\ outbox' = outbox /\ work' = work
    BY <1>5 DEF CancelRequest, Exit, Reads, Message, Asks
  <2>2. OutboxAt(id)' = OutboxAt(id)
    BY <2>1 DEF OutboxAt, Answers
  <2>3. WorkAt(id)' = {}
    BY <1>1, <2>1 DEF WorkAt
  <2>4. QED
    BY <1>1, <2>1, <2>2, <2>3, ReadPast
<1>6. CASE Request \/ Shutdown
  <2>1. Message.method \in {"feature", "preview", "shutdown"}
    BY <1>6 DEF Request, Shutdown, Reads, Message
  <2>2. Asks(Message, id) <=> Message.id = id
    BY <2>1 DEF Asks
  <2>3. \/ work' = work /\ \E result : outbox' = Append(outbox, Response(Message.id, result))
        \/ /\ outbox' = outbox
           /\ work' = <<Task("preview", Message.doc, Message.id, documents[Message.doc].version)>>
    BY <1>6 DEF Request, NotOpen, Shutdown
  <2>4. ASSUME NEW result, work' = work, outbox' = Append(outbox, Response(Message.id, result))
        PROVE  Answering(id)'
    <3>1. Answers(Response(Message.id, result), id) <=> Message.id = id
      BY DEF Answers, Response
    <3>2. WorkAt(id)' = {}
      BY <1>1, <2>4 DEF WorkAt
    <3>3. /\ Message.id # id => OutboxAt(id)' = OutboxAt(id)
          /\ Message.id = id /\ OutboxAt(id) = {} => One(OutboxAt(id)')
      BY <2>4, <3>1, OutboxSent
    <3>4. CASE Message.id = id
      BY <1>1, <2>2, <3>2, <3>3, <3>4, ReadRequest
    <3>5. CASE Message.id # id
      BY <1>1, <2>2, <3>2, <3>3, <3>5, ReadPast
    <3>6. QED
      BY <3>4, <3>5
  <2>5. CASE /\ outbox' = outbox
             /\ work' = <<Task("preview", Message.doc, Message.id, documents[Message.doc].version)>>
    <3>1. OutboxAt(id)' = OutboxAt(id)
      BY <2>5 DEF OutboxAt, Answers
    <3>2. /\ Message.id # id => WorkAt(id)' = {}
          /\ Message.id = id => One(WorkAt(id)')
      BY <2>5, SingleTask
    <3>3. CASE Message.id = id
      BY <1>1, <2>2, <3>1, <3>2, <3>3, ReadRequest
    <3>4. CASE Message.id # id
      BY <1>1, <2>2, <3>1, <3>2, <3>4, ReadPast
    <3>5. QED
      BY <3>3, <3>4
  <2>6. QED
    BY <2>3, <2>4, <2>5
<1>7. QED
  BY <1>2, <1>3, <1>4, <1>5, <1>6

LEMMA SendAnswers ==
  ASSUME TypeOK, OutboxTyped, TasksFit, NEW id \in Id, Answering(id), Send PROVE Answering(id)'
<1> DEFINE task == Head(work)
<1>1. work # <<>> /\ work' = Tail(work) /\ inbox' = inbox /\ pending' = pending /\ outbox' = Sent
  BY DEF Send, editor
<1>2. InboxAt(id)' = InboxAt(id)
  BY <1>1 DEF InboxAt, Asks
<1>3. 1 \in DOMAIN work /\ task = work[1] /\ task \in Tasks
  BY <1>1 DEF TypeOK
<1>4. CASE task.kind = "publish"
  <2>1. task.id # id
    BY <1>3, <1>4, IdIsNumber DEF TasksFit
  <2>2. outbox' = outbox \/ outbox' = Append(outbox, Publication(task.doc, task.version, compiled))
    BY <1>1, <1>4 DEF Sent
  <2>3. ~Answers(Publication(task.doc, task.version, compiled), id)
    BY DEF Answers, Publication
  <2>4. outbox' = outbox => OutboxAt(id)' = OutboxAt(id)
    BY DEF OutboxAt, Answers
  <2>5. OutboxAt(id)' = OutboxAt(id)
    BY <2>2, <2>3, <2>4, OutboxSent
  <2>6. /\ WorkAt(id) = {} => WorkAt(id)' = {}
        /\ One(WorkAt(id)) => One(WorkAt(id)')
    BY <1>1, <2>1, WorkTaken
  <2>7. QED
    BY <1>1, <1>2, <2>5, <2>6 DEF Answering, Placed, Nowhere, One
<1>5. CASE task.kind = "preview"
  <2>1. PICK result : outbox' = Append(outbox, Response(task.id, result))
    BY <1>1, <1>5 DEF Sent
  <2>2. Answers(Response(task.id, result), id) <=> task.id = id
    BY DEF Answers, Response
  <2>3. CASE task.id # id
    <3>1. OutboxAt(id)' = OutboxAt(id)
      BY <2>1, <2>2, <2>3, OutboxSent
    <3>2. /\ WorkAt(id) = {} => WorkAt(id)' = {}
          /\ One(WorkAt(id)) => One(WorkAt(id)')
      BY <1>1, <2>3, WorkTaken
    <3>3. QED
      BY <1>1, <1>2, <3>1, <3>2 DEF Answering, Placed, Nowhere, One
  <2>4. CASE task.id = id
    <3>1. WorkAt(id) # {}
      BY <1>1, <2>4, WorkTaken
    <3>2. id \in pending /\ One(WorkAt(id)) /\ InboxAt(id) = {} /\ OutboxAt(id) = {}
      BY <3>1 DEF Answering, Placed, Nowhere
    <3>3. WorkAt(id)' = {} /\ One(OutboxAt(id)')
      BY <1>1, <2>1, <2>2, <2>4, <3>2, WorkTaken, OutboxSent
    <3>4. QED
      BY <1>1, <1>2, <3>2, <3>3 DEF Answering, Placed, One
  <2>5. QED
    BY <2>3, <2>4
<1>6. QED
  BY <1>3, <1>4, <1>5 DEF Tasks

LEMMA ReceiveAnswers ==
  ASSUME TypeOK, OutboxTyped, NEW id \in Id, Answering(id), Receive PROVE Answering(id)'
<1>1. /\ outbox # <<>> /\ outbox' = Tail(outbox) /\ work' = work /\ inbox' = inbox
      /\ pending' = IF Head(outbox).method = "response" THEN pending \ {Head(outbox).id} ELSE pending
  BY DEF Receive, server
<1>2. InboxAt(id)' = InboxAt(id) /\ WorkAt(id)' = WorkAt(id)
  BY <1>1 DEF InboxAt, WorkAt, Asks
<1>3. CASE Answers(Head(outbox), id)
  <2>1. OutboxAt(id) # {} /\ id \notin pending'
    BY <1>1, <1>3, OutboxTaken DEF Answers
  <2>2. One(OutboxAt(id)) /\ WorkAt(id) = {} /\ InboxAt(id) = {}
    BY <2>1 DEF Answering, Placed, Nowhere
  <2>3. OutboxAt(id)' = {}
    BY <1>1, <1>3, <2>2, OutboxTaken
  <2>4. QED
    BY <1>2, <2>1, <2>2, <2>3 DEF Answering, Nowhere
<1>4. CASE ~Answers(Head(outbox), id)
  <2>1. id \in pending' <=> id \in pending
    BY <1>1, <1>4 DEF Answers
  <2>2. /\ OutboxAt(id) = {} => OutboxAt(id)' = {}
        /\ One(OutboxAt(id)) => One(OutboxAt(id)')
    BY <1>1, <1>4, OutboxTaken
  <2>3. QED
    BY <1>2, <2>1, <2>2 DEF Answering, Placed, Nowhere, One
<1>5. QED
  BY <1>3, <1>4

\* A request that is made has a number that none on its way has.
Numbered == (stopping = "no" => 0 \notin pending) /\ pending \subseteq 0..requests

\* The editor says something that is not the request, or makes the request.
LEMMA TellAnswers ==
  ASSUME TypeOK, NEW id \in Id, Answering(id), NEW m, Tell(m),
         \/ ~Asks(m, id) /\ (id \in pending' <=> id \in pending)
         \/ Asks(m, id) /\ id \notin pending /\ id \in pending'
  PROVE  Answering(id)'
<1>1. OutboxAt(id)' = OutboxAt(id) /\ WorkAt(id)' = WorkAt(id) /\ inbox' = Append(inbox, m)
  BY DEF Tell, server, OutboxAt, WorkAt, Answers
<1>2. CASE ~Asks(m, id) /\ (id \in pending' <=> id \in pending)
  <2>1. InboxAt(id)' = InboxAt(id)
    BY <1>1, <1>2, InboxTold
  <2>2. QED
    BY <1>1, <1>2, <2>1 DEF Answering, Placed, Nowhere, One
<1>3. CASE Asks(m, id) /\ id \notin pending /\ id \in pending'
  <2>1. Nowhere(id)
    BY <1>3 DEF Answering
  <2>2. One(InboxAt(id)')
    BY <1>1, <1>3, <2>1, InboxTold DEF Nowhere
  <2>3. QED
    BY <1>1, <1>3, <2>1, <2>2 DEF Answering, Placed, Nowhere, One
<1>4. QED
  BY <1>2, <1>3

LEMMA AnsweringStep ==
  ASSUME TypeOK, OutboxTyped, TasksFit, Numbered, NEW id \in Id, Answering(id), [Next]_vars
  PROVE  Answering(id)'
<1>1. CASE UNCHANGED <<inbox, work, outbox, pending>>
  BY <1>1 DEF Answering, Placed, Nowhere, One, InboxAt, WorkAt, OutboxAt, Asks, Answers
<1>2. ASSUME NEW m, Tell(m), m.method \notin {"feature", "preview", "shutdown"}, pending' = pending
      PROVE  Answering(id)'
  BY <1>2, TellAnswers DEF Asks
<1>3. ASSUME NEW d \in Doc, Open(d) PROVE Answering(id)'
  <2>1. [method |-> "didOpen", doc |-> d, text |-> <<>>, version |-> 1].method
          \notin {"feature", "preview", "shutdown"}
    OBVIOUS
  <2>2. QED
    BY <1>2, <1>3, <2>1 DEF Open
<1>4. ASSUME NEW d \in Doc, Close(d) PROVE Answering(id)'
  <2>1. [method |-> "didClose", doc |-> d].method \notin {"feature", "preview", "shutdown"}
    OBVIOUS
  <2>2. QED
    BY <1>2, <1>4, <2>1 DEF Close
<1>5. ASSUME NEW d \in Doc, NEW changes \in Edits, ChangeText(d, changes) PROVE Answering(id)'
  <2> DEFINE m == [method |-> "didChange", doc |-> d, changes |-> changes,
                   version |-> buffers[d].version + 1]
  <2>1. m.method \notin {"feature", "preview", "shutdown"}
    OBVIOUS
  <2>2. Tell(m) /\ pending' = pending
    BY <1>5 DEF ChangeText
  <2> HIDE DEF m
  <2>3. ~Asks(m, id)
    BY <2>1 DEF Asks
  <2>4. QED
    BY <2>2, <2>3, TellAnswers
<1>6. Watch => Answering(id)'
  <2>1. [method |-> "didChangeWatchedFiles"].method \notin {"feature", "preview", "shutdown"}
    OBVIOUS
  <2>2. QED
    BY <1>2, <2>1 DEF Watch
<1>7. ASSUME NEW d \in Doc, NEW method \in {"feature", "preview"}, Ask(method, d)
      PROVE  Answering(id)'
  <2> DEFINE m == [method |-> method, doc |-> d, id |-> requests + 1]
  <2>1. Tell(m) /\ pending' = pending \cup {requests + 1}
    BY <1>7 DEF Ask
  <2>2. requests + 1 \notin pending
    BY BoundsAssumption DEF Numbered, TypeOK, Id
  <2>3. Asks(m, id) <=> id = requests + 1
    BY DEF Asks
  <2> HIDE DEF m
  <2>4. QED
    BY <2>1, <2>2, <2>3, TellAnswers
<1>8. ASSUME NEW i \in pending, CancelAsked(i) PROVE Answering(id)'
  <2>1. [method |-> "$/cancelRequest", id |-> i].method \notin {"feature", "preview", "shutdown"}
    OBVIOUS
  <2>2. QED
    BY <1>2, <1>8, <2>1 DEF CancelAsked
<1>9. Stop => Answering(id)'
  <2>1. CASE /\ stopping = "no" /\ pending' = pending \cup {0}
             /\ Tell([method |-> "shutdown", id |-> 0])
    <3>1. Asks([method |-> "shutdown", id |-> 0], id) <=> id = 0
      BY DEF Asks
    <3>2. 0 \notin pending
      BY <2>1 DEF Numbered
    <3>3. QED
      BY <2>1, <3>1, <3>2, TellAnswers
  <2>2. CASE Tell([method |-> "exit"]) /\ pending' = pending
    <3>1. [method |-> "exit"].method \notin {"feature", "preview", "shutdown"}
      OBVIOUS
    <3>2. QED
      BY <1>2, <2>2, <3>1
  <2>3. QED
    BY <2>1, <2>2 DEF Stop, Speaks
<1>10. Compile \/ (\E f \in File : Write(f)) \/ UNCHANGED vars
         => UNCHANGED <<inbox, work, outbox, pending>>
  BY DEF Compile, Write, vars, editor, server
<1>11. QED
  BY <1>1, <1>3, <1>4, <1>5, <1>6, <1>7, <1>8, <1>9, <1>10, StepCases, ReadAnswers, SendAnswers,
     ReceiveAnswers

LEMMA NumberedStep == ASSUME TypeOK, Numbered, [Next]_vars PROVE Numbered'
<1>1. requests \in Nat /\ stopping \in {"no", "shutdown", "exit"}
  BY BoundsAssumption DEF TypeOK, Id
<1>2. CASE UNCHANGED <<requests, stopping>> /\ pending' \subseteq pending
  BY <1>2 DEF Numbered
<1>3. CASE \E d \in Doc, method \in {"feature", "preview"} : Ask(method, d)
  <2>1. requests' = requests + 1 /\ pending' = pending \cup {requests + 1} /\ stopping' = stopping
    BY <1>3 DEF Ask
  <2>2. QED
    BY <1>1, <2>1 DEF Numbered
<1>4. CASE Stop
  <2>1. stopping' # "no" /\ requests' = requests /\ pending' \subseteq pending \cup {0}
    BY <1>4 DEF Stop
  <2>2. QED
    BY <1>1, <2>1 DEF Numbered
<1>5. QED
  <2>1. /\ Serve => UNCHANGED <<requests, stopping, pending>>
        /\ UNCHANGED vars => UNCHANGED <<requests, stopping, pending>>
    BY DEF Serve, DidOpenOrChange, DidClose, DidChangeWatchedFiles, CancelRequest, Request,
           Shutdown, Exit, Compile, Send, Consume, editor, vars
  <2>2. Receive => UNCHANGED <<requests, stopping>> /\ pending' \subseteq pending
    BY DEF Receive
  <2>3. \/ \E d \in Doc : Open(d) \/ Close(d) \/ \E changes \in Edits : ChangeText(d, changes)
        \/ \E f \in File : Write(f)
        \/ Watch
        \/ \E id \in pending : CancelAsked(id)
        => UNCHANGED <<requests, stopping, pending>>
    BY DEF Open, Close, ChangeText, Write, Watch, CancelAsked
  <2>4. QED
    BY <1>2, <1>3, <1>4, <2>1, <2>2, <2>3 DEF Next, Edit

\* No request is lost and none is answered twice, not when the editor cancels it,
\* when its document is not open or when its preview has become stale.
THEOREM RequestsHaveOneAnswer == Spec => []AnsweredOnce
<1> DEFINE Inv == Numbered /\ \A id \in Id : Answering(id)
<1>1. Init => Inv
  BY DEF Init, Numbered, Answering, Nowhere, InboxAt, WorkAt, OutboxAt
<1>2. TypeOK /\ OutboxTyped /\ TasksFit /\ Inv /\ [Next]_vars => Inv'
  <2> SUFFICES ASSUME TypeOK, OutboxTyped, TasksFit, Inv, [Next]_vars PROVE Inv'
    OBVIOUS
  <2>1. ASSUME NEW id \in Id PROVE Answering(id)'
    BY AnsweringStep
  <2>2. QED
    BY <2>1, NumberedStep DEF Id
<1>3. Inv => AnsweredOnce
  BY PlacesAre DEF Answering, AnsweredOnce
<1>4. QED
  BY <1>1, <1>2, <1>3, Typing, PTL DEF Spec

-----------------------------------------------------------------------------
(***************************************************************************)
(* The diagnostics are those of the text and the files.                    *)
(***************************************************************************)
\* The report the editor shows for d when it has received what is on its way.
Reports(d) == {i \in DOMAIN outbox : outbox[i].method = "publishDiagnostics" /\ outbox[i].doc = d}
Latest(d, r) ==
  \/ Reports(d) = {} /\ shown[d] = r
  \/ \E i \in Reports(d) : outbox[i].report = r /\ \A j \in Reports(d) : j <= i

\* A write that the server has yet to hear of.
Stirred == unseen \/ \E i \in DOMAIN inbox : inbox[i].method = "didChangeWatchedFiles"
Current(d) == Compiled(d, documents[d].text)
InHand(d) == \E i \in DOMAIN work : work[i].kind = "publish" /\ work[i].doc = d
Settling(d) ==
  IF documents[d] = None THEN Latest(d, None)
  ELSE Stirred \/ InHand(d) \/ Latest(d, Current(d))
ResultFresh == compiled # None => Stirred \/ compiled = Current(Head(work).doc)

LEMMA LatestKept ==
  ASSUME NEW d, NEW r, Latest(d, r), UNCHANGED <<outbox, shown>> PROVE Latest(d, r)'
BY DEF Latest, Reports

LEMMA LatestAppend ==
  ASSUME OutboxTyped, NEW m, outbox' = Append(outbox, m), UNCHANGED shown, NEW d, NEW r
  PROVE  /\ m.method = "publishDiagnostics" /\ m.doc = d /\ m.report = r => Latest(d, r)'
         /\ ~(m.method = "publishDiagnostics" /\ m.doc = d) /\ Latest(d, r) => Latest(d, r)'
<1> DEFINE n == Len(outbox)
<1>1. /\ n \in Nat /\ DOMAIN outbox = 1..n /\ DOMAIN outbox' = 1..(n + 1) /\ outbox'[n + 1] = m
      /\ \A i \in 1..n : outbox'[i] = outbox[i]
  BY Appending DEF OutboxTyped
<1> HIDE DEF n
<1>2. /\ \A i \in 1..n : i \in Reports(d)' <=> i \in Reports(d)
      /\ n + 1 \in Reports(d)' <=> m.method = "publishDiagnostics" /\ m.doc = d
      /\ Reports(d) \subseteq 1..n /\ Reports(d)' \subseteq 1..(n + 1)
  BY <1>1 DEF Reports
<1>3. ASSUME m.method = "publishDiagnostics" /\ m.doc = d /\ m.report = r PROVE Latest(d, r)'
  <2>1. n + 1 \in Reports(d)' /\ outbox'[n + 1].report = r
    BY <1>1, <1>2, <1>3
  <2>2. \A j \in Reports(d)' : j <= n + 1
    BY <1>1, <1>2
  <2>3. QED
    BY <2>1, <2>2 DEF Latest
<1>4. ASSUME ~(m.method = "publishDiagnostics" /\ m.doc = d), Latest(d, r) PROVE Latest(d, r)'
  <2>1. \A i : i \in Reports(d)' <=> i \in Reports(d)
    BY <1>1, <1>2, <1>4
  <2>2. \A i \in Reports(d) : outbox'[i] = outbox[i]
    BY <1>1, <1>2
  <2>3. Reports(d)' = Reports(d)
    BY <2>1
  <2>4. QED
    BY <1>4, <2>2, <2>3 DEF Latest
<1>5. QED
  BY <1>3, <1>4

LEMMA LatestReceived ==
  ASSUME TypeOK, OutboxTyped, Receive, NEW d \in Doc, NEW r, Latest(d, r) PROVE Latest(d, r)'
<1> DEFINE n == Len(outbox)
           m == outbox[1]
<1>1. /\ n \in Nat /\ n >= 1 /\ Head(outbox) = m /\ DOMAIN outbox = 1..n
      /\ DOMAIN outbox' = 1..(n - 1) /\ \A i \in 1..(n - 1) : outbox'[i] = outbox[i + 1]
  BY Taking DEF Receive, OutboxTyped
<1>2. m.method \in {"publishDiagnostics", "response"}
      /\ (m.method = "publishDiagnostics" => m.doc \in Doc)
  BY <1>1 DEF OutboxTyped, IsToEditor
<1>3. shown' = IF m.method = "publishDiagnostics" THEN [shown EXCEPT ![m.doc] = m.report] ELSE shown
  BY <1>1, <1>2 DEF Receive
<1>4. DOMAIN shown = Doc
  BY DEF TypeOK
<1>5. shown'[d] = IF 1 \in Reports(d) THEN m.report ELSE shown[d]
  <2>1. 1 \in Reports(d) <=> m.method = "publishDiagnostics" /\ m.doc = d
    BY <1>1 DEF Reports
  <2>2. CASE m.method = "publishDiagnostics" /\ m.doc = d
    BY <1>3, <1>4, <2>1, <2>2
  <2>3. CASE m.method = "publishDiagnostics" /\ m.doc # d
    BY <1>3, <1>4, <2>1, <2>3
  <2>4. CASE m.method # "publishDiagnostics"
    BY <1>3, <2>1, <2>4
  <2>5. QED
    BY <2>2, <2>3, <2>4
<1>6. \A i \in 1..(n - 1) : i \in Reports(d)' <=> i + 1 \in Reports(d)
  <2>1. TAKE i \in 1..(n - 1)
  <2>2. i \in DOMAIN outbox' /\ i + 1 \in DOMAIN outbox /\ outbox'[i] = outbox[i + 1]
    BY <1>1
  <2>3. QED
    BY <2>2 DEF Reports
<1>7. Reports(d) \subseteq 1..n /\ Reports(d)' \subseteq 1..(n - 1)
  BY <1>1 DEF Reports
<1> HIDE DEF n
<1>8. CASE Reports(d) = {}
  <2>1. Reports(d)' = {}
    BY <1>6, <1>7, <1>8
  <2>2. shown'[d] = r
    BY <1>5, <1>8 DEF Latest
  <2>3. QED
    BY <2>1, <2>2 DEF Latest
<1>9. CASE \E i \in Reports(d) : outbox[i].report = r /\ \A j \in Reports(d) : j <= i
  <2>1. PICK i \in Reports(d) : outbox[i].report = r /\ \A j \in Reports(d) : j <= i
    BY <1>9
  <2>2. CASE i = 1
    <3>1. \A j \in 1..(n - 1) : j + 1 \notin Reports(d)
      BY <1>1, <2>1, <2>2
    <3>2. Reports(d)' = {}
      BY <1>6, <1>7, <3>1
    <3>3. QED
      BY <1>5, <2>1, <2>2, <3>2 DEF Latest
  <2>3. CASE i # 1
    <3>1. i - 1 \in 1..(n - 1) /\ (i - 1) + 1 = i
      BY <1>1, <1>7, <2>3
    <3>2. i - 1 \in Reports(d)' /\ outbox'[i - 1].report = r
      BY <1>1, <1>6, <2>1, <3>1
    <3>3. ASSUME NEW j \in Reports(d)' PROVE j <= i - 1
      <4>1. j \in 1..(n - 1)
        BY <1>7
      <4>2. j + 1 \in Reports(d)
        BY <1>6, <4>1
      <4>3. j + 1 <= i
        BY <2>1, <4>2
      <4>4. QED
        BY <1>1, <1>7, <4>1, <4>3
    <3>4. QED
      BY <3>2, <3>3 DEF Latest
  <2>4. QED
    BY <2>2, <2>3
<1>10. QED
  BY <1>8, <1>9 DEF Latest

\* A message that is told or read leaves a write unheard of, unless it tells of it.
LEMMA StirredTold ==
  ASSUME TypeOK, NEW m, Tell(m) PROVE Stirred => Stirred' \/ (unseen /\ ~unseen')
<1>1. /\ DOMAIN inbox = 1..Len(inbox) /\ DOMAIN inbox' = 1..(Len(inbox) + 1)
      /\ \A i \in 1..Len(inbox) : inbox'[i] = inbox[i]
      /\ Len(inbox) \in Nat
  BY Appending DEF Tell, TypeOK, Ordered
<1>2. QED
  BY <1>1 DEF Stirred

LEMMA StirredRead ==
  ASSUME TypeOK, inbox # <<>>, Consume, Message.method # "didChangeWatchedFiles"
  PROVE  Stirred => Stirred'
<1>1. /\ Len(inbox) \in Nat /\ Len(inbox) >= 1 /\ Message = inbox[1]
      /\ DOMAIN inbox = 1..Len(inbox) /\ DOMAIN inbox' = 1..(Len(inbox) - 1)
      /\ \A i \in 1..(Len(inbox) - 1) : inbox'[i] = inbox[i + 1]
  BY Taking DEF Consume, TypeOK, Ordered, Message
<1>2. unseen' = unseen
  BY DEF Consume, editor
<1>3. ASSUME NEW i \in DOMAIN inbox, inbox[i].method = "didChangeWatchedFiles"
      PROVE  \E j \in DOMAIN inbox' : inbox'[j].method = "didChangeWatchedFiles"
  <2>1. i # 1 /\ i - 1 \in 1..(Len(inbox) - 1) /\ (i - 1) + 1 = i
    BY <1>1, <1>3
  <2>2. inbox'[i - 1] = inbox[i]
    BY <1>1, <2>1
  <2>3. QED
    BY <1>1, <1>3, <2>1, <2>2
<1>4. QED
  BY <1>2, <1>3 DEF Stirred

\* The order of the documents leaves none of them out.
LEMMA OrderCovers ==
  ASSUME NEW S, IsFiniteSet(S), NEW order \in SetToSeqs(S)
  PROVE  \A d \in S : \E i \in DOMAIN order : order[i] = d
<1> DEFINE n == Cardinality(S)
<1>1. n \in Nat
  BY FS_CardinalityType
<1>2. order \in [1..n -> S] /\ \A i, j \in 1..n : i # j => order[i] # order[j]
  BY DEF SetToSeqs
<1>3. order \in Injection(1..n, S)
  BY <1>2 DEF Injection, IsInjective
<1>4. Cardinality(1..n) = n
  BY <1>1, FS_Interval
<1>5. order \in Surjection(1..n, S)
  BY <1>3, <1>4, FS_Injection
<1>6. QED
  BY <1>2, <1>5 DEF Surjection

LEMMA Settles ==
  ASSUME NEW d, Settling(d), documents'[d] = documents[d], disk' = disk, Stirred => Stirred',
         InHand(d) => InHand(d)', \A r : Latest(d, r) => Latest(d, r)'
  PROVE  Settling(d)'
<1>1. Current(d)' = Current(d)
  BY DEF Current, Compiled
<1>2. CASE documents[d] = None
  BY <1>2 DEF Settling
<1>3. CASE documents[d] # None /\ ~Stirred /\ ~InHand(d)
  <2>1. PICK r : r = Current(d)
    OBVIOUS
  <2>2. Latest(d, r)'
    BY <1>3, <2>1 DEF Settling
  <2>3. Latest(d, Current(d))'
    BY <1>1, <2>1, <2>2 DEF Latest
  <2>4. QED
    BY <1>3, <2>3 DEF Settling
<1>4. QED
  BY <1>2, <1>3 DEF Settling

LEMMA StoredElsewhere ==
  ASSUME NEW store \in [Doc -> Buffer \cup {None}], NEW m \in ToServer, NEW d \in Doc
  PROVE  /\ m.method \in {"didOpen", "didChange", "didClose"} /\ m.doc # d
              => Stored(store, m)[d] = store[d]
         /\ m.method \in {"didOpen", "didChange"} /\ Stored(store, m)[d] = None => store[d] = None
         /\ m.method = "didClose" /\ m.doc = d => Stored(store, m)[d] = None
<1>1. CASE m.method = "didOpen"
  <2>1. /\ Stored(store, m) = [store EXCEPT ![m.doc] = [text |-> m.text, version |-> m.version]]
        /\ [text |-> m.text, version |-> m.version] \in Buffer
    BY <1>1 DEF Stored, ToServer, Buffer
  <2>2. [text |-> m.text, version |-> m.version] # None
    BY <2>1, NoneAssumption
  <2>3. QED
    BY <1>1, <2>1, <2>2
<1>2. CASE m.method = "didChange" /\ store[m.doc] # None
  <2> DEFINE b == [text |-> Edited(store[m.doc].text, m.changes), version |-> m.version]
  <2>1. m.doc \in Doc /\ m.changes \in Edits /\ m.version \in Nat /\ store[m.doc] \in Buffer
    BY <1>2 DEF ToServer
  <2>2. Edited(store[m.doc].text, m.changes) \in Text
    BY <2>1, EditedTyped DEF Buffer
  <2>3. b \in Buffer
    BY <2>1, <2>2 DEF Buffer
  <2>4. Stored(store, m) = [store EXCEPT ![m.doc] = b]
    BY <1>2 DEF Stored
  <2>5. b # None
    BY <2>3, NoneAssumption
  <2> HIDE DEF b
  <2>6. QED
    BY <1>2, <2>4, <2>5
<1>3. CASE m.method = "didChange" /\ store[m.doc] = None
  <2>1. Stored(store, m) = store
    BY <1>3 DEF Stored
  <2>2. QED
    BY <1>3, <2>1
<1>4. CASE m.method = "didClose"
  BY <1>4 DEF Stored
<1>5. QED
  BY <1>1, <1>2, <1>3, <1>4

\* While the server reads a message no document is in hand.
LEMMA ReadSettles ==
  ASSUME TypeOK, OutboxTyped, NEW d \in Doc, Settling(d),
         \/ DidOpenOrChange \/ DidClose \/ DidChangeWatchedFiles \/ CancelRequest
         \/ Request \/ Shutdown \/ Exit
  PROVE  Settling(d)'
<1>1. inbox # <<>> /\ work = <<>> /\ Consume /\ disk' = disk /\ shown' = shown
  BY DEF DidOpenOrChange, DidClose, DidChangeWatchedFiles, CancelRequest, Request, Shutdown, Exit,
         Reads, Idle, Consume, editor
<1>2. ~InHand(d)
  BY <1>1 DEF InHand
<1>3. Message \in ToServer /\ documents \in [Doc -> Buffer \cup {None}]
  BY <1>1, MessageTyped DEF TypeOK
<1>4. outbox' = outbox => \A r : Latest(d, r) => Latest(d, r)'
  BY <1>1, LatestKept
<1>5. CASE DidOpenOrChange
  <2>1. /\ Message.method \in {"didOpen", "didChange"} /\ outbox' = outbox
        /\ documents' = Stored(documents, Message)
    BY <1>5 DEF DidOpenOrChange, Reads, Message
  <2>2. CASE Message.doc # d
    <3>1. documents'[d] = documents[d]
      BY <1>3, <2>1, <2>2, StoredElsewhere
    <3>2. Stirred => Stirred'
      BY <1>1, <2>1, StirredRead
    <3>3. QED
      BY <1>1, <1>2, <1>4, <2>1, <3>1, <3>2, Settles
  <2>3. CASE Message.doc = d /\ documents'[d] = None
    <3>1. documents[d] = None
      BY <1>3, <2>1, <2>3, StoredElsewhere
    <3>2. Latest(d, None)'
      BY <1>4, <2>1, <3>1 DEF Settling
    <3>3. QED
      BY <2>3, <3>2 DEF Settling
  <2>4. CASE Message.doc = d /\ documents'[d] # None
    <3>1. work' = <<Task("publish", d, None, Message.version)>>
      BY <1>5, <2>4 DEF DidOpenOrChange
    <3>2. 1 \in DOMAIN work' /\ work'[1].kind = "publish" /\ work'[1].doc = d
      BY <3>1 DEF Task
    <3>3. InHand(d)'
      BY <3>2 DEF InHand
    <3>4. QED
      BY <2>4, <3>3 DEF Settling
  <2>5. QED
    BY <2>2, <2>3, <2>4
<1>6. CASE DidClose
  <2>1. /\ Message.method = "didClose" /\ documents' = Stored(documents, Message)
        /\ outbox' = Append(outbox, Publication(Message.doc, None, None))
    BY <1>6 DEF DidClose, Reads, Message
  <2> DEFINE m == Publication(Message.doc, None, None)
  <2>2. m.method = "publishDiagnostics" /\ m.doc = Message.doc /\ m.report = None
    BY DEF Publication
  <2> HIDE DEF m
  <2>3. CASE Message.doc = d
    <3>1. documents'[d] = None
      BY <1>3, <2>1, <2>3, StoredElsewhere
    <3>2. Latest(d, None)'
      BY <1>1, <2>1, <2>2, <2>3, LatestAppend DEF m
    <3>3. QED
      BY <3>1, <3>2 DEF Settling
  <2>4. CASE Message.doc # d
    <3>1. documents'[d] = documents[d]
      BY <1>3, <2>1, <2>4, StoredElsewhere
    <3>2. Stirred => Stirred'
      BY <1>1, <2>1, StirredRead
    <3>3. \A r : Latest(d, r) => Latest(d, r)'
      BY <1>1, <2>1, <2>2, <2>4, LatestAppend DEF m
    <3>4. QED
      BY <1>1, <1>2, <3>1, <3>2, <3>3, Settles
  <2>5. QED
    BY <2>3, <2>4
<1>7. CASE DidChangeWatchedFiles
  <2> DEFINE S == {e \in Doc : documents[e] # None}
  <2>1. PICK order \in SetToSeqs(S) :
          work' = [i \in DOMAIN order |-> Task("publish", order[i], None, documents[order[i]].version)]
    BY <1>7 DEF DidChangeWatchedFiles
  <2>2. documents' = documents /\ outbox' = outbox
    BY <1>7 DEF DidChangeWatchedFiles
  <2>3. CASE documents[d] = None
    BY <1>4, <2>2, <2>3 DEF Settling
  <2>4. CASE documents[d] # None
    <3>1. IsFiniteSet(S) /\ d \in S
      BY <2>4, DocAssumption, FS_Subset
    <3> HIDE DEF S
    <3>2. PICK i \in DOMAIN order : order[i] = d
      BY <2>1, <3>1, OrderCovers
    <3>3. i \in DOMAIN work' /\ work'[i] = Task("publish", d, None, documents[d].version)
      BY <2>1, <3>2
    <3>4. InHand(d)'
      BY <3>3 DEF InHand, Task
    <3>5. QED
      BY <2>2, <2>4, <3>4 DEF Settling
  <2>5. QED
    BY <2>3, <2>4
<1>8. CASE CancelRequest \/ Request \/ Shutdown \/ Exit
  <2>1. documents' = documents /\ Message.method # "didChangeWatchedFiles"
    BY <1>8 DEF CancelRequest, Request, Shutdown, Exit, Reads, Message
  <2>2. outbox' = outbox \/ \E result : outbox' = Append(outbox, Response(Message.id, result))
    BY <1>8 DEF CancelRequest, Request, NotOpen, Shutdown, Exit
  <2>3. ASSUME NEW result, outbox' = Append(outbox, Response(Message.id, result))
        PROVE  \A r : Latest(d, r) => Latest(d, r)'
    <3> DEFINE m == Response(Message.id, result)
    <3>1. m.method = "response"
      BY DEF Response
    <3>2. outbox' = Append(outbox, m)
      BY <2>3
    <3> HIDE DEF m
    <3>3. QED
      BY <1>1, <3>1, <3>2, LatestAppend
  <2>4. Stirred => Stirred'
    BY <1>1, <2>1, StirredRead
  <2>5. QED
    BY <1>1, <1>2, <1>4, <2>1, <2>2, <2>3, <2>4, Settles
<1>9. QED
  BY <1>5, <1>6, <1>7, <1>8

LEMMA SendSettles ==
  ASSUME TypeOK, OutboxTyped, TasksFit, ResultFresh, NEW d \in Doc, Settling(d), Send
  PROVE  Settling(d)'
<1> DEFINE task == Head(work)
<1>1. /\ work # <<>> /\ work' = Tail(work) /\ inbox' = inbox /\ unseen' = unseen /\ disk' = disk
      /\ shown' = shown /\ documents' = documents /\ outbox' = Sent /\ compiled # None
  BY DEF Send, editor
<1>2. /\ Len(work) \in Nat /\ Len(work) >= 1 /\ task = work[1]
      /\ DOMAIN work = 1..Len(work) /\ DOMAIN work' = 1..(Len(work) - 1)
      /\ \A i \in 1..(Len(work) - 1) : work'[i] = work[i + 1]
  BY <1>1, Taking DEF TypeOK, Ordered
<1>3. HasVersion(task.doc, task.version)
  BY <1>2 DEF TasksFit
<1>4. Stirred' = Stirred /\ Current(d)' = Current(d)
  BY <1>1 DEF Stirred, Current, Compiled
<1>5. ASSUME NEW m, outbox' = Append(outbox, m), ~(m.method = "publishDiagnostics" /\ m.doc = d)
      PROVE  \A r : Latest(d, r) => Latest(d, r)'
  BY <1>1, <1>5, LatestAppend
<1>6. CASE task.kind = "publish" /\ task.doc = d
  <2> DEFINE m == Publication(d, task.version, compiled)
  <2>1. outbox' = Append(outbox, m)
    BY <1>1, <1>3, <1>6 DEF Sent
  <2>2. m.method = "publishDiagnostics" /\ m.doc = d /\ m.report = compiled
    BY DEF Publication
  <2> HIDE DEF m
  <2>3. PICK r : r = compiled
    OBVIOUS
  <2>4. Latest(d, r)'
    BY <1>1, <2>1, <2>2, <2>3, LatestAppend
  <2>5. Stirred \/ r = Current(d)
    BY <1>1, <1>6, <2>3 DEF ResultFresh
  <2>6. Stirred' \/ Latest(d, Current(d))'
    BY <1>4, <2>4, <2>5 DEF Latest
  <2>7. documents'[d] # None
    BY <1>1, <1>3, <1>6 DEF HasVersion
  <2>8. QED
    BY <2>6, <2>7 DEF Settling
<1>7. CASE ~(task.kind = "publish" /\ task.doc = d)
  <2>1. InHand(d) => InHand(d)'
    <3>1. SUFFICES ASSUME NEW i \in DOMAIN work, work[i].kind = "publish" /\ work[i].doc = d
                   PROVE  InHand(d)'
      BY DEF InHand
    <3>2. i # 1 /\ i - 1 \in DOMAIN work' /\ (i - 1) + 1 = i
      BY <1>2, <1>7, <3>1
    <3>3. work'[i - 1] = work[i]
      BY <1>2, <3>2
    <3>4. QED
      BY <3>1, <3>2, <3>3 DEF InHand
  <2>2. \A r : Latest(d, r) => Latest(d, r)'
    <3>1. CASE task.kind = "publish"
      <4> DEFINE m == Publication(task.doc, task.version, compiled)
      <4>1. outbox' = Append(outbox, m)
        BY <1>1, <1>3, <3>1 DEF Sent
      <4>2. m.doc # d
        BY <1>7, <3>1 DEF Publication
      <4> HIDE DEF m
      <4>3. QED
        BY <1>5, <4>1, <4>2
    <3>2. CASE task.kind # "publish"
      <4>1. PICK result : outbox' = Append(outbox, Response(task.id, result))
        BY <1>1, <3>2 DEF Sent
      <4>2. Response(task.id, result).method = "response"
        BY DEF Response
      <4>3. QED
        BY <1>5, <4>1, <4>2
    <3>3. QED
      BY <3>1, <3>2
  <2>3. QED
    BY <1>1, <1>4, <2>1, <2>2, Settles
<1>8. QED
  BY <1>6, <1>7

\* What the editor says is about its own texts.
LEMMA TellSettles ==
  ASSUME TypeOK, NEW d, Settling(d), NEW m, Tell(m), UNCHANGED <<disk, shown>>, unseen' = unseen
  PROVE  Settling(d)'
<1>1. /\ documents' = documents /\ work' = work /\ outbox' = outbox
  BY DEF Tell, server
<1>2. Stirred => Stirred'
  BY StirredTold
<1>3. InHand(d) => InHand(d)'
  BY <1>1 DEF InHand
<1>4. \A r : Latest(d, r) => Latest(d, r)'
  BY <1>1, LatestKept
<1>5. QED
  BY <1>1, <1>2, <1>3, <1>4, Settles

LEMMA StirringSettles ==
  ASSUME NEW d, Settling(d), Stirred', UNCHANGED <<documents, outbox, shown>> PROVE Settling(d)'
<1>1. Latest(d, None) => Latest(d, None)'
  BY LatestKept
<1>2. QED
  BY <1>1 DEF Settling

LEMMA WatchStirs == ASSUME TypeOK, Watch PROVE Stirred'
<1> DEFINE m == [method |-> "didChangeWatchedFiles"]
<1>1. inbox' = Append(inbox, m)
  BY DEF Watch, Tell
<1>2. Len(inbox) + 1 \in DOMAIN inbox' /\ inbox'[Len(inbox) + 1] = m
  BY <1>1, Appending DEF TypeOK, Ordered
<1>3. QED
  BY <1>2 DEF Stirred

LEMMA SettlingStep ==
  ASSUME TypeOK, OutboxTyped, TasksFit, ResultFresh, NEW d \in Doc, Settling(d), [Next]_vars
  PROVE  Settling(d)'
<1>1. CASE Compile \/ UNCHANGED vars
  <2>1. UNCHANGED <<documents, disk, inbox, unseen, work, outbox, shown>>
    BY <1>1 DEF Compile, editor, server, vars
  <2>2. \A r : Latest(d, r) => Latest(d, r)'
    BY <2>1, LatestKept
  <2>3. (Stirred => Stirred') /\ (InHand(d) => InHand(d)')
    BY <2>1 DEF Stirred, InHand
  <2>4. QED
    BY <2>1, <2>2, <2>3, Settles
<1>2. ASSUME NEW e \in Doc, Open(e) \/ Close(e) PROVE Settling(d)'
  BY <1>2, TellSettles DEF Open, Close
<1>3. ASSUME NEW e \in Doc, NEW changes \in Edits, ChangeText(e, changes) PROVE Settling(d)'
  BY <1>3, TellSettles DEF ChangeText
<1>4. (\E f \in File : Write(f)) => Settling(d)'
  BY StirringSettles DEF Write, server, Stirred
<1>5. Watch => Settling(d)'
  BY WatchStirs, StirringSettles DEF Watch, Tell, server
<1>6. ASSUME NEW e \in Doc, NEW method \in {"feature", "preview"}, Ask(method, e)
      PROVE  Settling(d)'
  <2>1. Tell([method |-> method, doc |-> e, id |-> requests + 1])
    BY <1>6 DEF Ask
  <2>2. UNCHANGED <<disk, shown, unseen>>
    BY <1>6 DEF Ask
  <2>3. QED
    BY <2>1, <2>2, TellSettles
<1>7. (\E id \in pending : CancelAsked(id)) \/ Stop => Settling(d)'
  BY TellSettles DEF CancelAsked, Stop
<1>8. Receive => Settling(d)'
  <2> SUFFICES ASSUME Receive PROVE Settling(d)'
    OBVIOUS
  <2>1. UNCHANGED <<documents, disk, inbox, unseen, work>>
    BY DEF Receive, server
  <2>2. (Stirred => Stirred') /\ (InHand(d) => InHand(d)')
    BY <2>1 DEF Stirred, InHand
  <2>3. QED
    BY <2>1, <2>2, LatestReceived, Settles
<1>9. QED
  BY <1>1, <1>2, <1>3, <1>4, <1>5, <1>6, <1>7, <1>8, ReadSettles, SendSettles, StepCases

LEMMA ResultStep == ASSUME TypeOK, ResultFresh, [Next]_vars PROVE ResultFresh'
<1>1. CASE Compile
  <2>1. compiled' = Current(Head(work).doc)
    BY <1>1 DEF Compile, Current
  <2>2. UNCHANGED <<work, documents, disk>>
    BY <1>1 DEF Compile, editor
  <2>3. QED
    BY <2>1, <2>2 DEF ResultFresh, Current, Compiled
<1>2. CASE Send
  BY <1>2 DEF Send, ResultFresh
<1>3. ASSUME compiled = None, UNCHANGED compiled PROVE ResultFresh'
  BY <1>3 DEF ResultFresh
<1>4. ASSUME \/ DidOpenOrChange \/ DidClose \/ DidChangeWatchedFiles \/ CancelRequest
             \/ Request \/ Shutdown \/ Exit
      PROVE  ResultFresh'
  <2>1. work = <<>> /\ UNCHANGED compiled
    BY <1>4 DEF DidOpenOrChange, DidClose, DidChangeWatchedFiles, CancelRequest, Request, Shutdown,
                Exit, Reads, Idle
  <2>2. compiled = None
    BY <2>1 DEF TypeOK
  <2>3. QED
    BY <1>3, <2>1, <2>2
<1>5. ASSUME UNCHANGED <<compiled, work, documents, disk>>, Stirred => Stirred' PROVE ResultFresh'
  BY <1>5 DEF ResultFresh, Current, Compiled
<1>6. ASSUME NEW m, Tell(m), UNCHANGED disk, unseen' = unseen PROVE ResultFresh'
  BY <1>5, <1>6, StirredTold DEF Tell, server
<1>7. (\E f \in File : Write(f)) => ResultFresh'
  BY DEF Write, server, Stirred, ResultFresh
<1>8. Watch => ResultFresh'
  BY WatchStirs DEF ResultFresh
<1>9. ASSUME NEW e \in Doc, Open(e) \/ Close(e) PROVE ResultFresh'
  BY <1>6, <1>9 DEF Open, Close
<1>10. ASSUME NEW e \in Doc, NEW changes \in Edits, ChangeText(e, changes) PROVE ResultFresh'
  BY <1>6, <1>10 DEF ChangeText
<1>11. ASSUME NEW e \in Doc, NEW method \in {"feature", "preview"}, Ask(method, e)
       PROVE  ResultFresh'
  <2>1. Tell([method |-> method, doc |-> e, id |-> requests + 1]) /\ UNCHANGED <<disk, unseen>>
    BY <1>11 DEF Ask
  <2>2. QED
    BY <1>6, <2>1
<1>12. (\E id \in pending : CancelAsked(id)) \/ Stop => ResultFresh'
  BY <1>6 DEF CancelAsked, Stop
<1>13. Receive \/ UNCHANGED vars => ResultFresh'
  <2>1. Receive \/ UNCHANGED vars => UNCHANGED <<compiled, work, documents, disk, inbox, unseen>>
    BY DEF Receive, vars, server, editor
  <2>2. QED
    BY <1>5, <2>1 DEF Stirred
<1>14. QED
  BY <1>1, <1>2, <1>4, <1>7, <1>8, <1>9, <1>10, <1>11, <1>12, <1>13, StepCases

\* When everything has arrived the editor shows each open document's own
\* diagnostics, made of its present text and of the files as they are.
THEOREM DiagnosticsSettle == Spec => []DiagnosticsCurrent
<1> DEFINE Inv == ResultFresh /\ \A d \in Doc : Settling(d)
<1>1. Init => Inv
  BY DEF Init, ResultFresh, Settling, Latest, Reports
<1>2. TypeOK /\ OutboxTyped /\ TasksFit /\ Inv /\ [Next]_vars => Inv'
  <2> SUFFICES ASSUME TypeOK, OutboxTyped, TasksFit, Inv, [Next]_vars PROVE Inv'
    OBVIOUS
  <2>1. ASSUME NEW d \in Doc PROVE Settling(d)'
    BY SettlingStep
  <2>2. QED
    BY <2>1, ResultStep
<1>3. Inv /\ StoreFollowsEditor => DiagnosticsCurrent
  <2> SUFFICES ASSUME Inv, StoreFollowsEditor, Quiet, NEW d \in Doc
               PROVE  shown[d] = IF buffers[d] = None THEN None ELSE Compiled(d, buffers[d].text)
    BY DEF DiagnosticsCurrent
  <2>1. Len(inbox) = 0 /\ outbox = <<>> /\ work = <<>> /\ ~Stirred /\ ~InHand(d)
    BY DEF Quiet, Stirred, InHand
  <2>2. IsRun(After, Len(inbox), documents, inbox)
    BY <2>1, AfterRuns
  <2>3. documents = buffers
    BY <2>1, <2>2 DEF IsRun, StoreFollowsEditor
  <2>4. \A r : Latest(d, r) => shown[d] = r
    BY <2>1 DEF Latest, Reports
  <2>5. QED
    BY <2>1, <2>3, <2>4 DEF Settling, Current
<1>4. QED
  BY <1>1, <1>2, <1>3, Typing, StoreIsFollowing, PTL DEF Spec
=============================================================================
