---------------------------- MODULE ReplayProofs ----------------------------
(***************************************************************************)
(* What holds of every reconstruction, for any scripts, return addresses,  *)
(* thread ids and numbers of snapshots.                                    *)
(***************************************************************************)
EXTENDS Replay, FiniteSetTheorems, SequenceTheorems, WellFoundedInduction, TLAPS

SnapshotOf ==
    [done : [Role -> Nat], frames : [Role -> Seq(Nat)],
     id : [Role -> Thread \cup {NoId}], stopped : [Role -> BOOLEAN], byte : [Address -> Byte], global_sequence : Nat, replayed : SUBSET Nat]

Progress ==
    /\ phase \in {"recording", "reconstructing", "debugger", "aborted"}
    /\ done \in [Role -> Nat]
    /\ frames \in [Role -> Seq(Nat)]
    /\ id \in [Role -> Thread \cup {NoId}]
    /\ stopped \in [Role -> BOOLEAN]

LogTyped ==
    /\ global_sequence \in Nat
    /\ event_log \in Seq(Event)
    /\ pending_thread_events \in [Thread -> Seq(Event)]

\* Only the entry points have permanent breakpoints.
TablesOK ==
    /\ byte \in [Address -> Byte]
    /\ permanent = EntryPoints
    /\ UserAddress = {}
    /\ \A a \in Tracked \ EntryPoints :
          /\ address_to_bp[a].kind = "Return"
          /\ address_to_bp[a].saved \in Byte
          /\ address_to_bp[a] = [saved   |-> address_to_bp[a].saved,
                                 kind    |-> address_to_bp[a].kind,
                                 count   |-> address_to_bp[a].count,
                                 holders |-> address_to_bp[a].holders]

\* The reconstruction starts where the recording did.
FirstSnapshotOK ==
    /\ Len(snapshots) \in Nat /\ Len(snapshots) >= 1
    /\ \A r \in Role : /\ snapshots[1].done[r] = 0 /\ snapshots[1].frames[r] = <<>>
                       /\ snapshots[1].id[r] = IF r \in FirstRoles THEN OriginalId[r] ELSE NoId
                       /\ ~snapshots[1].stopped[r]

\* Nothing is replayed while the program is recorded.
NothingReplayed ==
    phase = "recording" =>
        /\ \A i \in DOMAIN event_log : ~event_log[i].replayed
        /\ \A t \in Thread : \A i \in DOMAIN pending_thread_events[t] :
              ~pending_thread_events[t][i].replayed

\* Each thread id is one role's, and a role is there when it was from the start
\* or when the call that creates it has run.
Created(q) == \E r \in Role : \E i \in DOMAIN Program[r] : Creates(r, i, q) /\ i <= done[r]
IdsOK ==
    /\ \A r, q \in Role : id[r] = id[q] /\ id[r] # NoId => r = q
    /\ \A r \in Role : /\ id[r] = NoId => done[r] = 0
                       /\ id[r] # NoId => r \in FirstRoles \/ Created(r)
                       /\ stopped[r] => Calling(r) \/ Returning(r)

\* The calls a role is in are calls of its script that it has begun.
FramesOK ==
    \A r \in Role : /\ \A k \in 1..Len(frames[r]) : frames[r][k] \in CallsOf(r) \cap 1..done[r]
                    /\ \A k, l \in 1..Len(frames[r]) : k < l => frames[r][k] < frames[r][l]

\* What ReplaysInOrder says of one thread, and that the events of an id nobody
\* has are all left to replay.
InOrder(events) == \A i \in events \cap Replayed : \A j \in events : j < i => j \in Replayed
EventsReplayed ==
    /\ \A r \in Role, function \in EntryPoints : id[r] # NoId =>
          LET events == EventsOf(id[r], function)
          IN  /\ InOrder(events)
              /\ Cardinality(events \cap Replayed) = Cardinality(CallsTo(r, function))
    /\ \A t \in Thread, function \in EntryPoints :
          (\A r \in Role : id[r] # t) => EventsOf(t, function) \cap Replayed = {}

IInv ==
    /\ Progress /\ LogTyped /\ TablesOK /\ FirstSnapshotOK /\ NothingReplayed
    /\ snapshots \in Seq(SnapshotOf)
    /\ phase = "reconstructing" => IdsOK /\ FramesOK /\ EventsReplayed

----------------------------------------------------------------------------
(* Scripts.                                                                *)

LEMMA ScriptTyped ==
  ASSUME NEW r \in Role
  PROVE  /\ Len(Program[r]) \in Nat
         /\ DOMAIN Program[r] = 1..Len(Program[r])
         /\ \A i \in DOMAIN Program[r] : IsCall(r, i) =>
               /\ Function(r, i) \in EntryPoints /\ Function(r, i) \in Address
               /\ Site(r, i) \in Sites(r)
               /\ Program[r][i].creates \in Role \cup {NoRole}
<1> DEFINE Call == [op : {"call"}, function : Address, site : Address,
                    creates : Role \cup {NoRole}]
           Step == Call \cup [op : {"return"}]
<1>1. Program[r] \in Seq(Step)
  BY ProgramAssumption
<1>2. Len(Program[r]) \in Nat /\ DOMAIN Program[r] = 1..Len(Program[r])
  BY <1>1
<1>3. ASSUME NEW i \in DOMAIN Program[r], IsCall(r, i)
      PROVE  /\ Function(r, i) \in EntryPoints /\ Function(r, i) \in Address
             /\ Site(r, i) \in Sites(r)
             /\ Program[r][i].creates \in Role \cup {NoRole}
  <2>1. Program[r][i] \in Step /\ Program[r][i].op = "call"
    BY <1>1, <1>2, <1>3, ElementOfSeq DEF IsCall
  <2>2. Program[r][i] \in Call
    BY <2>1
  <2>3. i \in CallsOf(r)
    BY <1>3 DEF CallsOf
  <2> QED
    BY <2>2, <2>3 DEF EntryPoints, Function, Site, Sites
<1> QED
  BY <1>2, <1>3

\* A set of natural numbers has a least member.
LEMMA LeastMember ==
  ASSUME NEW T \in SUBSET Nat, T # {}
  PROVE  \E i \in T : \A j \in T : i <= j
<1>1. PICK i \in T : \A j \in T : <<j, i>> \notin OpToRel(<, Nat)
  BY NatLessThanWellFounded, WFMin
<1>2. \A j \in T : ~(j < i)
  BY <1>1 DEF OpToRel
<1> QED
  BY <1>2

\* What a role executes next is the entry point it calls, or the return
\* address of the innermost call, which is no entry point.
LEMMA RipOfCall ==
  ASSUME NEW r \in Role, Calling(r), done[r] \in Nat
  PROVE  /\ done[r] + 1 \in DOMAIN Program[r]
         /\ done[r] + 1 \in CallsOf(r)
         /\ Rip(r) = Function(r, done[r] + 1) /\ Rip(r) \in EntryPoints
         /\ Site(r, done[r] + 1) \in Address \ EntryPoints
         /\ Program[r][done[r] + 1].creates \in Role \cup {NoRole}
<1>1. IsCall(r, done[r] + 1) /\ done[r] < Len(Program[r])
  BY DEF Calling, HasNext
<1>2. done[r] + 1 \in DOMAIN Program[r]
  BY <1>1, ScriptTyped
<1>3. Site(r, done[r] + 1) \in Sites(r)
  BY <1>1, <1>2, ScriptTyped
<1> QED
  BY <1>1, <1>2, <1>3, ScriptTyped, ReplayAssumption DEF Rip, CallsOf

LEMMA RipOfReturn ==
  ASSUME NEW r \in Role, Returning(r), Progress, FramesOK
  PROVE  /\ frames[r] \in Seq(Nat) /\ Len(frames[r]) \in Nat /\ Len(frames[r]) >= 1
         /\ Top(frames[r]) = frames[r][Len(frames[r])]
         /\ Top(frames[r]) \in CallsOf(r) \cap 1..done[r]
         /\ Rip(r) = Site(r, Top(frames[r]))
         /\ Rip(r) \in Sites(r) /\ Rip(r) \in Address \ EntryPoints
<1>1. ~IsCall(r, done[r] + 1) /\ frames[r] # <<>> /\ frames[r] \in Seq(Nat)
  BY DEF Returning, HasNext, Progress
<1>2. Len(frames[r]) \in Nat /\ Len(frames[r]) >= 1
  BY <1>1, EmptySeq
<1>3. Top(frames[r]) = frames[r][Len(frames[r])]
      /\ Top(frames[r]) \in CallsOf(r) \cap 1..done[r]
  BY <1>2 DEF Top, FramesOK
<1>4. Rip(r) = Site(r, Top(frames[r]))
  BY <1>1 DEF Rip, Calling
<1>5. Rip(r) \in Sites(r)
  BY <1>3, <1>4 DEF Sites
<1> QED
  BY <1>1, <1>2, <1>3, <1>4, <1>5, ReplayAssumption

\* A step that returns from a call is no call.
LEMMA ReturnIsNoCall ==
  ASSUME NEW r \in Role, Returning(r)
  PROVE  done[r] + 1 \notin CallsOf(r)
BY DEF Returning, CallsOf

----------------------------------------------------------------------------
(* The tables and the log.                                                 *)

LEMMA CreateKeepsTables ==
  ASSUME TablesOK, NEW a \in Address \ EntryPoints, NEW t,
         CreateHeldBreakpoints({a}, t, "Return")
  PROVE  TablesOK'
<1> DEFINE bp == address_to_bp[a]
<1>1. /\ byte' = Armed({a} \ Tracked)
      /\ address_to_bp' = [b \in Tracked \cup {a} |->
             IF b \notin {a} THEN address_to_bp[b]
             ELSE IF b \notin Tracked THEN Written(b, "Return", <<t>>)
             ELSE [address_to_bp[b] EXCEPT !.holders = Append(@, t), !.count = @ + 1]]
      /\ permanent' = permanent /\ user_breakpoints' = user_breakpoints
  BY DEF CreateHeldBreakpoints
<1>2. byte' \in [Address -> Byte]
  BY <1>1 DEF TablesOK, Armed, Byte
<1>3. Tracked' = Tracked \cup {a}
  BY <1>1 DEF Tracked
<1>4. ASSUME NEW b \in Tracked' \ EntryPoints
      PROVE  /\ address_to_bp'[b].kind = "Return"
             /\ address_to_bp'[b].saved \in Byte
             /\ address_to_bp'[b] = [saved   |-> address_to_bp'[b].saved,
                                     kind    |-> address_to_bp'[b].kind,
                                     count   |-> address_to_bp'[b].count,
                                     holders |-> address_to_bp'[b].holders]
  <2>1. CASE b # a
    BY <2>1, <1>1, <1>3 DEF TablesOK
  <2>2. CASE b = a /\ a \notin Tracked
    BY <2>2, <1>1, <1>3 DEF TablesOK, Written
  <2>3. CASE b = a /\ a \in Tracked
    <3>1. /\ bp.kind = "Return" /\ bp.saved \in Byte
          /\ bp = [saved |-> bp.saved, kind |-> bp.kind, count |-> bp.count,
                   holders |-> bp.holders]
      BY <2>3 DEF TablesOK
    <3>2. address_to_bp'[b] = [bp EXCEPT !.holders = Append(@, t), !.count = @ + 1]
      BY <2>3, <1>1, <1>3
    <3> QED
      BY <3>1, <3>2
  <2> QED
    BY <2>1, <2>2, <2>3
<1> QED
  BY <1>1, <1>2, <1>4 DEF TablesOK, UserAddress

LEMMA RemoveKeepsTables ==
  ASSUME TablesOK, NEW a, NEW t, RemoveBreakpoints({a}, t)
  PROVE  TablesOK'
<1> DEFINE released == {b \in {a} : RemovableBy(t, b)}
           last     == {b \in released : address_to_bp[b].count = 1}
           users    == {TrueAddress[b] : b \in {a} \ (Tracked \cup permanent)} \cap UserAddress
           bp == address_to_bp[a]
<1>1. byte' = [b \in Address |->
          IF b \in released THEN address_to_bp[b].saved
          ELSE IF b \in users THEN user_breakpoints[b] ELSE byte[b]]
  BY DEF RemoveBreakpoints
<1>2. address_to_bp' = [b \in Tracked \ last |->
          IF b \in released
          THEN [address_to_bp[b] EXCEPT !.holders = EraseFirst(@, t), !.count = @ - 1]
          ELSE address_to_bp[b]]
  BY DEF RemoveBreakpoints
<1>3. user_breakpoints' = Without(user_breakpoints, users) /\ permanent' = permanent
  BY DEF RemoveBreakpoints
<1>4. /\ released \subseteq {a} /\ released \subseteq Tracked \ EntryPoints
      /\ users = {}
  BY DEF RemovableBy, Holds, TablesOK
<1> HIDE DEF released, last, users
<1>5. byte' \in [Address -> Byte]
  BY <1>1, <1>4 DEF TablesOK
<1>6. Tracked' = Tracked \ last
  BY <1>2 DEF Tracked
<1>7. UserAddress' = {}
  BY <1>3, <1>4 DEF UserAddress, Without, TablesOK
<1>8. ASSUME NEW b \in Tracked' \ EntryPoints
      PROVE  /\ address_to_bp'[b].kind = "Return"
             /\ address_to_bp'[b].saved \in Byte
             /\ address_to_bp'[b] = [saved   |-> address_to_bp'[b].saved,
                                     kind    |-> address_to_bp'[b].kind,
                                     count   |-> address_to_bp'[b].count,
                                     holders |-> address_to_bp'[b].holders]
  <2>1. CASE b \notin released
    BY <2>1, <1>2, <1>6 DEF TablesOK
  <2>2. CASE b \in released
    <3>1. /\ b = a /\ bp.kind = "Return" /\ bp.saved \in Byte
          /\ bp = [saved |-> bp.saved, kind |-> bp.kind, count |-> bp.count,
                   holders |-> bp.holders]
      BY <2>2, <1>4 DEF TablesOK
    <3>2. address_to_bp'[b] = [bp EXCEPT !.holders = EraseFirst(@, t), !.count = @ - 1]
      BY <2>2, <3>1, <1>2, <1>6
    <3> QED
      BY <3>1, <3>2
  <2> QED
    BY <2>1, <2>2
<1> QED
  BY <1>3, <1>5, <1>7, <1>8 DEF TablesOK

\* A thread whose stop is a call to replay is at an entry point.
LEMMA PermanentIsEntry ==
  ASSUME TablesOK, NEW a, NEW t, GetBreakpointType(a, t) = "Permanent"
  PROVE  a \in EntryPoints
BY DEF GetBreakpointType, TablesOK, NoBreakpoint

\* AddEvent adds one event to the log and leaves the others alone.
UpTo(e) == Cardinality({i \in DOMAIN event_log : event_log[i].global_seq <= e.global_seq})

LEMMA AddEventTyped ==
  ASSUME LogTyped, NEW e \in Event, AddEvent(e)
  PROVE  /\ event_log' \in Seq(Event)
         /\ UpTo(e) \in 0..Len(event_log) /\ Len(event_log') = Len(event_log) + 1
         /\ \A i \in 1..(Len(event_log) + 1) :
               event_log'[i] = IF i <= UpTo(e) THEN event_log[i]
                               ELSE IF i = UpTo(e) + 1 THEN e ELSE event_log[i - 1]
         /\ \A i \in DOMAIN event_log' :
               event_log'[i] = e \/ \E j \in DOMAIN event_log : event_log'[i] = event_log[j]
<1> DEFINE n == Len(event_log)
           before == {i \in DOMAIN event_log : event_log[i].global_seq <= e.global_seq}
           upTo == Cardinality(before)
           u == SubSeq(event_log, 1, upTo)
           v == SubSeq(event_log, upTo + 1, n)
<1>1. event_log \in Seq(Event) /\ n \in Nat /\ DOMAIN event_log = 1..n
  BY DEF LogTyped
<1>2. upTo \in Nat /\ upTo <= n
  <2>1. IsFiniteSet(1..n) /\ Cardinality(1..n) = n
    BY <1>1, FS_Interval
  <2>2. before \subseteq 1..n
    BY <1>1
  <2> QED
    BY <2>1, <2>2, FS_Subset, FS_CardinalityType
<1>3. event_log' = u \o <<e>> \o v
  BY DEF AddEvent
<1> HIDE DEF upTo
<1>4. /\ u \in Seq(Event) /\ Len(u) = upTo
      /\ \A i \in 1..upTo : u[i] = event_log[i]
  BY <1>1, <1>2, SubSeqProperties
<1>5. /\ v \in Seq(Event) /\ Len(v) = n - upTo
      /\ \A i \in 1..(n - upTo) : v[i] = event_log[upTo + i]
  <2>1. v \in Seq(Event) /\ Len(v) = n - upTo
    <3>1. upTo + 1 \in 1..(n + 1) /\ n \in ((upTo + 1) - 1)..n
      BY <1>1, <1>2
    <3> HIDE DEF n
    <3>2. /\ v \in Seq(Event)
          /\ Len(v) = IF upTo + 1 <= n THEN n - (upTo + 1) + 1 ELSE 0
      BY <1>1, <3>1, SubSeqProperties DEF n
    <3> QED
      BY <1>1, <1>2, <3>2
  <2>2. \A i \in 1..(n - upTo) : v[i] = event_log[upTo + i]
    BY <1>1, <1>2
  <2> QED
    BY <2>1, <2>2
<1> HIDE DEF u, v
<1> DEFINE w == u \o <<e>>
<1>6. /\ w \in Seq(Event) /\ Len(w) = upTo + 1
      /\ \A i \in 1..(upTo + 1) : w[i] = IF i <= upTo THEN u[i] ELSE e
  BY <1>2, <1>4
<1> HIDE DEF w
<1>7. /\ w \o v \in Seq(Event) /\ Len(w \o v) = n + 1
      /\ \A i \in 1..(n + 1) :
            (w \o v)[i] = IF i <= upTo + 1 THEN w[i] ELSE v[i - (upTo + 1)]
  BY <1>1, <1>2, <1>5, <1>6
<1>8. event_log' = w \o v
  BY <1>3 DEF w
<1>9. ASSUME NEW i \in 1..(n + 1)
      PROVE  event_log'[i] = IF i <= upTo THEN event_log[i]
                             ELSE IF i = upTo + 1 THEN e ELSE event_log[i - 1]
  <2>1. CASE i <= upTo
    BY <2>1, <1>1, <1>2, <1>4, <1>6, <1>7, <1>8
  <2>2. CASE i = upTo + 1
    BY <2>2, <1>2, <1>6, <1>7, <1>8
  <2>3. CASE i > upTo + 1
    <3>1. i - (upTo + 1) \in 1..(n - upTo) /\ upTo + (i - (upTo + 1)) = i - 1
      BY <2>3, <1>1, <1>2
    <3>2. event_log'[i] = v[i - (upTo + 1)]
      BY <2>3, <1>1, <1>2, <1>7, <1>8
    <3>3. v[i - (upTo + 1)] = event_log[upTo + (i - (upTo + 1))]
      BY <3>1, <1>5
    <3>4. ~(i <= upTo) /\ i # upTo + 1
      BY <2>3, <1>2
    <3> QED
      BY <3>1, <3>2, <3>3, <3>4
  <2> QED
    BY <2>1, <2>2, <2>3, <1>2
<1>10. /\ DOMAIN event_log' = 1..(n + 1)
       /\ \A i \in 1..(n + 1) : i <= upTo \/ i = upTo + 1 \/ i - 1 \in 1..n
  BY <1>1, <1>2, <1>7, <1>8
<1>11. ASSUME NEW i \in DOMAIN event_log'
       PROVE  event_log'[i] = e \/ \E j \in DOMAIN event_log : event_log'[i] = event_log[j]
  <2>1. i <= upTo => i \in DOMAIN event_log
    BY <1>1, <1>2, <1>10
  <2> QED
    BY <2>1, <1>1, <1>9, <1>10
<1>12. UpTo(e) = upTo
  BY DEF UpTo, upTo
<1>13. /\ event_log' \in Seq(Event) /\ Len(event_log') = Len(event_log) + 1
  BY <1>7, <1>8
<1>14. UpTo(e) \in 0..Len(event_log)
  BY <1>1, <1>2, <1>12
<1>15. \A i \in 1..(Len(event_log) + 1) :
          event_log'[i] = IF i <= UpTo(e) THEN event_log[i]
                          ELSE IF i = UpTo(e) + 1 THEN e ELSE event_log[i - 1]
  BY <1>9, <1>12
<1> QED
  BY <1>11, <1>13, <1>14, <1>15

\* An event is marked as replayed.
LEMMA MarkShape ==
  ASSUME LogTyped, NEW idx \in DOMAIN event_log,
         event_log' = [event_log EXCEPT ![idx].replayed = TRUE]
  PROVE  /\ event_log' \in Seq(Event) /\ DOMAIN event_log' = DOMAIN event_log
         /\ Replayed' = Replayed \cup {idx}
         /\ \A t, function : EventsOf(t, function)' = EventsOf(t, function)
<1> DEFINE n == Len(event_log)
           marked == [event_log[idx] EXCEPT !.replayed = TRUE]
<1>1. event_log \in Seq(Event) /\ n \in Nat /\ DOMAIN event_log = 1..n
  BY DEF LogTyped
<1>2. event_log[idx] \in Event
  BY <1>1, ElementOfSeq
<1>3. /\ marked \in Event /\ marked.replayed = TRUE
      /\ marked.thread = event_log[idx].thread /\ marked.event_rip = event_log[idx].event_rip
  BY <1>2 DEF Event
<1>4. event_log' = [event_log EXCEPT ![idx] = marked]
  OBVIOUS
<1> HIDE DEF marked
<1>5. /\ event_log' \in Seq(Event) /\ DOMAIN event_log' = DOMAIN event_log
      /\ \A i \in DOMAIN event_log : event_log'[i] = IF i = idx THEN marked ELSE event_log[i]
  <2> DEFINE new == [event_log EXCEPT ![idx] = marked]
  <2>1. new \in Seq(Event) /\ Len(new) = n
    BY <1>1, <1>3, ExceptSeq
  <2>2. DOMAIN new = 1..n
    BY <2>1
  <2>3. \A i \in 1..n : new[i] = IF i = idx THEN marked ELSE event_log[i]
    BY <1>1
  <2> QED
    BY <1>1, <1>4, <2>1, <2>2, <2>3
<1>6. Replayed' = Replayed \cup {idx}
  BY <1>3, <1>5 DEF Replayed
<1>7. ASSUME NEW t, NEW function
      PROVE  EventsOf(t, function)' = EventsOf(t, function)
  BY <1>3, <1>5 DEF EventsOf
<1> QED
  BY <1>5, <1>6, <1>7

LEMMA FiniteEvents ==
  ASSUME LogTyped, NEW t, NEW function
  PROVE  /\ EventsOf(t, function) \subseteq DOMAIN event_log
         /\ DOMAIN event_log \in SUBSET Nat
         /\ IsFiniteSet(EventsOf(t, function) \cap Replayed)
<1>1. DOMAIN event_log = 1..Len(event_log) /\ Len(event_log) \in Nat
  BY DEF LogTyped
<1>2. IsFiniteSet(1..Len(event_log))
  BY <1>1, FS_Interval
<1>3. EventsOf(t, function) \subseteq DOMAIN event_log
  BY DEF EventsOf
<1> QED
  BY <1>1, <1>2, <1>3, FS_Subset

LEMMA FiniteCalls ==
  ASSUME NEW r \in Role, done[r] \in Nat, NEW function
  PROVE  IsFiniteSet(CallsTo(r, function))
<1>1. IsFiniteSet(1..done[r])
  BY FS_Interval
<1> QED
  BY <1>1, FS_Subset DEF CallsTo

\* A step that is no call leaves the calls made as they are; a call is one
\* more call to its function.
LEMMA CallsAfterStep ==
  ASSUME done \in [Role -> Nat], NEW r \in Role, Advance(r), NEW q \in Role, NEW function
  PROVE  /\ done' \in [Role -> Nat] /\ done'[r] = done[r] + 1
         /\ q # r => done'[q] = done[q]
         /\ q # r \/ done[r] + 1 \notin CallsOf(r) \/ Function(r, done[r] + 1) # function
               => CallsTo(q, function)' = CallsTo(q, function)
         /\ done[r] + 1 \in CallsOf(r) /\ Function(r, done[r] + 1) = function
               => /\ CallsTo(r, function)' = CallsTo(r, function) \cup {done[r] + 1}
                  /\ done[r] + 1 \notin CallsTo(r, function)
<1>1. /\ done' \in [Role -> Nat] /\ done'[r] = done[r] + 1 /\ done[r] \in Nat
      /\ q # r => done'[q] = done[q]
  BY DEF Advance
<1>2. 1..(done[r] + 1) = (1..done[r]) \cup {done[r] + 1} /\ done[r] + 1 \notin 1..done[r]
  BY <1>1
<1>3. /\ CallsTo(q, function) =
             {i \in CallsOf(q) \cap 1..done[q] : Function(q, i) = function}
      /\ CallsTo(q, function)' =
             {i \in CallsOf(q) \cap 1..done'[q] : Function(q, i) = function}
      /\ CallsTo(r, function) =
             {i \in CallsOf(r) \cap 1..done[r] : Function(r, i) = function}
      /\ CallsTo(r, function)' =
             {i \in CallsOf(r) \cap 1..done'[r] : Function(r, i) = function}
  BY DEF CallsTo
<1>4. CASE q # r
  BY <1>1, <1>2, <1>3, <1>4
<1>5. CASE q = r
  BY <1>1, <1>2, <1>3, <1>5
<1> QED
  BY <1>4, <1>5

----------------------------------------------------------------------------
(* The initial states, and steps that leave most of the state alone.       *)

LEMMA SnapshotTyped ==
  ASSUME Progress, LogTyped, byte \in [Address -> Byte]
  PROVE  Snapshot \in SnapshotOf
<1>1. Replayed \in SUBSET Nat
  <2>1. DOMAIN event_log = 1..Len(event_log) /\ Len(event_log) \in Nat
    BY DEF LogTyped
  <2> QED
    BY <2>1 DEF Replayed
<1> QED
  BY <1>1 DEF Snapshot, SnapshotOf, Progress, LogTyped

LEMMA InitHolds == Init => IInv
<1> SUFFICES ASSUME Init PROVE IInv
  OBVIOUS
<1>1. Progress
  BY ReplayAssumption DEF Init, Progress
<1>2. LogTyped /\ NothingReplayed
  <2>1. <<>> \in Seq(Event)
    OBVIOUS
  <2> QED
    BY <2>1 DEF Init, LogTyped, NothingReplayed
<1>3. TablesOK
  BY ReplayAssumption DEF Init, TablesOK, Byte, Code, int3, Tracked, UserAddress
<1>4. Snapshot \in SnapshotOf
  BY <1>1, <1>2, <1>3, SnapshotTyped DEF TablesOK
<1>5. snapshots = <<Snapshot>>
  BY DEF Init
<1> DEFINE first == Snapshot
<1>6. \A r \in Role : /\ first.done[r] = 0 /\ first.frames[r] = <<>>
                      /\ first.id[r] = IF r \in FirstRoles THEN OriginalId[r] ELSE NoId
                      /\ ~first.stopped[r]
  BY DEF Snapshot, Init
<1> HIDE DEF first
<1>7. snapshots \in Seq(SnapshotOf) /\ Len(snapshots) = 1 /\ snapshots[1] = first
  BY <1>4, <1>5 DEF first
<1>8. FirstSnapshotOK
  BY <1>6, <1>7 DEF FirstSnapshotOK
<1>9. phase # "reconstructing"
  BY DEF Init
<1> QED
  BY <1>1, <1>2, <1>3, <1>7, <1>8, <1>9 DEF IInv

\* The parts of the invariant that only depend on what did not change.
LEMMA LogUnchanged ==
  ASSUME LogTyped, NothingReplayed, UNCHANGED log, phase' = "recording" => phase = "recording"
  PROVE  LogTyped' /\ NothingReplayed'
BY DEF LogTyped, NothingReplayed, log

LEMMA TablesUnchanged ==
  ASSUME TablesOK, UNCHANGED breakpointVars
  PROVE  TablesOK'
BY DEF TablesOK, breakpointVars, tables, Tracked, UserAddress

LEMMA SnapsUnchanged ==
  ASSUME FirstSnapshotOK, snapshots \in Seq(SnapshotOf), UNCHANGED snaps
  PROVE  FirstSnapshotOK' /\ (snapshots \in Seq(SnapshotOf))'
BY DEF FirstSnapshotOK, snaps

\* The ids and the calls made are the same.
LEMMA EventsUnchanged ==
  ASSUME EventsReplayed, id' = id, event_log' = event_log,
         \A r \in Role, function \in EntryPoints :
             CallsTo(r, function)' = CallsTo(r, function)
  PROVE  EventsReplayed'
BY DEF EventsReplayed, EventsOf, Replayed, InOrder

LEMMA StutterHolds ==
  ASSUME IInv, UNCHANGED vars
  PROVE  IInv'
<1>1. TablesOK' /\ LogTyped' /\ NothingReplayed' /\ FirstSnapshotOK'
      /\ (snapshots \in Seq(SnapshotOf))'
  BY TablesUnchanged, LogUnchanged, SnapsUnchanged DEF IInv, vars
<1>2. Progress'
  BY DEF IInv, Progress, vars, debuggee
<1>3. (phase = "reconstructing" => IdsOK /\ FramesOK /\ EventsReplayed)'
  <2>1. \A r \in Role, function \in EntryPoints : CallsTo(r, function)' = CallsTo(r, function)
    BY DEF CallsTo, vars, debuggee
  <2>2. /\ phase' = phase /\ id' = id /\ done' = done /\ frames' = frames
        /\ stopped' = stopped /\ event_log' = event_log
    BY DEF vars, debuggee, log
  <2>3. IdsOK => IdsOK'
    BY <2>2 DEF IdsOK, Created, HasNext, Calling, Returning
  <2>4. FramesOK => FramesOK'
    BY DEF FramesOK, vars, debuggee
  <2> QED
    BY <2>1, <2>2, <2>3, <2>4, EventsUnchanged DEF IInv
<1> QED
  BY <1>1, <1>2, <1>3 DEF IInv

LEMMA TimeoutHolds ==
  ASSUME IInv, Timeout
  PROVE  IInv'
<1>1. /\ phase = "reconstructing" /\ phase' \in {"reconstructing", "debugger"}
      /\ snapshots' = Append(snapshots, Snapshot)
      /\ UNCHANGED <<breakpointVars, debuggee, recorded, log, pending_replay_end_events>>
  BY DEF Timeout
<1>2. TablesOK' /\ LogTyped' /\ NothingReplayed'
  BY <1>1, TablesUnchanged, LogUnchanged DEF IInv
<1>3. Progress'
  BY <1>1 DEF IInv, Progress, debuggee
<1>4. (snapshots \in Seq(SnapshotOf))' /\ FirstSnapshotOK'
  <2>1. Snapshot \in SnapshotOf
    BY SnapshotTyped DEF IInv, TablesOK
  <2> DEFINE new == Snapshot
  <2> HIDE DEF new
  <2>2. /\ Append(snapshots, new) \in Seq(SnapshotOf)
        /\ Len(Append(snapshots, new)) = Len(snapshots) + 1
        /\ Append(snapshots, new)[1] = snapshots[1]
    BY <2>1, AppendProperties DEF IInv, FirstSnapshotOK, new
  <2>3. snapshots' = Append(snapshots, new)
    BY <1>1 DEF new
  <2> QED
    BY <2>2, <2>3 DEF IInv, FirstSnapshotOK
<1>5. IdsOK' /\ FramesOK' /\ EventsReplayed'
  <2>1. \A r \in Role, function \in EntryPoints : CallsTo(r, function)' = CallsTo(r, function)
    BY <1>1 DEF CallsTo, debuggee
  <2>2. /\ id' = id /\ done' = done /\ frames' = frames
        /\ stopped' = stopped /\ event_log' = event_log
    BY <1>1 DEF debuggee, log
  <2>3. IdsOK'
    BY <1>1, <2>2 DEF IInv, IdsOK, Created, HasNext, Calling, Returning
  <2>4. FramesOK'
    BY <1>1 DEF IInv, FramesOK, debuggee
  <2> QED
    BY <1>1, <2>1, <2>2, <2>3, <2>4, EventsUnchanged DEF IInv
<1> QED
  BY <1>2, <1>3, <1>4, <1>5 DEF IInv

LEMMA StopHolds ==
  ASSUME IInv, NEW r \in Role, Stop(r)
  PROVE  IInv'
<1>1. /\ phase = "reconstructing" /\ HasNext(r)
      /\ stopped' = [stopped EXCEPT ![r] = TRUE]
      /\ UNCHANGED <<breakpointVars, phase, done, frames, id, recorded, log,
                     pending_replay_end_events, snaps>>
  BY DEF Stop, Calling, Returning
<1>2. TablesOK' /\ LogTyped' /\ NothingReplayed' /\ FirstSnapshotOK'
      /\ (snapshots \in Seq(SnapshotOf))'
  BY <1>1, TablesUnchanged, LogUnchanged, SnapsUnchanged DEF IInv
<1>3. Progress'
  BY <1>1 DEF IInv, Progress
<1>4. IdsOK' /\ FramesOK'
  <2>1. Calling(r) \/ Returning(r)
    BY DEF Stop
  <2>2. \A q \in Role : /\ stopped'[q] => stopped[q] \/ q = r
                       /\ Calling(q)' = Calling(q) /\ Returning(q)' = Returning(q)
                       /\ Created(q)' = Created(q)
    BY <1>1 DEF IInv, Progress, Calling, Returning, HasNext, Created
  <2>3. IdsOK'
    BY <1>1, <2>1, <2>2 DEF IInv, IdsOK
  <2> QED
    BY <1>1, <2>3 DEF IInv, FramesOK
<1>5. EventsReplayed'
  <2>1. \A q \in Role, function \in EntryPoints : CallsTo(q, function)' = CallsTo(q, function)
    BY <1>1 DEF CallsTo
  <2> QED
    BY <1>1, <2>1, EventsUnchanged DEF IInv, log
<1> QED
  BY <1>2, <1>3, <1>4, <1>5 DEF IInv

\* The frames after a step of the script.
LEMMA PushFrame ==
  ASSUME NEW f \in Seq(Nat), NEW n \in Nat
  PROVE  /\ Append(f, n) \in Seq(Nat) /\ Len(f) \in Nat
         /\ Len(Append(f, n)) = Len(f) + 1
         /\ \A k \in 1..Len(f) : Append(f, n)[k] = f[k]
         /\ Append(f, n)[Len(f) + 1] = n
BY AppendProperties

LEMMA PopFrame ==
  ASSUME NEW S, NEW f \in Seq(S), f # <<>>
  PROVE  /\ Pop(f) \in Seq(S) /\ Len(f) \in Nat /\ Len(f) >= 1
         /\ Len(Pop(f)) = Len(f) - 1
         /\ \A k \in 1..(Len(f) - 1) : Pop(f)[k] = f[k]
<1> DEFINE m == Len(f) - 1
<1>1. Len(f) \in Nat /\ Len(f) >= 1 /\ m \in Nat /\ Len(f) = m + 1
  BY EmptySeq
<1> HIDE DEF m
<1>2. \A k \in 1..m : f[k] \in S
  BY <1>1, ElementOfSeq
<1>3. /\ SubSeq(f, 1, m) \in Seq(S)
      /\ Len(SubSeq(f, 1, m)) = IF 1 <= m THEN m - 1 + 1 ELSE 0
      /\ \A k \in 1..(m - 1 + 1) : SubSeq(f, 1, m)[k] = f[1 + k - 1]
  BY <1>1, <1>2, SubSeqProperties
<1>4. m - 1 + 1 = m /\ \A k \in 1..m : 1 + k - 1 = k
  BY <1>1
<1>5. Pop(f) = SubSeq(f, 1, m)
  BY DEF Pop, m
<1>6. Len(Pop(f)) = m /\ \A k \in 1..m : Pop(f)[k] = f[k]
  BY <1>1, <1>3, <1>4, <1>5
<1> QED
  BY <1>1, <1>3, <1>5, <1>6 DEF m

LEMMA OneRolesFrames ==
  ASSUME FramesOK, NEW r \in Role,
         \A q \in Role \ {r} : frames'[q] = frames[q] /\ done'[q] = done[q],
         NEW new, frames'[r] = new,
         \A k \in 1..Len(new) : new[k] \in CallsOf(r) \cap 1..done'[r],
         \A k, l \in 1..Len(new) : k < l => new[k] < new[l]
  PROVE  FramesOK'
<1>1. ASSUME NEW q \in Role
      PROVE  /\ \A k \in 1..Len(frames'[q]) : frames'[q][k] \in CallsOf(q) \cap 1..done'[q]
             /\ \A k, l \in 1..Len(frames'[q]) : k < l => frames'[q][k] < frames'[q][l]
  <2>1. CASE q = r
    BY <2>1
  <2>2. CASE q # r
    <3>1. frames'[q] = frames[q] /\ done'[q] = done[q]
      BY <2>2
    <3> QED
      BY <3>1 DEF FramesOK
  <2> QED
    BY <2>1, <2>2
<1> QED
  BY <1>1 DEF FramesOK

LEMMA CallKeepsFrames ==
  ASSUME Progress, FramesOK, NEW r \in Role, Calling(r), Advance(r),
         frames' = [frames EXCEPT ![r] = Append(@, done[r] + 1)]
  PROVE  FramesOK' /\ frames' \in [Role -> Seq(Nat)]
<1> DEFINE f == frames[r]
           i == done[r] + 1
           new == Append(f, i)
<1>1. /\ f \in Seq(Nat) /\ done[r] \in Nat /\ i \in Nat /\ i \in CallsOf(r)
      /\ done' = [done EXCEPT ![r] = i]
  BY RipOfCall DEF Progress, Advance
<1>2. /\ new \in Seq(Nat) /\ Len(f) \in Nat /\ Len(new) = Len(f) + 1
      /\ \A k \in 1..Len(f) : new[k] = f[k]
      /\ new[Len(f) + 1] = i
  BY <1>1, PushFrame
<1>3. frames' = [frames EXCEPT ![r] = new]
  OBVIOUS
<1> HIDE DEF new
<1>4. frames' \in [Role -> Seq(Nat)] /\ frames'[r] = new
      /\ \A q \in Role \ {r} : frames'[q] = frames[q] /\ done'[q] = done[q]
  BY <1>1, <1>2, <1>3 DEF Progress
<1>5. /\ \A k \in 1..Len(new) : new[k] \in CallsOf(r) \cap 1..done'[r]
      /\ \A k, l \in 1..Len(new) : k < l => new[k] < new[l]
  <2>1. \A k \in 1..Len(f) : f[k] \in CallsOf(r) \cap 1..done[r]
    BY DEF FramesOK
  <2>2. \A k, l \in 1..Len(f) : k < l => f[k] < f[l]
    BY DEF FramesOK
  <2>3. done'[r] = i
    BY <1>1 DEF Progress
  <2> HIDE DEF f
  <2>4. \A k \in 1..Len(new) : k \in 1..Len(f) \/ k = Len(f) + 1
    BY <1>2
  <2>5. \A k \in 1..Len(f) : f[k] < i
    BY <1>1, <2>1
  <2>6. 1..done[r] \subseteq 1..i /\ i \in 1..i
    BY <1>1
  <2>7. \A k \in 1..Len(new) : new[k] \in CallsOf(r) \cap 1..done'[r]
    BY <1>1, <1>2, <2>1, <2>3, <2>4, <2>6
  <2>8. ASSUME NEW k \in 1..Len(new), NEW l \in 1..Len(new), k < l
        PROVE  new[k] < new[l]
    <3>1. k \in 1..Len(f)
      BY <1>2, <2>8
    <3> QED
      BY <1>2, <2>2, <2>4, <2>5, <2>8, <3>1
  <2> QED
    BY <2>7, <2>8
<1> QED
  BY <1>4, <1>5, OneRolesFrames

LEMMA ReturnKeepsFrames ==
  ASSUME Progress, FramesOK, NEW r \in Role, Returning(r), Advance(r),
         frames' = [frames EXCEPT ![r] = Pop(@)]
  PROVE  FramesOK'
<1> DEFINE f == frames[r]
           new == Pop(f)
<1>1. f \in Seq(Nat) /\ f # <<>> /\ done[r] \in Nat
  BY DEF Progress, Returning
<1>2. /\ new \in Seq(Nat) /\ Len(f) \in Nat /\ Len(new) = Len(f) - 1
      /\ \A k \in 1..(Len(f) - 1) : new[k] = f[k]
  BY <1>1, PopFrame
<1>3. frames' = [frames EXCEPT ![r] = new] /\ done' = [done EXCEPT ![r] = @ + 1]
  BY DEF Advance
<1> HIDE DEF new
<1>4. /\ frames'[r] = new /\ done'[r] = done[r] + 1
      /\ \A q \in Role \ {r} : frames'[q] = frames[q] /\ done'[q] = done[q]
  BY <1>3 DEF Progress
<1>5. /\ \A k \in 1..Len(new) : new[k] \in CallsOf(r) \cap 1..done'[r]
      /\ \A k, l \in 1..Len(new) : k < l => new[k] < new[l]
  <2>1. \A k \in 1..Len(f) : f[k] \in CallsOf(r) \cap 1..done[r]
    BY DEF FramesOK
  <2>2. \A k, l \in 1..Len(f) : k < l => f[k] < f[l]
    BY DEF FramesOK
  <2> HIDE DEF f
  <2>3. \A k \in 1..Len(new) : k \in 1..Len(f) /\ new[k] = f[k]
    BY <1>2
  <2> QED
    BY <1>1, <1>4, <2>1, <2>2, <2>3
<1> QED
  BY <1>4, <1>5, OneRolesFrames

\* A role gets on by one step of its own and nobody else is created.
LEMMA AdvanceKeepsIds ==
  ASSUME Progress, IdsOK, NEW r \in Role, HasNext(r), Advance(r), id' = id, stopped' = stopped,
         ~stopped[r], frames' = [frames EXCEPT ![r] = Pop(@)]
  PROVE  IdsOK'
<1>1. /\ done'[r] = done[r] + 1 /\ done[r] \in Nat
      /\ \A q \in Role \ {r} : done'[q] = done[q] /\ frames'[q] = frames[q]
      /\ \A q \in Role : done[q] \in Nat /\ done'[q] >= done[q]
  BY DEF Advance, Progress
<1>2. ASSUME NEW q \in Role, Created(q)
      PROVE  Created(q)'
  <2>1. PICK p \in Role : \E i \in DOMAIN Program[p] : Creates(p, i, q) /\ i <= done[p]
    BY <1>2 DEF Created
  <2>2. PICK i \in DOMAIN Program[p] : Creates(p, i, q) /\ i <= done[p]
    BY <2>1
  <2>3. i \in Nat
    BY <2>2, ScriptTyped
  <2>4. i <= done'[p]
    BY <1>1, <2>2, <2>3
  <2> QED
    BY <2>2, <2>4 DEF Created, Creates
<1> QED
  BY <1>1, <1>2 DEF IdsOK, HasNext, Calling, Returning

LEMMA PassReturnHolds ==
  ASSUME IInv, NEW r \in Role, PassReturn(r)
  PROVE  IInv'
<1>1. /\ phase \in {"recording", "reconstructing"}
      /\ Returning(r) /\ HasNext(r) /\ ~stopped[r] /\ Advance(r)
      /\ frames' = [frames EXCEPT ![r] = Pop(@)]
      /\ UNCHANGED <<breakpointVars, phase, id, stopped, recorded, log,
                     pending_replay_end_events, snaps>>
  BY DEF PassReturn, Returning
<1>2. TablesOK' /\ LogTyped' /\ NothingReplayed' /\ FirstSnapshotOK'
      /\ (snapshots \in Seq(SnapshotOf))'
  BY <1>1, TablesUnchanged, LogUnchanged, SnapsUnchanged DEF IInv
<1>3. done \in [Role -> Nat] /\ done[r] \in Nat
  BY DEF IInv, Progress
<1>4. \A q \in Role, function \in EntryPoints : CallsTo(q, function)' = CallsTo(q, function)
  <2>1. done[r] + 1 \notin CallsOf(r)
    BY <1>1, ReturnIsNoCall
  <2> QED
    BY <1>1, <1>3, <2>1, CallsAfterStep
<1>5. done' \in [Role -> Nat]
  BY <1>1, <1>3, CallsAfterStep
<1>6. Progress'
  <2>1. frames[r] \in Seq(Nat) /\ frames[r] # <<>>
    BY <1>1 DEF Returning, IInv, Progress
  <2>2. Pop(frames[r]) \in Seq(Nat)
    BY <2>1, PopFrame
  <2>3. frames' \in [Role -> Seq(Nat)]
    BY <1>1, <2>2 DEF IInv, Progress
  <2> QED
    BY <1>1, <1>5, <2>3 DEF IInv, Progress
<1>7. (phase = "reconstructing" => IdsOK /\ FramesOK /\ EventsReplayed)'
  BY <1>1, <1>4, AdvanceKeepsIds, ReturnKeepsFrames, EventsUnchanged DEF IInv, log
<1> QED
  BY <1>2, <1>6, <1>7 DEF IInv

----------------------------------------------------------------------------
(* The recording.                                                          *)

LEMMA NewEventTyped ==
  ASSUME Progress, LogTyped, NEW r \in Role, Calling(r)
  PROVE  NewEvent(r) \in Event /\ ~NewEvent(r).replayed
<1>1. id[r] \in Thread /\ done[r] \in Nat
  BY DEF Progress, Calling, HasNext
<1>2. Rip(r) \in EntryPoints
  BY <1>1, RipOfCall
<1>3. Ordinal(r, done[r] + 1) \in Nat
  <2> DEFINE before == CallsOf(r) \cap 1..((done[r] + 1) - 1)
  <2>1. IsFiniteSet(1..((done[r] + 1) - 1))
    BY <1>1, FS_Interval
  <2>2. IsFiniteSet(before)
    BY <2>1, FS_Subset
  <2>3. Ordinal(r, done[r] + 1) = Cardinality(before)
    BY DEF Ordinal
  <2> HIDE DEF before
  <2> QED
    BY <2>2, <2>3, FS_CardinalityType
<1> QED
  BY <1>1, <1>2, <1>3 DEF NewEvent, Event, LogTyped

LEMMA RecordCallHolds ==
  ASSUME IInv, NEW r \in Role, RecordCall(r)
  PROVE  IInv'
<1>1. /\ phase = "recording" /\ phase' = phase /\ Calling(r)
      /\ CreateHeldBreakpoints({Site(r, done[r] + 1)}, id[r], "Return")
      /\ pending_thread_events' =
             [pending_thread_events EXCEPT ![id[r]] = Append(@, NewEvent(r))]
      /\ global_sequence' = global_sequence + 1
      /\ UNCHANGED <<stopped, recorded, event_log, pending_replay_end_events, snaps>>
  BY DEF RecordCall
<1>2. PICK new \in NewIds(r) : Perform(r, new)
  BY DEF RecordCall
<1>3. Progress /\ LogTyped /\ TablesOK /\ NothingReplayed
      /\ done[r] \in Nat /\ id[r] \in Thread
  BY <1>1 DEF IInv, Progress, Calling, HasNext
<1> DEFINE created == Program[r][done[r] + 1].creates
<1>4. /\ created \in Role \cup {NoRole}
      /\ Site(r, done[r] + 1) \in Address \ EntryPoints
  BY <1>1, <1>3, RipOfCall
<1>5. TablesOK'
  BY <1>1, <1>3, <1>4, CreateKeepsTables
<1>6. created # NoRole => new \in Thread
  BY <1>1, <1>2, <1>4, ReplayAssumption DEF NewIds
<1>7. Progress'
  <2>1. done' \in [Role -> Nat]
    BY <1>2, <1>3 DEF Perform, Advance, Progress
  <2>2. id' \in [Role -> Thread \cup {NoId}]
    BY <1>2, <1>3, <1>6 DEF Perform, Progress
  <2>3. frames' \in [Role -> Seq(Nat)]
    <3>1. frames[r] \in Seq(Nat) /\ done[r] + 1 \in Nat
      BY <1>3 DEF Progress
    <3>2. Append(frames[r], done[r] + 1) \in Seq(Nat)
      BY <3>1, PushFrame
    <3> QED
      BY <1>2, <1>3, <3>2 DEF Perform, Progress
  <2> QED
    BY <1>1, <1>3, <2>1, <2>2, <2>3 DEF Progress
<1> DEFINE event == NewEvent(r)
           t == id[r]
<1>8. event \in Event /\ ~event.replayed
  BY <1>1, <1>3, NewEventTyped
<1> HIDE DEF event
<1>9. /\ pending_thread_events[t] \in Seq(Event)
      /\ Append(pending_thread_events[t], event) \in Seq(Event)
      /\ Len(Append(pending_thread_events[t], event)) = Len(pending_thread_events[t]) + 1
      /\ \A i \in 1..(Len(pending_thread_events[t]) + 1) :
            Append(pending_thread_events[t], event)[i] =
               IF i <= Len(pending_thread_events[t]) THEN pending_thread_events[t][i] ELSE event
  <2>1. pending_thread_events[t] \in Seq(Event)
    BY <1>3 DEF LogTyped
  <2> DEFINE old == pending_thread_events[t]
  <2> HIDE DEF old
  <2>2. /\ Append(old, event) \in Seq(Event) /\ Len(old) \in Nat
        /\ Len(Append(old, event)) = Len(old) + 1
        /\ \A i \in 1..Len(old) : Append(old, event)[i] = old[i]
        /\ Append(old, event)[Len(old) + 1] = event
    BY <1>8, <2>1, AppendProperties DEF old
  <2>3. \A i \in 1..(Len(old) + 1) :
            Append(old, event)[i] = IF i <= Len(old) THEN old[i] ELSE event
    BY <2>2
  <2> QED
    BY <2>1, <2>2, <2>3 DEF old
<1> DEFINE more == Append(pending_thread_events[t], event)
<1>10. pending_thread_events' = [pending_thread_events EXCEPT ![t] = more]
  BY <1>1 DEF event
<1> HIDE DEF more
<1>11. LogTyped'
  BY <1>1, <1>3, <1>9, <1>10 DEF LogTyped, more
<1>12. NothingReplayed'
  <2>1. ASSUME NEW u \in Thread, NEW i \in DOMAIN pending_thread_events'[u]
        PROVE  ~pending_thread_events'[u][i].replayed
    <3>1. CASE u # t
      BY <2>1, <3>1, <1>1, <1>3, <1>10 DEF LogTyped, NothingReplayed
    <3>2. CASE u = t
      <4>1. pending_thread_events'[u] = more
        BY <3>2, <1>3, <1>10 DEF LogTyped
      <4>2. /\ more \in Seq(Event) /\ Len(more) = Len(pending_thread_events[t]) + 1
            /\ \A j \in 1..(Len(pending_thread_events[t]) + 1) :
                  more[j] = IF j <= Len(pending_thread_events[t])
                            THEN pending_thread_events[t][j] ELSE event
        BY <1>9 DEF more
      <4>3. i \in 1..(Len(pending_thread_events[t]) + 1)
        BY <2>1, <4>1, <4>2
      <4>4. CASE i <= Len(pending_thread_events[t])
        <5>1. i \in DOMAIN pending_thread_events[t]
          BY <4>3, <4>4, <1>9
        <5> QED
          BY <5>1, <4>1, <4>2, <4>3, <4>4, <1>1, <1>3 DEF NothingReplayed
      <4>5. CASE ~(i <= Len(pending_thread_events[t]))
        BY <4>1, <4>2, <4>3, <4>5, <1>8
      <4> QED
        BY <4>4, <4>5
    <3> QED
      BY <3>1, <3>2
  <2> QED
    BY <1>1, <1>3, <2>1 DEF NothingReplayed
<1>13. FirstSnapshotOK' /\ (snapshots \in Seq(SnapshotOf))'
  BY <1>1, SnapsUnchanged DEF IInv
<1> QED
  BY <1>1, <1>5, <1>7, <1>11, <1>12, <1>13 DEF IInv

LEMMA RecordReturnHolds ==
  ASSUME IInv, NEW r \in Role, RecordReturn(r)
  PROVE  IInv'
<1> DEFINE t == id[r]
           top == Top(pending_thread_events[t])
<1>1. /\ phase = "recording" /\ phase' = phase /\ Returning(r)
      /\ pending_thread_events[t] # <<>>
      /\ AddEvent(top)
      /\ pending_thread_events' = [pending_thread_events EXCEPT ![t] = Pop(@)]
      /\ RemoveBreakpoints({Rip(r)}, t)
      /\ UNCHANGED <<debuggee, recorded, global_sequence, pending_replay_end_events, snaps>>
  BY DEF RecordReturn
<1>2. /\ Progress /\ LogTyped /\ TablesOK /\ NothingReplayed
      /\ t \in Thread /\ pending_thread_events[t] \in Seq(Event)
  BY <1>1 DEF IInv, Progress, LogTyped, Returning, HasNext
<1> DEFINE pending == pending_thread_events[t]
           n == Len(pending)
<1>3. n \in Nat /\ n >= 1 /\ n \in 1..n /\ DOMAIN pending = 1..n
  BY <1>1, <1>2, EmptySeq
<1>4. top \in Event /\ ~top.replayed
  <2>1. top = pending[n]
    BY DEF Top
  <2>2. pending[n] \in Event
    BY <1>2, <1>3, ElementOfSeq
  <2> QED
    BY <2>1, <2>2, <1>1, <1>2, <1>3 DEF NothingReplayed
<1> HIDE DEF top
<1>5. /\ event_log' \in Seq(Event)
      /\ \A i \in DOMAIN event_log' :
            event_log'[i] = top \/ \E j \in DOMAIN event_log : event_log'[i] = event_log[j]
  BY <1>1, <1>2, <1>4, AddEventTyped
<1>6. /\ Pop(pending) \in Seq(Event) /\ Len(Pop(pending)) = n - 1
      /\ \A i \in 1..(n - 1) : Pop(pending)[i] = pending[i]
  BY <1>1, <1>2, PopFrame
<1> DEFINE rest == Pop(pending)
<1>7. pending_thread_events' = [pending_thread_events EXCEPT ![t] = rest]
  BY <1>1
<1> HIDE DEF rest
<1>8. LogTyped'
  BY <1>1, <1>2, <1>5, <1>6, <1>7 DEF LogTyped, rest
<1>9. NothingReplayed'
  <2>1. ASSUME NEW i \in DOMAIN event_log'
        PROVE  ~event_log'[i].replayed
    BY <2>1, <1>1, <1>2, <1>4, <1>5 DEF NothingReplayed
  <2>2. ASSUME NEW u \in Thread, NEW i \in DOMAIN pending_thread_events'[u]
        PROVE  ~pending_thread_events'[u][i].replayed
    <3>1. CASE u # t
      BY <2>2, <3>1, <1>1, <1>2, <1>7 DEF LogTyped, NothingReplayed
    <3>2. CASE u = t
      <4>1. pending_thread_events'[u] = rest
        BY <3>2, <1>2, <1>7 DEF LogTyped
      <4>2. i \in 1..(n - 1)
        BY <2>2, <4>1, <1>3, <1>6 DEF rest
      <4>3. i \in DOMAIN pending /\ rest[i] = pending[i]
        BY <4>2, <1>3, <1>6 DEF rest
      <4> QED
        BY <4>1, <4>3, <1>1, <1>2 DEF NothingReplayed
    <3> QED
      BY <3>1, <3>2
  <2> QED
    BY <1>1, <2>1, <2>2 DEF NothingReplayed
<1>10. TablesOK'
  BY <1>1, <1>2, RemoveKeepsTables
<1>11. Progress'
  BY <1>1, <1>2 DEF Progress, debuggee
<1>12. FirstSnapshotOK' /\ (snapshots \in Seq(SnapshotOf))'
  BY <1>1, SnapsUnchanged DEF IInv
<1> QED
  BY <1>1, <1>8, <1>9, <1>10, <1>11, <1>12 DEF IInv

----------------------------------------------------------------------------
(* The restore and the reconstruction.                                     *)

\* What a restore leaves of the log.
LEMMA ResetShape ==
  ASSUME LogTyped, NEW global_seq, ResetEventReplay(global_seq)
  PROVE  /\ event_log' \in Seq(Event) /\ DOMAIN event_log' = DOMAIN event_log
         /\ \A i \in DOMAIN event_log : event_log'[i].replayed => event_log[i].replayed
<1> DEFINE n == Len(event_log)
<1>1. event_log \in Seq(Event) /\ n \in Nat /\ DOMAIN event_log = 1..n
  BY DEF LogTyped
<1>2. event_log' = [i \in 1..n |->
          IF event_log[i].global_seq > global_seq
          THEN [event_log[i] EXCEPT !.replayed = FALSE] ELSE event_log[i]]
  BY <1>1 DEF ResetEventReplay
<1>3. ASSUME NEW i \in 1..n
      PROVE  /\ event_log'[i] \in Event
             /\ event_log'[i].replayed => event_log[i].replayed
  <2>1. event_log[i] \in Event
    BY <1>1, <1>3, ElementOfSeq
  <2>2. /\ [event_log[i] EXCEPT !.replayed = FALSE] \in Event
        /\ [event_log[i] EXCEPT !.replayed = FALSE].replayed = FALSE
    BY <2>1 DEF Event
  <2> QED
    BY <2>1, <2>2, <1>2
<1>4. event_log' \in [1..n -> Event]
  BY <1>2, <1>3
<1>5. event_log' \in Seq(Event)
  BY <1>1, <1>4
<1> QED
  BY <1>1, <1>2, <1>3, <1>5

LEMMA RestoreToHolds ==
  ASSUME IInv, NEW k \in DOMAIN snapshots, RestoreTo(k)
  PROVE  IInv'
<1> DEFINE snapshot == snapshots[k]
<1>1. /\ \/ phase = "recording" /\ k = 1 /\ phase' = "reconstructing"
         \/ phase = "debugger" /\ phase' = "debugger"
      /\ done' = snapshot.done /\ frames' = snapshot.frames /\ id' = snapshot.id /\ stopped' = snapshot.stopped
      /\ byte' = snapshot.byte
      /\ ResetEventReplay(snapshot.global_sequence)
      /\ UNCHANGED <<tables, global_sequence, pending_thread_events,
                     pending_replay_end_events, snaps>>
  BY DEF RestoreTo
<1>2. snapshot \in SnapshotOf
  <2>1. k \in 1..Len(snapshots)
    BY DEF IInv
  <2> QED
    BY <2>1, ElementOfSeq DEF IInv
<1>3. /\ event_log' \in Seq(Event) /\ DOMAIN event_log' = DOMAIN event_log
      /\ \A i \in DOMAIN event_log : event_log'[i].replayed => event_log[i].replayed
  BY <1>1, ResetShape DEF IInv
<1>4. Progress'
  BY <1>1, <1>2 DEF Progress, SnapshotOf
<1>5. LogTyped' /\ NothingReplayed'
  BY <1>1, <1>3 DEF IInv, LogTyped, NothingReplayed
<1>6. TablesOK'
  BY <1>1, <1>2 DEF IInv, TablesOK, tables, Tracked, UserAddress, SnapshotOf
<1>7. FirstSnapshotOK' /\ (snapshots \in Seq(SnapshotOf))'
  BY <1>1, SnapsUnchanged DEF IInv
<1>8. ASSUME phase' = "reconstructing"
      PROVE  IdsOK' /\ FramesOK' /\ EventsReplayed'
  <2>1. /\ phase = "recording"
        /\ \A r \in Role : /\ done'[r] = 0 /\ ~stopped'[r] /\ frames'[r] = <<>>
                           /\ id'[r] = IF r \in FirstRoles THEN OriginalId[r] ELSE NoId
    BY <1>1, <1>8 DEF IInv, FirstSnapshotOK
  <2>2. IdsOK' /\ FramesOK'
    BY <2>1, ReplayAssumption DEF IdsOK, FramesOK
  <2>3. Replayed' = {}
    BY <2>1, <1>3 DEF Replayed, IInv, NothingReplayed
  <2>4. ASSUME NEW r \in Role, NEW function
        PROVE  CallsTo(r, function)' = {}
    <3>1. 1..done'[r] = {}
      BY <2>1
    <3> QED
      BY <3>1 DEF CallsTo
  <2>5. EventsReplayed'
    BY <2>3, <2>4 DEF EventsReplayed, InOrder
  <2> QED
    BY <2>2, <2>5
<1> QED
  BY <1>4, <1>5, <1>6, <1>7, <1>8 DEF IInv

\* A call that creates a role gives it an id that nobody has, and the role was
\* not there.
LEMMA PerformGivesIds ==
  ASSUME Progress, IdsOK, phase = "reconstructing", NEW r \in Role, Calling(r),
         NEW new \in NewIds(r), Perform(r, new)
  PROVE  \/ id' = id
         \/ \E c \in Role \ {r} :
               /\ id[c] = NoId /\ done[c] = 0 /\ new \in Thread
               /\ \A q \in Role : id[q] # new
               /\ id' = [id EXCEPT ![c] = new]
               /\ Creates(r, done[r] + 1, c)
<1> DEFINE i == done[r] + 1
           created == Program[r][i].creates
<1>1. /\ done[r] \in Nat /\ i \in DOMAIN Program[r] /\ IsCall(r, i)
      /\ created \in Role \cup {NoRole} /\ id[r] # NoId
  BY RipOfCall DEF Progress, Calling, HasNext
<1>2. CASE created = NoRole
  BY <1>2 DEF Perform
<1>3. CASE created # NoRole
  <2>1. created \in Role /\ Creates(r, i, created)
    BY <1>1, <1>3 DEF Creates
  <2>2. id' = [id EXCEPT ![created] = new]
    BY <1>3 DEF Perform
  <2>3. new \in Thread \ {id[q] : q \in Role}
    BY <1>3 DEF NewIds
  <2>4. created \notin FirstRoles
        /\ \A p \in Role : \A j \in DOMAIN Program[p] : Creates(p, j, created) => p = r /\ j = i
    BY <2>1, <1>1, ProgramAssumption
  <2>5. ~Created(created)
    <3>1. SUFFICES ASSUME Created(created) PROVE FALSE
      OBVIOUS
    <3>2. PICK p \in Role : \E j \in DOMAIN Program[p] : Creates(p, j, created) /\ j <= done[p]
      BY <3>1 DEF Created
    <3>3. p = r /\ i <= done[r]
      BY <3>2, <2>4
    <3> QED
      BY <3>3, <1>1
  <2>6. id[created] = NoId /\ done[created] = 0
    BY <2>1, <2>4, <2>5 DEF IdsOK
  <2> QED
    BY <2>1, <2>2, <2>3, <2>6, <1>1
<1> QED
  BY <1>2, <1>3

LEMMA PerformKeepsIds ==
  ASSUME Progress, IdsOK, phase = "reconstructing", NEW r \in Role, Calling(r),
         NEW new \in NewIds(r), Perform(r, new), stopped' = [stopped EXCEPT ![r] = FALSE]
  PROVE  IdsOK' /\ id' \in [Role -> Thread \cup {NoId}]
<1>1. /\ done \in [Role -> Nat] /\ id \in [Role -> Thread \cup {NoId}]
      /\ stopped \in [Role -> BOOLEAN]
      /\ done' = [done EXCEPT ![r] = @ + 1] /\ id[r] # NoId
      /\ \A q \in Role \ {r} : frames'[q] = frames[q]
      /\ done[r] + 1 \in DOMAIN Program[r] /\ NoId \notin Thread
  BY RipOfCall, ReplayAssumption DEF Progress, Perform, Advance, Calling, HasNext
<1>2. \A q \in Role : done[q] \in Nat /\ done'[q] \in Nat /\ done'[q] >= done[q]
  BY <1>1
<1>3. ASSUME NEW q \in Role, Created(q)
      PROVE  Created(q)'
  <2>1. PICK p \in Role : \E i \in DOMAIN Program[p] : Creates(p, i, q) /\ i <= done[p]
    BY <1>3 DEF Created
  <2>2. PICK i \in DOMAIN Program[p] : Creates(p, i, q) /\ i <= done[p]
    BY <2>1
  <2>3. i \in Nat
    BY <2>2, ScriptTyped
  <2>4. i <= done'[p]
    BY <1>2, <2>2, <2>3
  <2> QED
    BY <2>2, <2>4 DEF Created, Creates
<1>4. CASE id' = id
  BY <1>1, <1>3, <1>4 DEF IdsOK, HasNext, Calling, Returning
<1>5. CASE id' # id
  <2>1. PICK c \in Role \ {r} :
               /\ id[c] = NoId /\ done[c] = 0 /\ new \in Thread
               /\ \A q \in Role : id[q] # new
               /\ id' = [id EXCEPT ![c] = new]
               /\ Creates(r, done[r] + 1, c)
    BY <1>5, PerformGivesIds
  <2>2. id' \in [Role -> Thread \cup {NoId}]
    BY <1>1, <2>1
  <2>3. \A p, q \in Role : id'[p] = id'[q] /\ id'[p] # NoId => p = q
    BY <1>1, <2>1 DEF IdsOK
  <2>4. ASSUME NEW q \in Role
        PROVE  /\ id'[q] = NoId => done'[q] = 0
               /\ id'[q] # NoId => q \in FirstRoles \/ Created(q)'
               /\ stopped'[q] => Calling(q)' \/ Returning(q)'
    <3>1. CASE q = c
      <4>1. Created(c)'
        <5>1. done[r] + 1 <= done'[r]
          BY <1>1
        <5> QED
          BY <2>1, <1>1, <5>1 DEF Created, Creates
      <4>2. ~stopped'[c]
        BY <1>1, <2>1 DEF IdsOK, HasNext, Calling, Returning
      <4> QED
        BY <3>1, <4>1, <4>2, <1>1, <2>1
    <3>2. CASE q # c
      <4>1. id'[q] = id[q]
        BY <3>2, <1>1, <2>1
      <4>2. q # r => done'[q] = done[q] /\ stopped'[q] = stopped[q] /\ frames'[q] = frames[q]
        BY <1>1
      <4>3. q = r => ~stopped'[q]
        BY <1>1
      <4> QED
        BY <4>1, <4>2, <4>3, <1>1, <1>3 DEF IdsOK, HasNext, Calling, Returning
    <3> QED
      BY <3>1, <3>2
  <2> QED
    BY <2>2, <2>3, <2>4 DEF IdsOK
<1> QED
  BY <1>4, <1>5

\* A call is answered by the first of the thread's events for its function that
\* is left.
LEMMA ReplayEventHolds ==
  ASSUME IInv, NEW r \in Role, phase = "reconstructing", stopped[r], ReplayEvent(r),
         GetBreakpointType(Rip(r), id[r]) = "Permanent",
         stopped' = [stopped EXCEPT ![r] = FALSE], UNCHANGED snaps
  PROVE  IInv'
<1> DEFINE i == done[r] + 1
           t == id[r]
           f == Rip(r)
           matches == Matches(f, t)
           idx == First(matches)
<1>1. /\ Progress /\ LogTyped /\ TablesOK /\ NothingReplayed
      /\ IdsOK /\ FramesOK /\ EventsReplayed
      /\ done[r] \in Nat /\ HasNext(r)
  BY DEF IInv, Progress, IdsOK, Calling, Returning
<1>2. Calling(r)
  <2>1. f \in EntryPoints
    BY <1>1, PermanentIsEntry
  <2> QED
    BY <1>1, <2>1, RipOfReturn DEF IdsOK
<1>3. /\ i \in CallsOf(r) /\ f = Function(r, i) /\ f \in EntryPoints
      /\ Site(r, i) \in Address \ EntryPoints /\ t \in Thread
  BY <1>1, <1>2, RipOfCall DEF Progress, HasNext
<1>4. /\ matches # {}
      /\ event_log' = [event_log EXCEPT ![idx].replayed = TRUE]
      /\ CreateHeldBreakpoints({Site(r, i)}, t, "Return")
      /\ UNCHANGED <<phase, global_sequence, pending_thread_events>>
  BY DEF ReplayEvent
<1>5. PICK new \in NewIds(r) : Perform(r, new)
  BY DEF ReplayEvent
<1>6. /\ idx \in matches /\ \A j \in matches : idx <= j
      /\ matches \subseteq DOMAIN event_log /\ DOMAIN event_log \in SUBSET Nat
  <2>1. matches \subseteq DOMAIN event_log /\ DOMAIN event_log \in SUBSET Nat
    BY <1>1, FiniteEvents DEF Matches
  <2> HIDE DEF matches
  <2>2. \E k \in matches : \A j \in matches : k <= j
    BY <1>4, <2>1, LeastMember
  <2> QED
    BY <2>1, <2>2 DEF First
<1>7. matches = EventsOf(t, f) \ Replayed
  BY DEF Matches, EventsOf, Replayed
<1> HIDE DEF idx, matches
<1>8. /\ idx \in EventsOf(t, f) /\ idx \notin Replayed /\ idx \in DOMAIN event_log
      /\ \A j \in EventsOf(t, f) : j < idx => j \in Replayed
      /\ \A u, g : idx \in EventsOf(u, g) => u = t /\ g = f
  <2>1. idx \in EventsOf(t, f) /\ idx \notin Replayed /\ idx \in DOMAIN event_log
    BY <1>6, <1>7
  <2>2. ASSUME NEW j \in EventsOf(t, f), j < idx, j \notin Replayed
        PROVE  FALSE
    <3>1. j \in matches /\ j \in Nat /\ idx \in Nat
      BY <2>2, <1>6, <1>7
    <3> QED
      BY <2>2, <3>1, <1>6
  <2>3. ASSUME NEW u, NEW g, idx \in EventsOf(u, g)
        PROVE  u = t /\ g = f
    BY <2>1, <2>3 DEF EventsOf
  <2> QED
    BY <2>1, <2>2, <2>3
<1>9. /\ event_log' \in Seq(Event) /\ DOMAIN event_log' = DOMAIN event_log
      /\ Replayed' = Replayed \cup {idx}
      /\ \A u, g : EventsOf(u, g)' = EventsOf(u, g)
  BY <1>1, <1>4, <1>8, MarkShape
<1>10. LogTyped' /\ NothingReplayed'
  BY <1>1, <1>4, <1>9 DEF LogTyped, NothingReplayed
<1>11. TablesOK'
  BY <1>1, <1>3, <1>4, CreateKeepsTables
<1>12. FirstSnapshotOK' /\ (snapshots \in Seq(SnapshotOf))'
  BY SnapsUnchanged DEF IInv
<1>13. IdsOK' /\ id' \in [Role -> Thread \cup {NoId}]
  BY <1>1, <1>2, <1>5, PerformKeepsIds
<1>14. Progress' /\ FramesOK'
  <2>1. FramesOK' /\ frames' \in [Role -> Seq(Nat)]
    BY <1>1, <1>2, <1>5, CallKeepsFrames DEF Perform
  <2> QED
    BY <1>1, <1>4, <1>5, <1>13, <2>1 DEF Progress, Perform, Advance
<1>15. /\ \A q \in Role : q # r => done'[q] = done[q]
       /\ \A q \in Role, g \in EntryPoints : q # r \/ f # g => CallsTo(q, g)' = CallsTo(q, g)
       /\ \A g \in EntryPoints : g = f =>
             CallsTo(r, g)' = CallsTo(r, g) \cup {i} /\ i \notin CallsTo(r, g)
  <2>1. Advance(r) /\ done \in [Role -> Nat]
    BY <1>1, <1>5 DEF Perform, Progress
  <2>2. i \in CallsOf(r) /\ f = Function(r, i)
    BY <1>3
  <2> HIDE DEF f
  <2> QED
    BY <2>1, <2>2, CallsAfterStep
<1>16. \/ id' = id
       \/ \E c \in Role \ {r} :
             /\ id[c] = NoId /\ done[c] = 0 /\ new \in Thread
             /\ \A q \in Role : id[q] # new
             /\ id' = [id EXCEPT ![c] = new]
  BY <1>1, <1>2, <1>5, PerformGivesIds
\* Where the thread and the function are not those of the call, nothing changes.
<1>17. ASSUME NEW u, NEW g, u # t \/ g # f
       PROVE  EventsOf(u, g) \cap Replayed' = EventsOf(u, g) \cap Replayed
  BY <1>8, <1>9, <1>17
\* What EventsReplayed' says of one role and one function.
<1> DEFINE Answered(events, q, g) ==
               /\ \A k \in events \cap Replayed' : \A j \in events : j < k => j \in Replayed'
               /\ Cardinality(events \cap Replayed') = Cardinality(CallsTo(q, g)')
<1>18. ASSUME NEW q \in Role, NEW g \in EntryPoints, id[q] # NoId
       PROVE  Answered(EventsOf(id[q], g), q, g)
  <2> DEFINE events == EventsOf(id[q], g)
  <2>1. /\ \A k \in events \cap Replayed : \A j \in events : j < k => j \in Replayed
        /\ Cardinality(events \cap Replayed) = Cardinality(CallsTo(q, g))
    BY <1>1, <1>18 DEF EventsReplayed, InOrder
  <2>2. CASE q = r /\ g = f
    <3>1. events \cap Replayed' = (events \cap Replayed) \cup {idx}
          /\ idx \notin events \cap Replayed
      BY <2>2, <1>8, <1>9
    <3>2. IsFiniteSet(events \cap Replayed)
      BY <1>1, FiniteEvents
    <3>3. Cardinality(events \cap Replayed') = Cardinality(events \cap Replayed) + 1
      BY <3>1, <3>2, FS_AddElement
    <3>4. IsFiniteSet(CallsTo(r, g))
      BY <1>1, FiniteCalls
    <3>5. Cardinality(CallsTo(q, g)') = Cardinality(CallsTo(q, g)) + 1
      BY <2>2, <3>4, <1>15, FS_AddElement
    <3>6. \A k \in events \cap Replayed' : \A j \in events : j < k => j \in Replayed'
      BY <2>1, <2>2, <3>1, <1>8, <1>9
    <3> QED
      BY <2>1, <3>3, <3>5, <3>6
  <2>3. CASE q # r \/ g # f
    <3>1. id[q] # t \/ g # f
      BY <2>3, <1>1, <1>18 DEF IdsOK
    <3>2. events \cap Replayed' = events \cap Replayed
      BY <3>1, <1>17
    <3>3. CallsTo(q, g)' = CallsTo(q, g)
      BY <2>3, <1>15
    <3>4. Replayed \subseteq Replayed'
      BY <1>9
    <3>5. Cardinality(events \cap Replayed') = Cardinality(CallsTo(q, g)')
      BY <2>1, <3>2, <3>3, Zenon
    <3>6. \A k \in events \cap Replayed' : \A j \in events : j < k => j \in Replayed'
      BY <2>1, <3>2, <3>4, Zenon
    <3> QED
      BY <3>5, <3>6
  <2> QED
    BY <2>2, <2>3
<1>19. ASSUME NEW u \in Thread, NEW g \in EntryPoints, \A q \in Role : id[q] # u
       PROVE  EventsOf(u, g) \cap Replayed' = {}
  <2>1. EventsOf(u, g) \cap Replayed = {} /\ u # t
    BY <1>1, <1>19 DEF EventsReplayed
  <2> QED
    BY <2>1, <1>17
<1>20. ASSUME NEW c \in Role \ {r}, done[c] = 0, NEW g \in EntryPoints
       PROVE  Cardinality(CallsTo(c, g)') = 0
  <2>1. done'[c] = 0 /\ 1..0 = {}
    BY <1>15, <1>20
  <2>2. CallsTo(c, g)' = {}
    BY <2>1 DEF CallsTo
  <2> QED
    BY <2>2, FS_EmptySet
<1>21. ASSUME NEW q \in Role, NEW g \in EntryPoints, id'[q] # NoId
       PROVE  Answered(EventsOf(id'[q], g), q, g)
  <2>1. CASE id'[q] = id[q]
    BY <2>1, <1>18, <1>21
  <2>2. CASE id'[q] # id[q]
    <3>1. /\ q # r /\ done[q] = 0 /\ new \in Thread /\ id'[q] = new
          /\ \A p \in Role : id[p] # new
      BY <2>2, <1>16, <1>1 DEF Progress
    <3>2. EventsOf(id'[q], g) \cap Replayed' = {}
      BY <3>1, <1>19
    <3>3. Cardinality(CallsTo(q, g)') = 0
      BY <3>1, <1>20
    <3> QED
      BY <3>2, <3>3, FS_EmptySet
  <2> QED
    BY <2>1, <2>2
<1>22. ASSUME NEW u \in Thread, NEW g \in EntryPoints, \A q \in Role : id'[q] # u
       PROVE  EventsOf(u, g) \cap Replayed' = {}
  <2>1. \A q \in Role : id[q] # u
    BY <1>16, <1>22, <1>1, ReplayAssumption DEF Progress
  <2> QED
    BY <2>1, <1>19
<1>23. EventsReplayed'
  <2>1. ASSUME NEW q \in Role, NEW g \in EntryPoints, id'[q] # NoId
        PROVE  LET events == EventsOf(id[q], g)
               IN  (InOrder(events) /\
                    Cardinality(events \cap Replayed) = Cardinality(CallsTo(q, g)))'
    <3>1. EventsOf(id[q], g)' = EventsOf(id'[q], g)
      <4>1. \A u : {k \in DOMAIN event_log' : /\ event_log'[k].thread = u
                                              /\ event_log'[k].event_rip = g}
                        = EventsOf(u, g)
        <5>1. \A u : EventsOf(u, g)' = EventsOf(u, g)
          BY <1>9
        <5> QED
          BY <5>1, Zenon DEF EventsOf
      <4>2. {k \in DOMAIN event_log' : /\ event_log'[k].thread = id'[q]
                                       /\ event_log'[k].event_rip = g}
                = EventsOf(id'[q], g)
        BY <4>1, Zenon
      <4> QED
        BY <4>2, Zenon DEF EventsOf
    <3>2. Answered(EventsOf(id'[q], g), q, g)
      BY <1>21, <2>1
    <3> QED
      BY <3>1, <3>2 DEF InOrder
  <2>2. ASSUME NEW u \in Thread, NEW g \in EntryPoints, \A q \in Role : id'[q] # u
        PROVE  (EventsOf(u, g) \cap Replayed)' = {}
    BY <1>9, <1>22, <2>2
  <2> QED
    BY <2>1, <2>2 DEF EventsReplayed
<1> QED
  BY <1>4, <1>10, <1>11, <1>12, <1>13, <1>14, <1>23 DEF IInv

LEMMA HandleBreakpointHolds ==
  ASSUME IInv, NEW r \in Role, HandleBreakpoint(r)
  PROVE  IInv'
<1> DEFINE type == GetBreakpointType(Rip(r), id[r])
<1>1. /\ phase = "reconstructing" /\ stopped[r]
      /\ stopped' = [stopped EXCEPT ![r] = FALSE]
      /\ UNCHANGED <<recorded, snaps>>
      /\ IdsOK /\ FramesOK /\ EventsReplayed
      /\ FirstSnapshotOK' /\ (snapshots \in Seq(SnapshotOf))'
  BY SnapsUnchanged DEF HandleBreakpoint, IInv
<1>2. CASE type = "Permanent" /\ ReplayEvent(r)
  BY <1>1, <1>2, ReplayEventHolds
\* Otherwise the calls, the ids and the log stay.
<1>3. ASSUME TablesOK', phase' \in {"reconstructing", "aborted"}, UNCHANGED <<done, frames, id, log>>
      PROVE  IInv'
  <2>1. LogTyped' /\ NothingReplayed'
    BY <1>1, <1>3, LogUnchanged DEF IInv
  <2>2. Progress'
    BY <1>1, <1>3 DEF IInv, Progress
  <2>3. IdsOK' /\ FramesOK'
    BY <1>1, <1>3 DEF IInv, Progress, IdsOK, FramesOK, Created, HasNext, Calling, Returning
  <2>4. EventsReplayed'
    <3>1. \A q \in Role, function \in EntryPoints : CallsTo(q, function)' = CallsTo(q, function)
      BY <1>3 DEF CallsTo
    <3> QED
      BY <1>1, <1>3, <3>1, EventsUnchanged DEF log
  <2> QED
    BY <1>1, <1>3, <2>1, <2>2, <2>3, <2>4 DEF IInv
<1>4. CASE UNCHANGED <<breakpointVars, phase, done, frames, id, log>>
  BY <1>1, <1>3, <1>4, TablesUnchanged DEF IInv
<1>5. CASE ReplayEventEnd(r)
  <2>1. UNCHANGED <<phase, done, frames, id, log>>
    BY <1>5 DEF ReplayEventEnd
  <2>2. UNCHANGED breakpointVars \/ RemoveBreakpoints({Rip(r)}, id[r])
    BY <1>5 DEF ReplayEventEnd
  <2> QED
    BY <1>1, <1>3, <2>1, <2>2, TablesUnchanged, RemoveKeepsTables DEF IInv
<1>6. CASE phase' = "aborted" /\ UNCHANGED <<breakpointVars, done, frames, id, log>>
  BY <1>1, <1>3, <1>6, TablesUnchanged DEF IInv
<1> QED
  BY <1>2, <1>4, <1>5, <1>6 DEF HandleBreakpoint, NothingToReplay

----------------------------------------------------------------------------
LEMMA StepHolds == IInv /\ [Next]_vars => IInv'
<1> SUFFICES ASSUME IInv, [Next]_vars PROVE IInv'
  OBVIOUS
<1>1. ASSUME NEW r \in Role, PassReturn(r) PROVE IInv'
  BY <1>1, PassReturnHolds
<1>2. ASSUME NEW r \in Role, RecordCall(r) PROVE IInv'
  BY <1>2, RecordCallHolds
<1>3. ASSUME NEW r \in Role, RecordReturn(r) PROVE IInv'
  BY <1>3, RecordReturnHolds
<1>4. ASSUME NEW r \in Role, Stop(r) PROVE IInv'
  BY <1>4, StopHolds
<1>5. ASSUME NEW r \in Role, HandleBreakpoint(r) PROVE IInv'
  BY <1>5, HandleBreakpointHolds
<1>6. ASSUME NEW k \in DOMAIN snapshots, RestoreTo(k) PROVE IInv'
  BY <1>6, RestoreToHolds
<1>7. CASE Timeout
  BY <1>7, TimeoutHolds
<1>8. CASE UNCHANGED vars
  BY <1>8, StutterHolds
<1> QED
  BY <1>1, <1>2, <1>3, <1>4, <1>5, <1>6, <1>7, <1>8 DEF Next

\* The calls of a thread to a function are answered with the events that thread
\* logged for that function, from the first one on and none left out
\* (event_log.cpp:87-110): whatever the other threads replay in between, and
\* whatever ids the threads that are created again get.
THEOREM CallsReplayInOrder == Spec => []ReplaysInOrder
<1>1. IInv => ReplaysInOrder
  BY DEF IInv, EventsReplayed, ReplaysInOrder, InOrder
<1> QED
  BY <1>1, InitHolds, StepHolds, PTL DEF Spec
----------------------------------------------------------------------------
(* The stack of replayed events matches the calls a role is in.  The       *)
(* argument is in two parts.                                               *)
(*                                                                         *)
(* While the program is recorded, a thread has as many holds on return     *)
(* addresses as it has pending events.  A call made within another one     *)
(* that returns to the same address therefore leaves a pending event for   *)
(* ever: the byte goes back at the first return, the outer hold stays, and *)
(* an event no later than the outer call is never logged.                  *)
(*                                                                         *)
(* So in the reconstruction a role whose calls were all logged is in no    *)
(* two calls with one return address; each of its return addresses has one *)
(* hold, its own, and each of its stops there ends its innermost call.     *)

\* The calls a role is in after n steps of its script.
Nests(f, r) ==
    f = [n \in 0..Len(Program[r]) |-> IF n = 0 THEN <<>>
                                      ELSE IF IsCall(r, n) THEN Append(f[n - 1], n)
                                      ELSE Pop(f[n - 1])]
Nesting(r) == CHOOSE f : Nests(f, r)

FramesNested == \A r \in Role : done[r] \in 0..Len(Program[r]) /\ frames[r] = Nesting(r)[done[r]]

\* Call i is made within call o and returns to the same address.
Recursive(r, o, i) ==
    /\ i \in CallsOf(r) /\ o \in CallsOf(r) /\ o < i
    /\ \E k \in 1..Len(Nesting(r)[i - 1]) : Nesting(r)[i - 1][k] = o
    /\ Site(r, o) = Site(r, i)

\* While no snapshot but the first is restored, a return address has an int3
\* only if it has a breakpoint, which has the program's byte.
BytesOK ==
    \A a \in Address \ EntryPoints :
        /\ byte[a] = int3 => a \in Tracked
        /\ a \in Tracked => /\ address_to_bp[a].saved = Code
                            /\ address_to_bp[a].holders \in Seq(Thread)
                            /\ address_to_bp[a].count = Len(address_to_bp[a].holders)
                            /\ address_to_bp[a].count > 0

\* The events of the log and those pending: each is a call its role has begun,
\* and those of one thread are in the order of its calls.
IsEventOf(e, r, i) ==
    /\ e.thread = OriginalId[r] /\ e.thread_seq = Ordinal(r, i) /\ e.event_rip = Function(r, i)
Known(e) == \E r \in Role : \E i \in CallsOf(r) : i <= done[r] /\ IsEventOf(e, r, i)

Events == {event_log[k] : k \in DOMAIN event_log}
          \cup UNION {{pending_thread_events[t][k] : k \in DOMAIN pending_thread_events[t]} :
                         t \in Thread}

SameOrder(d, e) ==
    d.thread = e.thread => (d.global_seq < e.global_seq <=> d.thread_seq < e.thread_seq)

LogSorted == \A j, k \in DOMAIN event_log : j < k => event_log[j].global_seq < event_log[k].global_seq

EventsOK ==
    /\ \A e \in Events : Known(e) /\ e.global_seq < global_sequence
    /\ \A d, e \in Events : SameOrder(d, e)
    /\ LogSorted
    /\ \A t \in Thread : \A k \in DOMAIN pending_thread_events[t] :
          LET e == pending_thread_events[t][k]
          IN  /\ e.thread = t
              /\ \A j \in DOMAIN event_log : event_log[j].global_seq # e.global_seq
              /\ \A u \in Thread : \A j \in DOMAIN pending_thread_events[u] :
                    pending_thread_events[u][j].global_seq = e.global_seq => t = u /\ k = j

----------------------------------------------------------------------------
(* Scripts: nested calls and ordinals.                                     *)

LEMMA NestingExists ==
  ASSUME NEW r \in Role
  PROVE  \E f : Nests(f, r)
<1> DEFINE D == 0..Len(Program[r])
           Step(f, n) == IF n = 0 THEN <<>>
                         ELSE IF IsCall(r, n) THEN Append(f[n - 1], n)
                         ELSE Pop(f[n - 1])
           Upto(m) == \E f : f = [n \in D |-> f[n]] /\ \A n \in D : n < m => f[n] = Step(f, n)
           Bad == {m \in Nat : ~Upto(m)}
<1>1. Upto(0)
  <2> DEFINE f == [n \in D |-> 0]
  <2>1. f = [n \in D |-> f[n]]
    OBVIOUS
  <2>2. \A n \in D : ~(n < 0)
    OBVIOUS
  <2> HIDE DEF f
  <2> QED
    BY <2>1, <2>2
<1>2. ASSUME NEW m \in Nat, Upto(m)
      PROVE  Upto(m + 1)
  <2>1. PICK f : f = [n \in D |-> f[n]] /\ \A n \in D : n < m => f[n] = Step(f, n)
    BY <1>2
  <2> DEFINE g == [n \in D |-> IF n = m THEN Step(f, n) ELSE f[n]]
  <2>2. /\ g = [n \in D |-> g[n]]
        /\ \A n \in D : g[n] = IF n = m THEN Step(f, n) ELSE f[n]
    OBVIOUS
  <2> HIDE DEF g
  <2>3. ASSUME NEW n \in D, n < m + 1
        PROVE  g[n] = Step(g, n)
    <3>1. Step(g, n) = Step(f, n)
      <4>1. CASE n = 0
        BY <4>1
      <4>2. CASE n # 0
        <5>1. n - 1 \in D /\ n - 1 # m
          BY <2>3, <4>2
        <5>2. g[n - 1] = f[n - 1]
          BY <2>2, <5>1
        <5> QED
          BY <4>2, <5>2
      <4> QED
        BY <4>1, <4>2
    <3>2. n = m \/ n < m
      BY <2>3
    <3> HIDE DEF Step
    <3> QED
      BY <2>1, <2>2, <3>1, <3>2
  <2> HIDE DEF Step
  <2> QED
    BY <2>2, <2>3
<1>3. \A m \in Nat : Upto(m)
  <2> HIDE DEF Upto
  <2> SUFFICES ASSUME Bad # {} PROVE FALSE
    OBVIOUS
  <2>1. PICK m \in Bad : \A j \in Bad : m <= j
    <3>1. Bad \in SUBSET Nat
      OBVIOUS
    <3> HIDE DEF Bad
    <3> QED
      BY <3>1, LeastMember
  <2>2. m \in Nat /\ m # 0 /\ ~Upto(m)
    BY <1>1, <2>1
  <2>3. m - 1 \in Nat /\ (m - 1) + 1 = m /\ m - 1 \notin Bad
    BY <2>1, <2>2
  <2>4. Upto(m - 1)
    BY <2>3
  <2>5. Upto((m - 1) + 1)
    BY <1>2, <2>3, <2>4
  <2> QED
    BY <2>2, <2>3, <2>5
<1>4. Len(Program[r]) \in Nat
  BY ScriptTyped
<1>5. PICK f : f = [n \in D |-> f[n]] /\ \A n \in D : n < Len(Program[r]) + 1 => f[n] = Step(f, n)
  <2>1. Len(Program[r]) + 1 \in Nat
    BY <1>4
  <2> HIDE DEF D, Step
  <2> QED
    BY <1>3, <2>1
<1>6. \A n \in D : f[n] = Step(f, n)
  BY <1>4, <1>5
<1>7. f = [n \in D |-> Step(f, n)]
  <2> HIDE DEF D, Step
  <2> QED
    BY <1>5, <1>6
<1> QED
  BY <1>7 DEF Nests

LEMMA NestingStep ==
  ASSUME NEW r \in Role
  PROVE  /\ Nesting(r)[0] = <<>>
         /\ \A n \in Nat : n < Len(Program[r]) =>
               Nesting(r)[n + 1] = IF IsCall(r, n + 1) THEN Append(Nesting(r)[n], n + 1)
                                                       ELSE Pop(Nesting(r)[n])
<1> DEFINE f == Nesting(r)
<1>1. Nests(f, r)
  BY NestingExists DEF Nesting
<1> HIDE DEF f
<1>2. Len(Program[r]) \in Nat
  BY ScriptTyped
<1>3. \A n \in 0..Len(Program[r]) :
         f[n] = IF n = 0 THEN <<>>
                ELSE IF IsCall(r, n) THEN Append(f[n - 1], n) ELSE Pop(f[n - 1])
  BY <1>1 DEF Nests
<1>4. f[0] = <<>>
  BY <1>2, <1>3
<1>5. ASSUME NEW n \in Nat, n < Len(Program[r])
      PROVE  f[n + 1] = IF IsCall(r, n + 1) THEN Append(f[n], n + 1) ELSE Pop(f[n])
  <2>1. n + 1 \in 0..Len(Program[r]) /\ n + 1 # 0 /\ (n + 1) - 1 = n
    BY <1>2, <1>5
  <2> QED
    BY <1>3, <2>1
<1> QED
  BY <1>4, <1>5 DEF f

LEMMA OrdinalNext ==
  ASSUME NEW r \in Role, NEW n \in Nat
  PROVE  /\ Ordinal(r, n + 1) \in Nat
         /\ n \in CallsOf(r) /\ n >= 1 => Ordinal(r, n + 1) = Ordinal(r, n) + 1
         /\ n \notin CallsOf(r) /\ n >= 1 => Ordinal(r, n + 1) = Ordinal(r, n)
         /\ Ordinal(r, 1) = 0
<1> DEFINE before == CallsOf(r) \cap 1..(n - 1)
           after == CallsOf(r) \cap 1..((n + 1) - 1)
<1>1. IsFiniteSet(after) /\ Cardinality(after) \in Nat
  <2>1. IsFiniteSet(1..((n + 1) - 1))
    BY FS_Interval
  <2>2. after \subseteq 1..((n + 1) - 1)
    OBVIOUS
  <2> QED
    BY <2>1, <2>2, FS_Subset, FS_CardinalityType
<1>2. ASSUME n \in CallsOf(r), n >= 1
      PROVE  Ordinal(r, n + 1) = Ordinal(r, n) + 1
  <2>1. after = before \cup {n} /\ n \notin before /\ before \subseteq after
    BY <1>2
  <2>2. IsFiniteSet(before)
    BY <1>1, <2>1, FS_Subset
  <2> HIDE DEF before, after
  <2>3. Cardinality(after) = Cardinality(before) + 1
    BY <2>1, <2>2, FS_AddElement
  <2> QED
    BY <2>3 DEF Ordinal, before, after
<1>3. ASSUME n \notin CallsOf(r), n >= 1
      PROVE  Ordinal(r, n + 1) = Ordinal(r, n)
  <2>1. after = before
    BY <1>3
  <2> QED
    BY <2>1 DEF Ordinal
<1>4. Ordinal(r, 1) = 0
  <2>1. CallsOf(r) \cap 1..(1 - 1) = {}
    OBVIOUS
  <2> QED
    BY <2>1, FS_EmptySet DEF Ordinal
<1> QED
  BY <1>1, <1>2, <1>3, <1>4 DEF Ordinal

\* The ordinals of calls are in the order of the calls.
LEMMA OrdinalLess ==
  ASSUME NEW r \in Role, NEW i \in CallsOf(r), NEW j \in Nat, i < j
  PROVE  Ordinal(r, i) < Ordinal(r, j) /\ Ordinal(r, i) \in Nat /\ Ordinal(r, j) \in Nat
<1> DEFINE A == CallsOf(r) \cap 1..(i - 1)
           B == CallsOf(r) \cap 1..(j - 1)
<1>1. i \in Nat /\ i >= 1
  BY ScriptTyped DEF CallsOf
<1>2. IsFiniteSet(B) /\ Cardinality(B) \in Nat
  <2>1. IsFiniteSet(1..(j - 1))
    BY FS_Interval
  <2>2. B \subseteq 1..(j - 1)
    OBVIOUS
  <2> QED
    BY <2>1, <2>2, FS_Subset, FS_CardinalityType
<1>3. A \subseteq B /\ i \in B /\ i \notin A
  BY <1>1
<1> HIDE DEF A, B
<1>4. A \cup {i} \subseteq B
  BY <1>3
<1>5. /\ IsFiniteSet(A) /\ Cardinality(A) \in Nat
      /\ Cardinality(A \cup {i}) = Cardinality(A) + 1
      /\ Cardinality(A \cup {i}) <= Cardinality(B)
  BY <1>2, <1>3, <1>4, FS_Subset, FS_AddElement, FS_CardinalityType
<1> QED
  BY <1>2, <1>5 DEF Ordinal, A, B

LEMMA OrdinalUnique ==
  ASSUME NEW r \in Role, NEW i \in CallsOf(r), NEW j \in CallsOf(r)
  PROVE  /\ Ordinal(r, i) = Ordinal(r, j) => i = j
         /\ Ordinal(r, i) <= Ordinal(r, j) => i <= j
         /\ i \in Nat /\ j \in Nat
<1>1. i \in Nat /\ j \in Nat
  BY ScriptTyped DEF CallsOf
<1>2. i < j \/ j < i \/ i = j
  BY <1>1
<1>3. i < j => Ordinal(r, i) < Ordinal(r, j) /\ Ordinal(r, i) \in Nat /\ Ordinal(r, j) \in Nat
  BY <1>1, OrdinalLess
<1>4. j < i => Ordinal(r, j) < Ordinal(r, i) /\ Ordinal(r, i) \in Nat /\ Ordinal(r, j) \in Nat
  BY <1>1, OrdinalLess
<1> QED
  BY <1>1, <1>2, <1>3, <1>4

----------------------------------------------------------------------------
(* The breakpoints at return addresses.                                    *)

\* erase(find(t)): t goes from place k, and the elements after it move up.
Erased(s, e, t, k) ==
    /\ s[k] = t
    /\ Len(e) = Len(s) - 1
    /\ \A i \in 1..(k - 1) : e[i] = s[i]
    /\ \A i \in k..(Len(s) - 1) : e[i] = s[i + 1]

LEMMA EraseFirstElements ==
  ASSUME NEW S, NEW s \in Seq(S), NEW t, NEW found \in 1..Len(s), s[found] = t
  PROVE  /\ EraseFirst(s, t) \in Seq(S)
         /\ \E k \in 1..Len(s) : Erased(s, EraseFirst(s, t), t, k)
<1> DEFINE FoundAt(i) == s[i] = t /\ \A j \in 1..(i - 1) : s[j] # t
           k == CHOOSE i \in 1..Len(s) : FoundAt(i)
<1>1. \E n \in 1..Len(s) : FoundAt(n)
  <2> DEFINE T == {j \in 1..Len(s) : s[j] = t}
  <2>1. T \in SUBSET Nat /\ T # {}
    OBVIOUS
  <2> HIDE DEF T
  <2>2. PICK n \in T : \A j \in T : n <= j
    BY <2>1, LeastMember
  <2>3. n \in 1..Len(s) /\ s[n] = t
    BY <2>2 DEF T
  <2>4. ASSUME NEW j \in 1..(n - 1) PROVE s[j] # t
    BY <2>2, <2>3 DEF T
  <2> QED
    BY <2>3, <2>4
<1>2. k \in 1..Len(s) /\ s[k] = t
  BY <1>1
<1> HIDE DEF k
<1> DEFINE u == SubSeq(s, 1, k - 1)
           v == SubSeq(s, k + 1, Len(s))
<1>3. /\ u \in Seq(S) /\ Len(u) = k - 1 /\ Len(s) \in Nat
      /\ \A i \in 1..(k - 1) : u[i] = s[i]
  BY <1>2, SubSeqProperties
<1>4. /\ v \in Seq(S) /\ Len(v) = Len(s) - k
      /\ \A i \in 1..(Len(s) - k) : v[i] = s[k + i]
  <2>1. v \in Seq(S) /\ Len(v) = Len(s) - k
    BY <1>2, SubSeqProperties
  <2>2. \A i \in 1..(Len(s) - k) : v[i] = s[k + i]
    BY <1>2
  <2> QED
    BY <2>1, <2>2
<1>5. EraseFirst(s, t) = u \o v
  BY DEF EraseFirst, k
<1> HIDE DEF u, v
<1> DEFINE e == EraseFirst(s, t)
<1>6. /\ e \in Seq(S) /\ Len(e) = Len(u) + Len(v)
      /\ \A i \in 1..(Len(u) + Len(v)) :
            e[i] = IF i <= Len(u) THEN u[i] ELSE v[i - Len(u)]
  <2>1. /\ u \o v \in Seq(S) /\ Len(u \o v) = Len(u) + Len(v)
        /\ \A i \in 1..(Len(u) + Len(v)) :
              (u \o v)[i] = IF i <= Len(u) THEN u[i] ELSE v[i - Len(u)]
    BY <1>3, <1>4, ConcatProperties
  <2> QED
    BY <1>5, <2>1
<1> HIDE DEF e
<1>7. Len(e) = Len(s) - 1
  BY <1>2, <1>3, <1>4, <1>6
<1>8. ASSUME NEW i \in 1..(k - 1) PROVE e[i] = s[i]
  <2>1. i \in 1..(Len(u) + Len(v)) /\ i <= Len(u)
    BY <1>2, <1>3, <1>4
  <2>2. e[i] = u[i]
    BY <1>6, <2>1
  <2> QED
    BY <1>3, <2>2
<1>9. ASSUME NEW i \in k..(Len(s) - 1) PROVE e[i] = s[i + 1]
  <2>1. /\ i \in 1..(Len(u) + Len(v)) /\ ~(i <= Len(u))
        /\ i - Len(u) = i - (k - 1) /\ i - (k - 1) \in 1..(Len(s) - k)
    BY <1>2, <1>3, <1>4
  <2>2. e[i] = v[i - (k - 1)]
    BY <1>6, <2>1
  <2>3. v[i - (k - 1)] = s[k + (i - (k - 1))]
    BY <1>4, <2>1
  <2>4. k + (i - (k - 1)) = i + 1
    BY <1>2
  <2> QED
    BY <2>2, <2>3, <2>4
<1> QED
  BY <1>2, <1>6, <1>7, <1>8, <1>9 DEF e, Erased

LEMMA EraseFirstShortens ==
  ASSUME NEW S, NEW s \in Seq(S), NEW t, NEW k \in 1..Len(s), s[k] = t
  PROVE  /\ EraseFirst(s, t) \in Seq(S)
         /\ Len(EraseFirst(s, t)) = Len(s) - 1
BY EraseFirstElements DEF Erased

\* The vector of holders of a return address, empty where there is no breakpoint.
HoldersOf(a) == IF a \in Tracked \cap (Address \ EntryPoints) THEN address_to_bp[a].holders ELSE <<>>

LEMMA HoldersTyped ==
  ASSUME BytesOK, NEW a
  PROVE  /\ HoldersOf(a) \in Seq(Thread) /\ Len(HoldersOf(a)) \in Nat
         /\ \A i \in 1..Len(HoldersOf(a)) : HoldersOf(a)[i] \in Thread
<1>1. HoldersOf(a) \in Seq(Thread)
  BY DEF HoldersOf, BytesOK
<1> QED
  BY <1>1, ElementOfSeq

\* One thread more holds the breakpoint at a return address.
LEMMA CreateShape ==
  ASSUME TablesOK, BytesOK, NEW s \in Address \ EntryPoints, NEW t \in Thread,
         CreateHeldBreakpoints({s}, t, "Return")
  PROVE  /\ BytesOK'
         /\ Tracked' = Tracked \cup {s}
         /\ HoldersOf(s)' = Append(HoldersOf(s), t)
         /\ \A a : a # s => HoldersOf(a)' = HoldersOf(a)
         /\ byte' = IF s \in Tracked THEN byte ELSE [byte EXCEPT ![s] = int3]
<1> DEFINE S == {s}
           bp == address_to_bp[s]
<1>1. /\ byte' = Armed(S \ Tracked)
      /\ address_to_bp' = [a \in Tracked \cup S |->
             IF a \notin S THEN address_to_bp[a]
             ELSE IF a \notin Tracked THEN Written(a, "Return", <<t>>)
             ELSE [address_to_bp[a] EXCEPT !.holders = Append(@, t), !.count = @ + 1]]
  BY DEF CreateHeldBreakpoints
<1>2. Tracked' = Tracked \cup {s}
  BY <1>1 DEF Tracked
<1>3. byte \in [Address -> Byte]
  BY DEF TablesOK
<1>4. \A a \in Tracked : a # s => address_to_bp'[a] = address_to_bp[a]
  BY <1>1
<1>5. ASSUME s \notin Tracked
      PROVE  /\ address_to_bp'[s].holders = <<t>> /\ address_to_bp'[s].saved = Code
             /\ address_to_bp'[s].count = 1
  <2>1. byte[s] = Code
    BY <1>3, <1>5 DEF BytesOK, Byte
  <2>2. address_to_bp'[s] = Written(s, "Return", <<t>>)
    BY <1>1, <1>5
  <2> QED
    BY <2>1, <2>2 DEF Written
<1>6. ASSUME s \in Tracked
      PROVE  /\ address_to_bp'[s].holders = Append(bp.holders, t)
             /\ address_to_bp'[s].saved = Code
             /\ address_to_bp'[s].count = bp.count + 1
  <2>1. address_to_bp'[s] = [bp EXCEPT !.holders = Append(@, t), !.count = @ + 1]
    BY <1>1, <1>6
  <2>2. bp = [saved |-> bp.saved, kind |-> bp.kind, count |-> bp.count, holders |-> bp.holders]
    BY <1>6 DEF TablesOK
  <2>3. bp.saved = Code
    BY <1>6 DEF BytesOK
  <2> HIDE DEF bp
  <2> QED
    BY <2>1, <2>2, <2>3
<1>7. byte' = IF s \in Tracked THEN byte ELSE [byte EXCEPT ![s] = int3]
  BY <1>1, <1>3 DEF Armed
<1>8. HoldersOf(s)' = Append(HoldersOf(s), t)
  <2>1. CASE s \in Tracked
    BY <2>1, <1>2, <1>6 DEF HoldersOf
  <2>2. CASE s \notin Tracked
    <3>1. Append(<<>>, t) = <<t>>
      OBVIOUS
    <3> QED
      BY <2>2, <3>1, <1>2, <1>5 DEF HoldersOf
  <2> QED
    BY <2>1, <2>2
<1>9. \A a : a # s => HoldersOf(a)' = HoldersOf(a)
  BY <1>2, <1>4 DEF HoldersOf
<1>10. BytesOK'
  <2>1. ASSUME NEW a \in Address \ EntryPoints
        PROVE  /\ byte'[a] = int3 => a \in Tracked'
               /\ a \in Tracked' => /\ address_to_bp'[a].saved = Code
                                     /\ address_to_bp'[a].holders \in Seq(Thread)
                                     /\ address_to_bp'[a].count = Len(address_to_bp'[a].holders)
                                     /\ address_to_bp'[a].count > 0
    <3>1. CASE a # s
      <4>1. byte'[a] = byte[a] /\ (a \in Tracked' <=> a \in Tracked)
        BY <3>1, <1>2, <1>3, <1>7
      <4> QED
        BY <3>1, <4>1, <1>4 DEF BytesOK
    <3>2. CASE a = s /\ s \in Tracked
      <4> DEFINE h == bp.holders
      <4>1. h \in Seq(Thread) /\ bp.count = Len(h) /\ bp.count > 0
        BY <3>2 DEF BytesOK
      <4>2. /\ Append(h, t) \in Seq(Thread) /\ Len(h) \in Nat
            /\ Len(Append(h, t)) = Len(h) + 1
        <5> HIDE DEF h
        <5> QED
          BY <4>1
      <4>3. bp.count + 1 = Len(Append(h, t)) /\ bp.count + 1 > 0
        <5> HIDE DEF h, bp
        <5> QED
          BY <4>1, <4>2
      <4>4. /\ address_to_bp'[s].holders = Append(h, t) /\ address_to_bp'[s].saved = Code
            /\ address_to_bp'[s].count = bp.count + 1
        BY <3>2, <1>6
      <4>5. byte'[s] = int3 => s \in Tracked'
        BY <3>2, <1>2
      <4> HIDE DEF h, bp
      <4> QED
        BY <3>2, <4>2, <4>3, <4>4, <4>5
    <3>3. CASE a = s /\ s \notin Tracked
      <4> DEFINE h == <<t>>
      <4>1. h \in Seq(Thread) /\ Len(h) = 1
        OBVIOUS
      <4>2. /\ address_to_bp'[s].holders = h /\ address_to_bp'[s].saved = Code
            /\ address_to_bp'[s].count = 1
        BY <3>3, <1>5
      <4>3. s \in Tracked' /\ 1 > 0
        BY <1>2
      <4> HIDE DEF h
      <4> QED
        BY <3>3, <4>1, <4>2, <4>3
    <3> QED
      BY <3>1, <3>2, <3>3
  <2> QED
    BY <2>1 DEF BytesOK
<1> QED
  BY <1>2, <1>7, <1>8, <1>9, <1>10

\* One hold of a thread on the breakpoint at a return address goes.
LEMMA RemoveShape ==
  ASSUME TablesOK, BytesOK, NEW s \in Address \ EntryPoints, s \in Tracked,
         NEW t \in Thread, t \in Holders(s), RemoveBreakpoints({s}, t)
  PROVE  /\ BytesOK'
         /\ Tracked' = IF Len(HoldersOf(s)) = 1 THEN Tracked \ {s} ELSE Tracked
         /\ HoldersOf(s)' = EraseFirst(HoldersOf(s), t)
         /\ \A a : a # s => HoldersOf(a)' = HoldersOf(a)
         /\ byte' = [byte EXCEPT ![s] = Code]
<1> DEFINE S == {s}
           bp == address_to_bp[s]
           released == {a \in S : RemovableBy(t, a)}
           last     == {a \in released : address_to_bp[a].count = 1}
           users    == {TrueAddress[a] : a \in S \ (Tracked \cup permanent)} \cap UserAddress
<1>1. released = {s} /\ users = {}
  BY DEF TablesOK, RemovableBy, Holds
<1>2. /\ byte' = [a \in Address |->
             IF a \in released THEN address_to_bp[a].saved
             ELSE IF a \in users THEN user_breakpoints[a] ELSE byte[a]]
      /\ address_to_bp' = [a \in Tracked \ last |->
             IF a \in released
             THEN [address_to_bp[a] EXCEPT !.holders = EraseFirst(@, t), !.count = @ - 1]
             ELSE address_to_bp[a]]
  BY DEF RemoveBreakpoints
<1>3. last = IF bp.count = 1 THEN {s} ELSE {}
  BY <1>1
<1> HIDE DEF released, last, users
<1>4. /\ byte \in [Address -> Byte]
      /\ bp.saved = Code /\ bp.holders \in Seq(Thread) /\ bp.count = Len(bp.holders) /\ bp.count > 0
      /\ bp = [saved |-> bp.saved, kind |-> bp.kind, count |-> bp.count, holders |-> bp.holders]
      /\ HoldersOf(s) = bp.holders
  BY DEF TablesOK, BytesOK, HoldersOf
<1>5. byte' = [byte EXCEPT ![s] = Code]
  BY <1>1, <1>2, <1>4
<1>6. /\ Tracked' = Tracked \ last
      /\ \A a \in Tracked' : a # s => address_to_bp'[a] = address_to_bp[a]
  BY <1>1, <1>2 DEF Tracked
<1>7. ASSUME s \in Tracked'
      PROVE  /\ address_to_bp'[s].holders = EraseFirst(bp.holders, t)
             /\ address_to_bp'[s].saved = Code
             /\ address_to_bp'[s].count = bp.count - 1
  <2>1. address_to_bp'[s] = [bp EXCEPT !.holders = EraseFirst(@, t), !.count = @ - 1]
    BY <1>1, <1>2, <1>6, <1>7
  <2> HIDE DEF bp
  <2> QED
    BY <2>1, <1>4
<1>8. EraseFirst(bp.holders, t) \in Seq(Thread) /\ Len(EraseFirst(bp.holders, t)) = Len(bp.holders) - 1
  <2>1. PICK k \in 1..Len(bp.holders) : bp.holders[k] = t
    BY DEF Holders
  <2> QED
    BY <1>4, <2>1, EraseFirstShortens
<1>9. s \in Tracked' <=> bp.count # 1
  BY <1>3, <1>6
<1>10. HoldersOf(s)' = EraseFirst(HoldersOf(s), t)
  <2>1. CASE s \in Tracked'
    BY <2>1, <1>4, <1>7 DEF HoldersOf
  <2>2. CASE s \notin Tracked'
    <3>1. Len(EraseFirst(bp.holders, t)) = 0
      BY <2>2, <1>4, <1>8, <1>9
    <3>2. EraseFirst(bp.holders, t) = <<>>
      BY <1>8, <3>1, EmptySeq
    <3> QED
      BY <2>2, <3>2, <1>4 DEF HoldersOf
  <2> QED
    BY <2>1, <2>2
<1>11. \A a : a # s => HoldersOf(a)' = HoldersOf(a)
  BY <1>3, <1>6 DEF HoldersOf
<1>12. BytesOK'
  <2>1. ASSUME NEW a \in Address \ EntryPoints
        PROVE  /\ byte'[a] = int3 => a \in Tracked'
               /\ a \in Tracked' => /\ address_to_bp'[a].saved = Code
                                     /\ address_to_bp'[a].holders \in Seq(Thread)
                                     /\ address_to_bp'[a].count = Len(address_to_bp'[a].holders)
                                     /\ address_to_bp'[a].count > 0
    <3>1. CASE a # s
      <4>1. byte'[a] = byte[a] /\ (a \in Tracked' <=> a \in Tracked)
        BY <3>1, <1>3, <1>4, <1>5, <1>6
      <4> QED
        BY <3>1, <4>1, <1>6 DEF BytesOK
    <3>2. CASE a = s
      <4>1. byte'[s] # int3
        BY <1>4, <1>5 DEF int3, Code
      <4>3. ~(byte'[a] = int3)
        BY <3>2, <4>1
      <4>2. s \in Tracked' => bp.count - 1 = Len(bp.holders) - 1 /\ bp.count - 1 > 0
        <5>1. Len(bp.holders) \in Nat
          BY <1>4
        <5>2. bp.count = Len(bp.holders) /\ bp.count > 0 /\ (s \in Tracked' => bp.count # 1)
          BY <1>4, <1>9
        <5> DEFINE n == Len(bp.holders)
                   c == bp.count
        <5>3. n \in Nat /\ c = n /\ c > 0 => c - 1 = n - 1 /\ (c # 1 => c - 1 > 0)
          <6> HIDE DEF n, c
          <6> QED
            OBVIOUS
        <5> QED
          BY <5>1, <5>2, <5>3
      <4>4. s \in Tracked' =>
               /\ address_to_bp'[s].saved = Code
               /\ address_to_bp'[s].holders = EraseFirst(bp.holders, t)
               /\ address_to_bp'[s].count = Len(EraseFirst(bp.holders, t))
               /\ address_to_bp'[s].count > 0
        BY <4>2, <1>7, <1>8
      <4> HIDE DEF bp
      <4> QED
        BY <3>2, <4>3, <4>4, <1>8
    <3> QED
      BY <3>1, <3>2
  <2> QED
    BY <2>1 DEF BytesOK
<1> QED
  BY <1>3, <1>4, <1>5, <1>6, <1>10, <1>11, <1>12

----------------------------------------------------------------------------
(* Events.                                                                 *)

LEMMA EventsTyped ==
  ASSUME LogTyped
  PROVE  /\ \A e \in Events : /\ e \in Event
                              /\ e.global_seq \in Nat /\ e.thread_seq \in Nat /\ e.thread \in Thread
         /\ Len(event_log) \in Nat /\ DOMAIN event_log = 1..Len(event_log)
         /\ \A k \in DOMAIN event_log : event_log[k] \in Events
         /\ \A t \in Thread : /\ pending_thread_events[t] \in Seq(Event)
                              /\ Len(pending_thread_events[t]) \in Nat
                              /\ DOMAIN pending_thread_events[t] = 1..Len(pending_thread_events[t])
                              /\ \A k \in DOMAIN pending_thread_events[t] :
                                    pending_thread_events[t][k] \in Events
<1>1. /\ event_log \in Seq(Event) /\ Len(event_log) \in Nat /\ DOMAIN event_log = 1..Len(event_log)
      /\ \A k \in DOMAIN event_log : event_log[k] \in Event
  BY ElementOfSeq DEF LogTyped
<1>2. ASSUME NEW t \in Thread
      PROVE  /\ pending_thread_events[t] \in Seq(Event)
             /\ Len(pending_thread_events[t]) \in Nat
             /\ DOMAIN pending_thread_events[t] = 1..Len(pending_thread_events[t])
             /\ \A k \in DOMAIN pending_thread_events[t] : pending_thread_events[t][k] \in Event
  <2>1. pending_thread_events[t] \in Seq(Event)
    BY DEF LogTyped
  <2> QED
    BY <2>1, ElementOfSeq
<1>3. \A e \in Events : e \in Event
  BY <1>1, <1>2 DEF Events
<1>4. \A e \in Event : e.global_seq \in Nat /\ e.thread_seq \in Nat /\ e.thread \in Thread
  BY DEF Event
<1>5. \A k \in DOMAIN event_log : event_log[k] \in Events
  BY DEF Events
<1>6. \A t \in Thread : \A k \in DOMAIN pending_thread_events[t] : pending_thread_events[t][k] \in Events
  BY DEF Events
<1> QED
  BY <1>1, <1>2, <1>3, <1>4, <1>5, <1>6

\* An event goes behind the earlier ones and before the later ones.
LEMMA UpToIsPlace ==
  ASSUME LogTyped, LogSorted, NEW e \in Event
  PROVE  \A i \in DOMAIN event_log : i <= UpTo(e) <=> event_log[i].global_seq <= e.global_seq
<1> DEFINE n == Len(event_log)
           before == {i \in DOMAIN event_log : event_log[i].global_seq <= e.global_seq}
           after == {i \in DOMAIN event_log : ~(event_log[i].global_seq <= e.global_seq)}
<1>1. /\ n \in Nat /\ DOMAIN event_log = 1..n
      /\ \A i \in DOMAIN event_log : event_log[i].global_seq \in Nat
      /\ e.global_seq \in Nat
  BY EventsTyped DEF Event
<1>2. PICK m \in Nat : m <= n /\ before = 1..m
  <2>1. CASE after = {}
    <3>1. before = 1..n
      BY <2>1, <1>1
    <3> QED
      BY <3>1, <1>1
  <2>2. CASE after # {}
    <3>1. after \in SUBSET Nat
      BY <1>1
    <3>2. PICK l \in after : \A j \in after : l <= j
      <4> HIDE DEF after
      <4> QED
        BY <2>2, <3>1, LeastMember
    <3>3. l \in 1..n /\ ~(event_log[l].global_seq <= e.global_seq) /\ l - 1 \in Nat /\ l - 1 <= n
      BY <3>2, <1>1
    <3>4. ASSUME NEW i \in 1..n
          PROVE  event_log[i].global_seq <= e.global_seq <=> i <= l - 1
      <4>1. CASE i <= l - 1
        BY <3>2, <3>3, <4>1, <1>1
      <4>2. CASE i >= l
        <5>1. i = l \/ event_log[l].global_seq < event_log[i].global_seq
          BY <4>2, <3>3, <1>1 DEF LogSorted
        <5> QED
          BY <5>1, <4>2, <3>3, <1>1
      <4> QED
        BY <4>1, <4>2, <3>3
    <3>5. before = 1..(l - 1)
      BY <1>1, <3>3, <3>4
    <3> QED
      BY <3>3, <3>5
  <2> QED
    BY <2>1, <2>2
<1>3. UpTo(e) = m
  <2>1. Cardinality(1..m) = m
    <3>1. Cardinality(1..m) = IF 1 > m THEN 0 ELSE m - 1 + 1
      BY <1>2, FS_Interval
    <3> QED
      BY <3>1, <1>2
  <2>2. UpTo(e) = Cardinality(before)
    BY DEF UpTo
  <2> QED
    BY <2>1, <2>2, <1>2
<1>4. \A i \in DOMAIN event_log : i \in before <=> i <= m
  BY <1>1, <1>2
<1> QED
  BY <1>3, <1>4

LEMMA AddEventSorted ==
  ASSUME LogTyped, LogSorted, NEW e \in Event, AddEvent(e),
         \A j \in DOMAIN event_log : event_log[j].global_seq # e.global_seq
  PROVE  /\ LogSorted'
         /\ \A k \in DOMAIN event_log' :
               event_log'[k] = e \/ \E j \in DOMAIN event_log : event_log'[k] = event_log[j]
         /\ \A j \in DOMAIN event_log : \E k \in DOMAIN event_log' : event_log'[k] = event_log[j]
         /\ \E k \in DOMAIN event_log' : event_log'[k] = e
<1> DEFINE n == Len(event_log)
           seq(i) == event_log[i].global_seq
<1> PICK m : m = UpTo(e)
  OBVIOUS
<1>1. /\ n \in Nat /\ DOMAIN event_log = 1..n
      /\ \A i \in 1..n : seq(i) \in Nat /\ seq(i) # e.global_seq
      /\ e.global_seq \in Nat
  BY EventsTyped DEF Event
<1>2. /\ event_log' \in Seq(Event) /\ m \in 0..n /\ Len(event_log') = n + 1
      /\ \A i \in 1..(n + 1) :
               event_log'[i] = IF i <= m THEN event_log[i]
                               ELSE IF i = m + 1 THEN e ELSE event_log[i - 1]
      /\ \A k \in DOMAIN event_log' :
               event_log'[k] = e \/ \E j \in DOMAIN event_log : event_log'[k] = event_log[j]
  BY AddEventTyped
<1>3. DOMAIN event_log' = 1..(n + 1)
  BY <1>2
<1>4. \A i \in 1..n : i <= m <=> seq(i) <= e.global_seq
  BY <1>1, UpToIsPlace
<1>5. \A j, k \in 1..n : j < k => seq(j) < seq(k)
  BY <1>1 DEF LogSorted
<1>6. ASSUME NEW i \in 1..(n + 1)
      PROVE  /\ i <= m => i \in 1..n /\ event_log'[i].global_seq = seq(i) /\ seq(i) < e.global_seq
             /\ i = m + 1 => event_log'[i] = e
             /\ i > m + 1 => i - 1 \in 1..n /\ event_log'[i].global_seq = seq(i - 1) /\ seq(i - 1) > e.global_seq
  <2>1. i <= m => i \in 1..n
    BY <1>1, <1>2
  <2>2. i > m + 1 => i - 1 \in 1..n /\ ~(i - 1 <= m) /\ ~(i <= m) /\ i # m + 1
    BY <1>1, <1>2
  <2>3. i = m + 1 => ~(i <= m)
    BY <1>2
  <2>4. CASE i <= m
    <3>1. event_log'[i] = event_log[i] /\ seq(i) \in Nat /\ seq(i) # e.global_seq /\ seq(i) <= e.global_seq
      BY <2>1, <2>4, <1>1, <1>2, <1>4
    <3> QED
      BY <2>1, <2>4, <3>1, <1>1, <1>2
  <2>5. CASE i = m + 1
    BY <2>5, <1>2
  <2>6. CASE i > m + 1
    <3>1. /\ event_log'[i] = event_log[i - 1] /\ seq(i - 1) \in Nat /\ seq(i - 1) # e.global_seq
          /\ ~(seq(i - 1) <= e.global_seq)
      BY <2>2, <2>6, <1>1, <1>2, <1>4
    <3> QED
      BY <2>2, <2>6, <3>1, <1>1, <1>2
  <2> QED
    BY <2>4, <2>5, <2>6, <1>2
<1>7. LogSorted'
  <2> SUFFICES ASSUME NEW j \in 1..(n + 1), NEW k \in 1..(n + 1), j < k
               PROVE  event_log'[j].global_seq < event_log'[k].global_seq
    BY <1>3 DEF LogSorted
  <2>1. CASE k <= m
    BY <2>1, <1>1, <1>2, <1>5, <1>6
  <2>2. CASE k = m + 1
    BY <2>2, <1>1, <1>2, <1>6
  <2>3. CASE k > m + 1 /\ j <= m
    <3>1. /\ event_log'[j].global_seq = seq(j) /\ seq(j) < e.global_seq /\ seq(j) \in Nat
          /\ event_log'[k].global_seq = seq(k - 1) /\ seq(k - 1) > e.global_seq /\ seq(k - 1) \in Nat
      BY <2>3, <1>1, <1>6
    <3> HIDE DEF seq
    <3> QED
      BY <3>1, <1>1
  <2>4. CASE k > m + 1 /\ j = m + 1
    BY <2>4, <1>1, <1>2, <1>6
  <2>5. CASE k > m + 1 /\ j > m + 1
    <3>1. j - 1 \in 1..n /\ k - 1 \in 1..n /\ j - 1 < k - 1
      BY <2>5, <1>6
    <3> QED
      BY <2>5, <3>1, <1>5, <1>6
  <2> QED
    BY <2>1, <2>2, <2>3, <2>4, <2>5, <1>2
<1>8. ASSUME NEW j \in DOMAIN event_log
      PROVE  \E k \in DOMAIN event_log' : event_log'[k] = event_log[j]
  <2>1. j \in 1..n
    BY <1>1
  <2>2. CASE j <= m
    BY <2>1, <2>2, <1>1, <1>2, <1>3
  <2>3. CASE j > m
    <3>1. /\ j + 1 \in 1..(n + 1) /\ ~(j + 1 <= m) /\ j + 1 # m + 1 /\ (j + 1) - 1 = j
      BY <2>1, <2>3, <1>1, <1>2
    <3> QED
      BY <3>1, <1>2, <1>3
  <2> QED
    BY <2>1, <2>2, <2>3, <1>2
<1>9. m + 1 \in 1..(n + 1) /\ ~(m + 1 <= m)
  BY <1>1, <1>2
<1>10. \E k \in DOMAIN event_log' : event_log'[k] = e
  BY <1>2, <1>3, <1>9
<1> QED
  BY <1>2, <1>7, <1>8, <1>10

\* A call that begins adds the latest event of its thread.
LEMMA CallKeepsEvents ==
  ASSUME Progress, LogTyped, EventsOK, NEW r \in Role, id[r] = OriginalId[r], RecordCall(r)
  PROVE  EventsOK'
<1> DEFINE t == id[r]
           i == done[r] + 1
           pending == pending_thread_events
<1> PICK e : e = NewEvent(r)
  OBVIOUS
<1>1. /\ Calling(r) /\ done' = [done EXCEPT ![r] = @ + 1] /\ event_log' = event_log
      /\ pending' = [pending EXCEPT ![t] = Append(@, e)]
      /\ global_sequence' = global_sequence + 1
  BY DEF RecordCall, Perform, Advance
<1>2. /\ done \in [Role -> Nat] /\ global_sequence \in Nat
      /\ i \in CallsOf(r) /\ Rip(r) = Function(r, i) /\ t \in Thread
      /\ \A q \in Role : OriginalId[q] = OriginalId[r] => q = r
  <2>1. /\ done \in [Role -> Nat] /\ global_sequence \in Nat
        /\ i \in CallsOf(r) /\ Rip(r) = Function(r, i) /\ t \in Thread
    BY <1>1, RipOfCall DEF Progress, Calling, HasNext, LogTyped
  <2>2. \A q \in Role : OriginalId[q] = OriginalId[r] => q = r
    BY ReplayAssumption
  <2> QED
    BY <2>1, <2>2
<1>3. /\ e \in Event /\ IsEventOf(e, r, i)
      /\ e.global_seq = global_sequence /\ e.thread = t /\ e.thread_seq = Ordinal(r, i)
  BY <1>1, <1>2, NewEventTyped DEF NewEvent, IsEventOf
<1> DEFINE p == pending[t]
           L == Len(p)
<1>4. /\ p \in Seq(Event) /\ L \in Nat /\ DOMAIN p = 1..L
      /\ \A u \in Thread : pending[u] \in Seq(Event) /\ DOMAIN pending[u] \subseteq Nat
      /\ pending \in [Thread -> Seq(Event)]
  BY <1>2, EventsTyped DEF LogTyped
<1>5. /\ pending'[t] = Append(p, e)
      /\ \A u \in Thread : u # t => pending'[u] = pending[u]
      /\ DOMAIN pending'[t] = 1..(L + 1)
      /\ \A k \in 1..L : pending'[t][k] = p[k]
      /\ pending'[t][L + 1] = e
  <2>1. pending'[t] = Append(p, e) /\ \A u \in Thread : u # t => pending'[u] = pending[u]
    BY <1>1, <1>2, <1>4
  <2> HIDE DEF p
  <2>2. DOMAIN Append(p, e) = 1..(L + 1) /\ (\A k \in 1..L : Append(p, e)[k] = p[k]) /\ Append(p, e)[L + 1] = e
    BY <1>4
  <2> QED
    BY <2>1, <2>2
<1> HIDE DEF p, L
\* The events after the call.
<1>6. ASSUME NEW u \in Thread, NEW k \in DOMAIN pending'[u]
      PROVE  \/ u = t /\ k = L + 1 /\ pending'[u][k] = e
             \/ k \in DOMAIN pending[u] /\ pending'[u][k] = pending[u][k] /\ pending[u][k] \in Events
  <2>1. CASE u # t
    BY <2>1, <1>5, EventsTyped
  <2>2. CASE u = t
    <3>1. k \in 1..L \/ k = L + 1
      BY <2>2, <1>4, <1>5
    <3> QED
      BY <2>2, <3>1, <1>4, <1>5, EventsTyped DEF p
  <2> QED
    BY <2>1, <2>2
<1>7. \A d \in Events' : d = e \/ d \in Events
  BY <1>1, <1>6, EventsTyped DEF Events
<1>8. ASSUME NEW d \in Events
      PROVE  /\ d.global_seq \in Nat /\ d.global_seq < global_sequence /\ d.thread_seq \in Nat
             /\ d.thread = t => d.thread_seq < Ordinal(r, i)
             /\ Known(d)'
  <2>1. d.global_seq \in Nat /\ d.global_seq < global_sequence /\ Known(d) /\ d.thread_seq \in Nat
    BY EventsTyped DEF EventsOK
  <2>2. PICK q \in Role : \E j \in CallsOf(q) : j <= done[q] /\ IsEventOf(d, q, j)
    BY <2>1 DEF Known
  <2>3. PICK j \in CallsOf(q) : j <= done[q] /\ IsEventOf(d, q, j)
    BY <2>2
  <2>4. j \in Nat
    BY <2>3, OrdinalUnique
  <2>5. j <= done'[q]
    BY <2>3, <2>4, <1>1, <1>2
  <2>6. Known(d)'
    BY <2>3, <2>5 DEF Known, IsEventOf
  <2>7. ASSUME d.thread = t PROVE d.thread_seq < Ordinal(r, i)
    <3>1. q = r /\ d.thread_seq = Ordinal(q, j)
      BY <2>3, <2>7, <1>2 DEF IsEventOf
    <3>2. j < i /\ i \in Nat
      BY <2>3, <2>4, <3>1, <1>2
    <3> QED
      BY <3>1, <3>2, OrdinalLess
  <2> QED
    BY <2>1, <2>6, <2>7
<1>9. Ordinal(r, i) \in Nat /\ Known(e)'
  <2>0. Ordinal(r, i) \in Nat
    BY <1>2, <1>3 DEF Event
  <2>1. i <= done'[r]
    BY <1>1, <1>2
  <2> QED
    BY <2>0, <2>1, <1>2, <1>3 DEF Known, IsEventOf
<1>10. \A d \in Events' : Known(d)' /\ d.global_seq < global_sequence'
  BY <1>1, <1>2, <1>3, <1>7, <1>8, <1>9
<1>11. ASSUME NEW c \in Events', NEW d \in Events'
       PROVE  SameOrder(c, d)
  <2>1. CASE c \in Events /\ d \in Events
    BY <2>1 DEF EventsOK
  <2>2. CASE c = e /\ d \in Events
    BY <2>2, <1>2, <1>3, <1>8, <1>9 DEF SameOrder
  <2>3. CASE c \in Events /\ d = e
    BY <2>3, <1>2, <1>3, <1>8, <1>9 DEF SameOrder
  <2>4. CASE c = e /\ d = e
    BY <2>4, <1>2, <1>3, <1>9 DEF SameOrder
  <2> QED
    BY <2>1, <2>2, <2>3, <2>4, <1>7
<1>12. LogSorted'
  BY <1>1 DEF EventsOK, LogSorted
<1>13. ASSUME NEW u \in Thread, NEW k \in DOMAIN pending'[u]
       PROVE  /\ pending'[u][k].thread = u
              /\ \A j \in DOMAIN event_log' : event_log'[j].global_seq # pending'[u][k].global_seq
              /\ \A v \in Thread : \A j \in DOMAIN pending'[v] :
                    pending'[v][j].global_seq = pending'[u][k].global_seq => u = v /\ k = j
  <2>1. pending'[u][k].thread = u
    BY <1>3, <1>6 DEF EventsOK
  <2>2. ASSUME NEW j \in DOMAIN event_log'
        PROVE  event_log'[j].global_seq # pending'[u][k].global_seq
    <3>1. event_log'[j] = event_log[j] /\ event_log[j] \in Events
      BY <1>1, EventsTyped
    <3>2. event_log[j].global_seq # global_sequence
      BY <3>1, <1>2, <1>8
    <3> QED
      BY <3>1, <3>2, <1>1, <1>3, <1>6 DEF EventsOK
  <2>3. ASSUME NEW v \in Thread, NEW j \in DOMAIN pending'[v],
               pending'[v][j].global_seq = pending'[u][k].global_seq
        PROVE  u = v /\ k = j
    <3>1. \A d \in Events : d.global_seq # e.global_seq
      BY <1>2, <1>3, <1>8
    <3>2. \/ u = t /\ k = L + 1 /\ pending'[u][k] = e
          \/ k \in DOMAIN pending[u] /\ pending'[u][k] = pending[u][k] /\ pending[u][k] \in Events
      BY <1>6
    <3>3. \/ v = t /\ j = L + 1 /\ pending'[v][j] = e
          \/ j \in DOMAIN pending[v] /\ pending'[v][j] = pending[v][j] /\ pending[v][j] \in Events
      BY <1>6
    <3>4. \A d \in Thread : \A l \in DOMAIN pending[d] : \A c \in Thread : \A m \in DOMAIN pending[c] :
             pending[c][m].global_seq = pending[d][l].global_seq => d = c /\ l = m
      BY DEF EventsOK
    <3> QED
      BY <2>3, <3>1, <3>2, <3>3, <3>4
  <2> QED
    BY <2>1, <2>2, <2>3
<1> QED
  BY <1>10, <1>11, <1>12, <1>13 DEF EventsOK, SameOrder

\* A call that returns moves its thread's last event to the log.
LEMMA ReturnKeepsEvents ==
  ASSUME Progress, LogTyped, EventsOK, NEW r \in Role, id[r] \in Thread, RecordReturn(r)
  PROVE  /\ EventsOK'
         /\ pending_thread_events' =
               [pending_thread_events EXCEPT ![id[r]] = Pop(pending_thread_events[id[r]])]
         /\ \A d \in Events' : d \in Events
<1> DEFINE t == id[r]
           pending == pending_thread_events
           p == pending[t]
           L == Len(p)
<1> PICK e : e = Top(p)
  OBVIOUS
<1>1. /\ done' = done /\ global_sequence' = global_sequence /\ p # <<>>
      /\ pending' = [pending EXCEPT ![t] = Pop(p)]
      /\ AddEvent(e)
  BY DEF RecordReturn, debuggee
<1>2. /\ p \in Seq(Event) /\ L \in Nat /\ DOMAIN p = 1..L /\ pending \in [Thread -> Seq(Event)]
  BY EventsTyped DEF LogTyped
<1>3. /\ L >= 1 /\ e = p[L] /\ L \in DOMAIN p /\ e \in Events /\ e \in Event
  <2>1. L >= 1
    BY <1>1, <1>2, EmptySeq
  <2> QED
    BY <2>1, <1>2, EventsTyped DEF Top
<1>4. /\ pending'[t] = Pop(p)
      /\ \A u \in Thread : u # t => pending'[u] = pending[u]
      /\ DOMAIN pending'[t] = 1..(L - 1)
      /\ \A k \in 1..(L - 1) : pending'[t][k] = p[k]
  <2>1. pending'[t] = Pop(p) /\ \A u \in Thread : u # t => pending'[u] = pending[u]
    BY <1>1, <1>2
  <2>2. Pop(p) \in Seq(Event) /\ Len(Pop(p)) = L - 1 /\ \A k \in 1..(L - 1) : Pop(p)[k] = p[k]
    BY <1>1, <1>2, PopFrame
  <2>3. DOMAIN Pop(p) = 1..(L - 1)
    BY <2>2
  <2> QED
    BY <2>1, <2>2, <2>3
<1>5. ASSUME NEW u \in Thread, NEW k \in DOMAIN pending'[u]
      PROVE  /\ k \in DOMAIN pending[u] /\ pending'[u][k] = pending[u][k] /\ pending[u][k] \in Events
             /\ u = t => k # L
  <2>1. CASE u # t
    BY <2>1, <1>4, EventsTyped
  <2>2. CASE u = t
    <3>1. k \in 1..L /\ k # L /\ k \in 1..(L - 1)
      BY <2>2, <1>2, <1>3, <1>4
    <3> QED
      BY <2>2, <3>1, <1>2, <1>4, EventsTyped
  <2> QED
    BY <2>1, <2>2
<1> HIDE DEF p, L
<1>6. /\ LogSorted'
      /\ \A k \in DOMAIN event_log' :
            event_log'[k] = e \/ \E j \in DOMAIN event_log : event_log'[k] = event_log[j]
  <2>1. LogSorted /\ \A j \in DOMAIN event_log : event_log[j].global_seq # e.global_seq
    BY <1>3 DEF EventsOK, p
  <2> QED
    BY <2>1, <1>1, <1>3, AddEventSorted
<1>7. ASSUME NEW d \in Events'
      PROVE  d \in Events
  <2>1. \/ \E k \in DOMAIN event_log' : d = event_log'[k]
        \/ \E u \in Thread : \E k \in DOMAIN pending'[u] : d = pending'[u][k]
    BY <1>7 DEF Events
  <2> QED
    BY <2>1, <1>3, <1>5, <1>6, EventsTyped
<1>8. \A d \in Events' : Known(d)' /\ d.global_seq < global_sequence'
  BY <1>1, <1>7 DEF EventsOK, Known, IsEventOf
<1>9. \A c, d \in Events' : SameOrder(c, d)
  BY <1>7 DEF EventsOK
<1>10. ASSUME NEW u \in Thread, NEW k \in DOMAIN pending'[u]
       PROVE  /\ pending'[u][k].thread = u
              /\ \A j \in DOMAIN event_log' : event_log'[j].global_seq # pending'[u][k].global_seq
              /\ \A v \in Thread : \A j \in DOMAIN pending'[v] :
                    pending'[v][j].global_seq = pending'[u][k].global_seq => u = v /\ k = j
  <2>1. /\ pending[u][k].thread = u
        /\ \A j \in DOMAIN event_log : event_log[j].global_seq # pending[u][k].global_seq
        /\ \A v \in Thread : \A j \in DOMAIN pending[v] :
              pending[v][j].global_seq = pending[u][k].global_seq => u = v /\ k = j
    BY <1>5 DEF EventsOK
  <2>2. e.global_seq # pending[u][k].global_seq
    BY <2>1, <1>3, <1>5 DEF p
  <2>3. \A j \in DOMAIN event_log' : event_log'[j].global_seq # pending[u][k].global_seq
    BY <2>1, <2>2, <1>6
  <2> QED
    BY <2>1, <2>3, <1>5
<1>11. EventsOK'
  BY <1>6, <1>8, <1>9, <1>10 DEF EventsOK, SameOrder
<1> QED
  BY <1>1, <1>7, <1>11 DEF p

----------------------------------------------------------------------------
(* The holds of a thread are as many as its pending events.                *)

\* The places of a thread among the holders of each return address.
HoldsOf(t) ==
    UNION {{<<a, i>> : i \in {j \in 1..Len(HoldersOf(a)) : HoldersOf(a)[j] = t}} : a \in Tracked}
CountsOK ==
    \A t \in Thread : /\ IsFiniteSet(HoldsOf(t))
                      /\ Cardinality(HoldsOf(t)) = Len(pending_thread_events[t])

\* T is S where the places from k on, in the holders of r, have moved up by one.
MovedTo(S, T, r, k) ==
    /\ \A x \in S : \E a : \E i \in Nat : x = <<a, i>>
    /\ \A y \in T : \E a : \E i \in Nat : y = <<a, i>>
    /\ \A a : \A i \in Nat : a # r => (<<a, i>> \in S <=> <<a, i>> \in T)
    /\ \A i \in Nat : i < k => (<<r, i>> \in S <=> <<r, i>> \in T)
    /\ \A i \in Nat : i >= k => (<<r, i + 1>> \in S <=> <<r, i>> \in T)

LEMMA MovedUp ==
  ASSUME NEW S, NEW T, NEW r, NEW k \in Nat, IsFiniteSet(S), <<r, k>> \notin S,
         MovedTo(S, T, r, k)
  PROVE  IsFiniteSet(T) /\ Cardinality(T) = Cardinality(S)
<1> DEFINE Moves(x) == x[1] = r /\ x[2] > k
           Place(x) == IF Moves(x) THEN <<r, x[2] - 1>> ELSE x
           f == [x \in S |-> Place(x)]
<1> USE DEF MovedTo
\* What has not moved is before the gap or elsewhere; what has is behind it.
<1>1. ASSUME NEW x \in S
      PROVE  /\ Place(x) \in T
             /\ Moves(x) => \E i \in Nat : i >= k /\ x = <<r, i + 1>> /\ Place(x) = <<r, i>>
             /\ ~Moves(x) => /\ Place(x) = x
                             /\ \E a : \E i \in Nat : x = <<a, i>> /\ (a # r \/ i < k)
  <2>1. PICK a : \E i \in Nat : x = <<a, i>>
    OBVIOUS
  <2>2. PICK i \in Nat : x = <<a, i>>
    BY <2>1
  <2>3. x[1] = a /\ x[2] = i
    BY <2>2
  <2>4. CASE a # r
    BY <2>2, <2>3, <2>4
  <2>5. CASE a = r /\ i < k
    BY <2>2, <2>3, <2>5
  <2>6. CASE a = r /\ i > k
    <3>1. /\ Moves(x) /\ Place(x) = <<r, i - 1>>
          /\ i - 1 \in Nat /\ i - 1 >= k /\ (i - 1) + 1 = i
      BY <2>2, <2>3, <2>6
    <3>2. x = <<r, (i - 1) + 1>>
      BY <2>2, <2>6, <3>1
    <3>3. <<r, i - 1>> \in T
      BY <3>1, <3>2
    <3> QED
      BY <3>1, <3>2, <3>3
  <2>7. CASE a = r /\ i = k
    BY <2>2, <2>7
  <2> QED
    BY <2>4, <2>5, <2>6, <2>7
<1>2. ASSUME NEW x \in S, NEW y \in S, Place(x) = Place(y) PROVE x = y
  <2> HIDE DEF Moves, Place
  <2>1. CASE Moves(x) /\ Moves(y)
    <3>1. PICK i \in Nat : i >= k /\ x = <<r, i + 1>> /\ Place(x) = <<r, i>>
      BY <1>1, <2>1
    <3>2. PICK j \in Nat : j >= k /\ y = <<r, j + 1>> /\ Place(y) = <<r, j>>
      BY <1>1, <2>1
    <3>3. i = j
      BY <1>2, <3>1, <3>2
    <3> QED
      BY <3>1, <3>2, <3>3
  <2>2. CASE ~Moves(x) /\ ~Moves(y)
    BY <1>1, <1>2, <2>2
  <2>3. ASSUME NEW v \in S, NEW w \in S, Moves(v), ~Moves(w), Place(v) = Place(w) PROVE FALSE
    <3>1. PICK i \in Nat : i >= k /\ Place(v) = <<r, i>>
      BY <1>1, <2>3
    <3>2. PICK a : \E j \in Nat : w = <<a, j>> /\ (a # r \/ j < k)
      BY <1>1, <2>3
    <3>3. PICK j \in Nat : w = <<a, j>> /\ (a # r \/ j < k)
      BY <3>2
    <3>4. <<r, i>> = <<a, j>>
      BY <1>1, <2>3, <3>1, <3>3
    <3> QED
      BY <3>1, <3>3, <3>4
  <2> QED
    BY <1>2, <2>1, <2>2, <2>3
<1>3. ASSUME NEW y \in T PROVE \E x \in S : Place(x) = y
  <2>1. PICK a : \E i \in Nat : y = <<a, i>>
    OBVIOUS
  <2>2. PICK i \in Nat : y = <<a, i>>
    BY <2>1
  <2>3. CASE a # r \/ i < k
    <3>1. y \in S
      BY <2>2, <2>3
    <3>2. ~Moves(y)
      BY <2>2, <2>3
    <3> QED
      BY <3>1, <3>2
  <2>4. CASE a = r /\ i >= k
    <3>1. <<r, i + 1>> \in S
      BY <2>2, <2>4
    <3>2. /\ Moves(<<r, i + 1>>)
          /\ Place(<<r, i + 1>>) = <<r, i>>
      BY <2>4
    <3> QED
      BY <2>2, <2>4, <3>1, <3>2
  <2> QED
    BY <2>3, <2>4
<1> HIDE DEF Moves, Place, MovedTo
<1>4. f \in Injection(S, T) /\ f \in Surjection(S, T)
  <2>1. f \in [S -> T] /\ \A x \in S : f[x] = Place(x)
    BY <1>1
  <2> QED
    BY <1>2, <1>3, <2>1 DEF Injection, IsInjective, Surjection
<1>5. ExistsBijection(S, T)
  BY <1>4 DEF ExistsBijection, Bijection
<1> QED
  BY <1>5, FS_Bijection
HoldsView(t) ==
    /\ \A a, i : i \in 1..Len(HoldersOf(a)) /\ HoldersOf(a)[i] = t => <<a, i>> \in HoldsOf(t)
    /\ \A x \in HoldsOf(t) : \E a : \E i \in 1..Len(HoldersOf(a)) :
          x = <<a, i>> /\ HoldersOf(a)[i] = t

LEMMA HoldsAre ==
  ASSUME NEW t
  PROVE  HoldsView(t)
<1>1. ASSUME NEW a, NEW i, i \in 1..Len(HoldersOf(a)), HoldersOf(a)[i] = t
      PROVE  <<a, i>> \in HoldsOf(t)
  <2>1. a \in Tracked
    <3>1. Len(<<>>) = 0
      OBVIOUS
    <3> QED
      BY <1>1, <3>1 DEF HoldersOf
  <2> QED
    BY <1>1, <2>1 DEF HoldsOf
<1>2. ASSUME NEW x \in HoldsOf(t)
      PROVE  \E a : \E i \in 1..Len(HoldersOf(a)) : x = <<a, i>> /\ HoldersOf(a)[i] = t
  <2>1. PICK a \in Tracked : x \in {<<a, i>> : i \in {j \in 1..Len(HoldersOf(a)) : HoldersOf(a)[j] = t}}
    BY DEF HoldsOf
  <2>2. PICK i \in 1..Len(HoldersOf(a)) : x = <<a, i>> /\ HoldersOf(a)[i] = t
    BY <2>1
  <2> QED
    BY <2>2
<1> QED
  BY <1>1, <1>2 DEF HoldsView

LEMMA HoldsAreNext ==
  ASSUME NEW t
  PROVE  HoldsView(t)'
<1>1. HoldsView(t)
  BY HoldsAre
<1> QED
  BY <1>1, PTL
\* A thread that takes a hold has one event more to finish.
LEMMA CreateKeepsCounts ==
  ASSUME TablesOK, BytesOK, LogTyped, CountsOK, NEW r \in Address \ EntryPoints, NEW t \in Thread,
         CreateHeldBreakpoints({r}, t, "Return"), NEW e \in Event,
         pending_thread_events' = [pending_thread_events EXCEPT ![t] = Append(@, e)]
  PROVE  CountsOK'
<1> DEFINE pend == pending_thread_events
<1>3. /\ HoldersOf(r)' = Append(HoldersOf(r), t)
      /\ \A a : a # r => HoldersOf(a)' = HoldersOf(a)
  BY CreateShape
<1> PICK n : n = Len(HoldersOf(r))
  OBVIOUS
<1>4. /\ n \in Nat
      /\ Len(HoldersOf(r)') = n + 1
      /\ \A i \in 1..n : HoldersOf(r)'[i] = HoldersOf(r)[i]
      /\ HoldersOf(r)'[n + 1] = t
  <2>1. HoldersOf(r) \in Seq(Thread)
    BY HoldersTyped
  <2> DEFINE s == HoldersOf(r)
  <2>2. /\ Len(Append(s, t)) = Len(s) + 1 /\ Len(s) \in Nat
        /\ \A i \in 1..Len(s) : Append(s, t)[i] = s[i]
        /\ Append(s, t)[Len(s) + 1] = t
    BY <2>1, AppendProperties
  <2> QED
    BY <1>3, <2>2
<1>5. \A i \in 1..(n + 1) : i \in 1..n \/ i = n + 1
  BY <1>4
<1>6. ASSUME NEW u \in Thread, NEW x
      PROVE  x \in HoldsOf(u)' <=> x \in HoldsOf(u) \/ (u = t /\ x = <<r, n + 1>>)
  <2>1. ASSUME x \in HoldsOf(u)' PROVE x \in HoldsOf(u) \/ (u = t /\ x = <<r, n + 1>>)
    <3>1. PICK a : \E i \in 1..Len(HoldersOf(a)') : x = <<a, i>> /\ HoldersOf(a)'[i] = u
      BY <2>1, HoldsAreNext DEF HoldsView
    <3>2. PICK i \in 1..Len(HoldersOf(a)') : x = <<a, i>> /\ HoldersOf(a)'[i] = u
      BY <3>1
    <3>3. CASE a # r
      BY <1>3, <3>2, <3>3, HoldsAre DEF HoldsView
    <3>4. CASE a = r
      <4>1. i \in 1..(n + 1) /\ HoldersOf(r)'[i] = u
        BY <1>4, <3>2, <3>4
      <4>2. CASE i \in 1..n
        BY <1>4, <3>2, <3>4, <4>1, <4>2, HoldsAre DEF HoldsView
      <4>3. CASE i = n + 1
        BY <1>4, <3>2, <3>4, <4>1, <4>3
      <4> QED
        BY <1>5, <4>1, <4>2, <4>3
    <3> QED
      BY <3>3, <3>4
  <2>2. ASSUME x \in HoldsOf(u) PROVE x \in HoldsOf(u)'
    <3>1. PICK a : \E i \in 1..Len(HoldersOf(a)) : x = <<a, i>> /\ HoldersOf(a)[i] = u
      BY <2>2, HoldsAre DEF HoldsView
    <3>2. PICK i \in 1..Len(HoldersOf(a)) : x = <<a, i>> /\ HoldersOf(a)[i] = u
      BY <3>1
    <3>3. i \in 1..Len(HoldersOf(a)') /\ HoldersOf(a)'[i] = u
      <4>1. CASE a # r
        BY <4>1, <1>3, <3>2
      <4>2. CASE a = r
        <5>1. i \in 1..n /\ i \in 1..(n + 1)
          BY <4>2, <1>4, <3>2
        <5> QED
          BY <4>2, <5>1, <1>4, <3>2
      <4> QED
        BY <4>1, <4>2
    <3> QED
      BY <3>2, <3>3, HoldsAreNext DEF HoldsView
  <2>3. ASSUME u = t, x = <<r, n + 1>> PROVE x \in HoldsOf(u)'
    <3>1. n + 1 \in 1..Len(HoldersOf(r)') /\ HoldersOf(r)'[n + 1] = u
      BY <1>4, <2>3
    <3> QED
      BY <2>3, <3>1, HoldsAreNext DEF HoldsView
  <2> QED
    BY <2>1, <2>2, <2>3
<1>7. <<r, n + 1>> \notin HoldsOf(t)
  <2>1. ASSUME <<r, n + 1>> \in HoldsOf(t) PROVE FALSE
    <3>1. PICK a : \E i \in 1..Len(HoldersOf(a)) : <<r, n + 1>> = <<a, i>>
      BY <2>1, HoldsAre DEF HoldsView
    <3> QED
      BY <1>4, <3>1
  <2> QED
    BY <2>1
<1>8. /\ HoldsOf(t)' = HoldsOf(t) \cup {<<r, n + 1>>}
      /\ \A u \in Thread : u # t => HoldsOf(u)' = HoldsOf(u)
  BY <1>6
<1>9. /\ \A u \in Thread : u # t => pend'[u] = pend[u]
      /\ Len(pend'[t]) = Len(pend[t]) + 1
  <2>1. pend \in [Thread -> Seq(Event)] /\ pend[t] \in Seq(Event)
    BY DEF LogTyped
  <2>2. Len(Append(pend[t], e)) = Len(pend[t]) + 1
    BY <2>1, AppendProperties
  <2> QED
    BY <2>1, <2>2
<1>10. CountsOK'
  <2>1. /\ IsFiniteSet(HoldsOf(t) \cup {<<r, n + 1>>})
        /\ Cardinality(HoldsOf(t) \cup {<<r, n + 1>>}) = Cardinality(HoldsOf(t)) + 1
    BY <1>7, FS_AddElement DEF CountsOK
  <2> QED
    BY <1>8, <1>9, <2>1 DEF CountsOK
<1> QED
  BY <1>10

\* A thread that gives up a hold has finished an event.
LEMMA RemoveKeepsCounts ==
  ASSUME TablesOK, BytesOK, LogTyped, CountsOK, NEW r \in Address \ EntryPoints, r \in Tracked,
         NEW t \in Thread, t \in Holders(r), RemoveBreakpoints({r}, t), pending_thread_events[t] # <<>>,
         pending_thread_events' = [pending_thread_events EXCEPT ![t] = Pop(@)]
  PROVE  CountsOK'
<1> DEFINE pend == pending_thread_events
<1>2. /\ HoldersOf(r)' = EraseFirst(HoldersOf(r), t)
      /\ \A a : a # r => HoldersOf(a)' = HoldersOf(a)
  BY RemoveShape
<1> PICK N : N = Len(HoldersOf(r))
  OBVIOUS
<1> PICK old : old = HoldersOf(r)
  OBVIOUS
<1>3. /\ N \in Nat /\ Len(HoldersOf(r)') = N - 1
      /\ \E k \in 1..N : /\ HoldersOf(r)[k] = t
                         /\ \A i \in 1..(k - 1) : HoldersOf(r)'[i] = HoldersOf(r)[i]
                         /\ \A i \in k..(N - 1) : HoldersOf(r)'[i] = HoldersOf(r)[i + 1]
  <2>1. old \in Seq(Thread) /\ N \in Nat /\ N = Len(old)
    BY HoldersTyped
  <2>2. PICK found \in 1..Len(old) : old[found] = t
    BY DEF HoldersOf, Holders
  <2>3. \E k \in 1..Len(old) : Erased(old, EraseFirst(old, t), t, k)
    BY <2>1, <2>2, EraseFirstElements
  <2>4. HoldersOf(r)' = EraseFirst(old, t)
    BY <1>2
  <2> QED
    BY <2>1, <2>3, <2>4 DEF Erased
<1>4. PICK k \in 1..N : /\ HoldersOf(r)[k] = t
                        /\ \A i \in 1..(k - 1) : HoldersOf(r)'[i] = HoldersOf(r)[i]
                        /\ \A i \in k..(N - 1) : HoldersOf(r)'[i] = HoldersOf(r)[i + 1]
  BY <1>3
\* Where a thread holds a breakpoint, before and after, place by place.
<1>5. ASSUME NEW u, NEW a, NEW i \in Nat
      PROVE  /\ <<a, i>> \in HoldsOf(u) <=> i \in 1..Len(HoldersOf(a)) /\ HoldersOf(a)[i] = u
             /\ <<a, i>> \in HoldsOf(u)' <=> i \in 1..Len(HoldersOf(a)') /\ HoldersOf(a)'[i] = u
  <2>1. <<a, i>> \in HoldsOf(u) => i \in 1..Len(HoldersOf(a)) /\ HoldersOf(a)[i] = u
    BY HoldsAre DEF HoldsView
  <2>2. <<a, i>> \in HoldsOf(u)' => i \in 1..Len(HoldersOf(a)') /\ HoldersOf(a)'[i] = u
    BY HoldsAreNext DEF HoldsView
  <2>3. i \in 1..Len(HoldersOf(a)) /\ HoldersOf(a)[i] = u => <<a, i>> \in HoldsOf(u)
    BY HoldsAre DEF HoldsView
  <2>4. i \in 1..Len(HoldersOf(a)') /\ HoldersOf(a)'[i] = u => <<a, i>> \in HoldsOf(u)'
    BY HoldsAreNext DEF HoldsView
  <2> QED
    BY <2>1, <2>2, <2>3, <2>4
<1>6. ASSUME NEW u \in Thread
      PROVE  /\ IsFiniteSet(HoldsOf(u)')
             /\ Cardinality(HoldsOf(u)') = Cardinality(HoldsOf(u) \ {<<r, k>>})
  <2> PICK S : S = HoldsOf(u) \ {<<r, k>>}
    OBVIOUS
  <2> PICK T : T = HoldsOf(u)'
    OBVIOUS
  <2>1. IsFiniteSet(S)
    BY FS_RemoveElement DEF CountsOK
  <2>2. /\ \A x \in S : \E a : \E i \in Nat : x = <<a, i>>
        /\ \A y \in T : \E a : \E i \in Nat : y = <<a, i>>
    BY HoldsAre, HoldsAreNext DEF HoldsView
  <2>3. \A a : \A i \in Nat : a # r => (<<a, i>> \in S <=> <<a, i>> \in T)
    BY <1>2, <1>5
  <2>4. \A i \in Nat : i < k => (<<r, i>> \in S <=> <<r, i>> \in T)
    <3> SUFFICES ASSUME NEW i \in Nat, i < k PROVE <<r, i>> \in S <=> <<r, i>> \in T
      OBVIOUS
    <3>1. /\ i \in 1..N <=> i \in 1..(N - 1)
          /\ i \in 1..(N - 1) => HoldersOf(r)'[i] = HoldersOf(r)[i]
      BY <1>3, <1>4
    <3>2. <<r, i>> \in S <=> i \in 1..N /\ HoldersOf(r)[i] = u
      BY <1>5
    <3>3. <<r, i>> \in T <=> i \in 1..(N - 1) /\ HoldersOf(r)'[i] = u
      <4>1. Len(HoldersOf(r)') = N - 1
        BY <1>3
      <4>2. <<r, i>> \in HoldsOf(u)' <=> i \in 1..Len(HoldersOf(r)') /\ HoldersOf(r)'[i] = u
        BY <1>5
      <4> QED
        BY <4>1, <4>2
    <3> QED
      BY <3>1, <3>2, <3>3
  <2>5. \A i \in Nat : i >= k => (<<r, i + 1>> \in S <=> <<r, i>> \in T)
    <3> SUFFICES ASSUME NEW i \in Nat, i >= k PROVE <<r, i + 1>> \in S <=> <<r, i>> \in T
      OBVIOUS
    <3>1. /\ i + 1 \in 1..N <=> i \in 1..(N - 1)
          /\ i \in 1..(N - 1) => HoldersOf(r)'[i] = HoldersOf(r)[i + 1]
          /\ i + 1 \in Nat /\ i + 1 # k
      BY <1>3, <1>4
    <3>2. <<r, i + 1>> \in S <=> i + 1 \in 1..N /\ HoldersOf(r)[i + 1] = u
      <4>1. <<r, i + 1>> \in S <=> <<r, i + 1>> \in HoldsOf(u)
        BY <3>1
      <4>2. <<r, i + 1>> \in HoldsOf(u) <=> i + 1 \in 1..Len(HoldersOf(r)) /\ HoldersOf(r)[i + 1] = u
        BY <1>5, <3>1
      <4> QED
        BY <4>1, <4>2
    <3>3. <<r, i>> \in T <=> i \in 1..(N - 1) /\ HoldersOf(r)'[i] = u
      <4>1. Len(HoldersOf(r)') = N - 1
        BY <1>3
      <4>2. <<r, i>> \in HoldsOf(u)' <=> i \in 1..Len(HoldersOf(r)') /\ HoldersOf(r)'[i] = u
        BY <1>5
      <4> QED
        BY <4>1, <4>2
    <3> QED
      BY <3>1, <3>2, <3>3
  <2>6. k \in Nat /\ <<r, k>> \notin S
    BY <1>4
  <2>7. IsFiniteSet(T) /\ Cardinality(T) = Cardinality(S)
    <3>1. MovedTo(S, T, r, k)
      BY <2>2, <2>3, <2>4, <2>5 DEF MovedTo
    <3> QED
      BY <2>1, <2>6, <3>1, MovedUp
  <2> QED
    BY <2>7
<1>7. /\ <<r, k>> \in HoldsOf(t)
      /\ \A u \in Thread : u # t => <<r, k>> \notin HoldsOf(u)
  BY <1>3, <1>4, <1>5
<1>8. ASSUME NEW u \in Thread
      PROVE  Cardinality(HoldsOf(u)') = IF u = t THEN Cardinality(HoldsOf(u)) - 1
                                                 ELSE Cardinality(HoldsOf(u))
  <2>1. IsFiniteSet(HoldsOf(u))
    BY DEF CountsOK
  <2>2. <<r, k>> \in HoldsOf(u) =>
           Cardinality(HoldsOf(u) \ {<<r, k>>}) = Cardinality(HoldsOf(u)) - 1
    BY <2>1, FS_RemoveElement
  <2>3. <<r, k>> \notin HoldsOf(u) => HoldsOf(u) \ {<<r, k>>} = HoldsOf(u)
    OBVIOUS
  <2>4. <<r, k>> \in HoldsOf(u) <=> u = t
    BY <1>7
  <2> QED
    BY <1>6, <2>2, <2>3, <2>4
<1>9. /\ \A u \in Thread : u # t => pend'[u] = pend[u]
      /\ Len(pend'[t]) = Len(pend[t]) - 1
  <2>1. pend \in [Thread -> Seq(Event)] /\ pend[t] \in Seq(Event) /\ pend[t] # <<>>
    BY DEF LogTyped
  <2>2. Len(Pop(pend[t])) = Len(pend[t]) - 1
    BY <2>1, PopFrame
  <2> QED
    BY <2>1, <2>2
<1>10. CountsOK'
  <2>1. ASSUME NEW u \in Thread PROVE Cardinality(HoldsOf(u)') = Len(pend'[u])
    <3>1. Cardinality(HoldsOf(u)) = Len(pend[u])
      BY DEF CountsOK
    <3> QED
      BY <1>8, <1>9, <3>1
  <2> QED
    BY <1>6, <2>1 DEF CountsOK
<1> QED
  BY <1>10

----------------------------------------------------------------------------
(* The calls a thread is in while it is recorded.                          *)

Held(t, a) == \E i \in 1..Len(HoldersOf(a)) : HoldersOf(a)[i] = t
Twice(t, a) == \E i, j \in 1..Len(HoldersOf(a)) : i # j /\ HoldersOf(a)[i] = t /\ HoldersOf(a)[j] = t

\* The first event that r's thread still has to finish began no later than
\* call o.
Oldest(r, o) ==
    LET pending == pending_thread_events[OriginalId[r]]
    IN  pending # <<>> /\ pending[1].thread_seq <= Ordinal(r, o)
Kept(r, o) == Held(OriginalId[r], Site(r, o)) /\ Oldest(r, o)

\* The calls whose return the debugger has yet to see: the innermost one is
\* perhaps not among them when a return is next.
AtReturn(r) == done[r] < Len(Program[r]) /\ ~IsCall(r, done[r] + 1)
Open(r) == IF AtReturn(r) THEN Len(frames[r]) - 1 ELSE Len(frames[r])

\* The calls r is in hold their return addresses; one that contains a call with
\* the same return address keeps its hold for ever, as the byte goes back when
\* the inner one returns.
HoldsOfRoleOK(r) ==
    /\ \A k \in 1..Open(r) : Kept(r, frames[r][k])
    /\ \A k, l \in 1..Len(frames[r]) : k < l /\ Site(r, frames[r][k]) = Site(r, frames[r][l]) =>
          /\ Kept(r, frames[r][k])
          /\ byte[Site(r, frames[r][k])] = Code \/ Twice(OriginalId[r], Site(r, frames[r][k]))
    /\ \A o, i \in CallsOf(r) : i <= done[r] /\ Recursive(r, o, i) =>
          \/ Kept(r, o) /\ byte[Site(r, o)] = Code
          \/ \E k, l \in 1..Len(frames[r]) : k < l /\ frames[r][k] = o /\ frames[r][l] = i
HoldsOK == \A r \in Role : HoldsOfRoleOK(r)

RecordingOK ==
    /\ FramesOK /\ FramesNested /\ BytesOK /\ EventsOK /\ HoldsOK /\ CountsOK
    /\ \A r \in Role : id[r] \in {OriginalId[r], NoId}
    /\ pending_replay_end_events = [t \in Thread |-> <<>>]
    /\ \A a \in Address \ EntryPoints : snapshots[1].byte[a] = Code

LEMMA HeldAfterCreate ==
  ASSUME TablesOK, BytesOK, NEW s \in Address \ EntryPoints, NEW t \in Thread,
         CreateHeldBreakpoints({s}, t, "Return")
  PROVE  /\ Held(t, s)'
         /\ Held(t, s) => Twice(t, s)'
         /\ \A u, a : /\ Held(u, a) => Held(u, a)'
                      /\ Twice(u, a) => Twice(u, a)'
                      /\ Held(u, a) /\ byte[a] = Code => byte'[a] = Code
<1> PICK h : h = HoldersOf(s)
  OBVIOUS
<1> PICK n : n = Len(h)
  OBVIOUS
<1>1. h \in Seq(Thread) /\ n \in Nat
  BY HoldersTyped
<1>2. /\ HoldersOf(s)' = Append(h, t)
      /\ \A a : a # s => HoldersOf(a)' = HoldersOf(a)
      /\ byte' = IF s \in Tracked THEN byte ELSE [byte EXCEPT ![s] = int3]
  BY CreateShape
<1>3. /\ Len(Append(h, t)) = n + 1
      /\ \A i \in 1..n : Append(h, t)[i] = h[i]
      /\ Append(h, t)[n + 1] = t
  BY <1>1, AppendProperties
<1>4. /\ Len(HoldersOf(s)') = n + 1
      /\ \A i \in 1..n : i \in 1..(n + 1) /\ i # n + 1 /\ HoldersOf(s)'[i] = HoldersOf(s)[i]
      /\ n + 1 \in 1..(n + 1) /\ HoldersOf(s)'[n + 1] = t
  BY <1>1, <1>2, <1>3
<1>5. Held(t, s)'
  BY <1>4 DEF Held
<1>6. ASSUME Held(t, s) PROVE Twice(t, s)'
  <2>1. PICK i \in 1..n : HoldersOf(s)[i] = t
    BY <1>6 DEF Held
  <2> QED
    BY <2>1, <1>4 DEF Twice
<1>7. ASSUME NEW u, NEW a, Held(u, a) PROVE Held(u, a)'
  <2>1. CASE a # s
    BY <2>1, <1>2, <1>7 DEF Held
  <2>2. CASE a = s
    BY <2>2, <1>4, <1>7 DEF Held
  <2> QED
    BY <2>1, <2>2
<1>8. ASSUME NEW u, NEW a, Twice(u, a) PROVE Twice(u, a)'
  <2>1. CASE a # s
    BY <2>1, <1>2, <1>8 DEF Twice
  <2>2. CASE a = s
    <3>1. PICK i \in 1..n, j \in 1..n : i # j /\ HoldersOf(s)[i] = u /\ HoldersOf(s)[j] = u
      BY <2>2, <1>8 DEF Twice
    <3> QED
      BY <2>2, <3>1, <1>4 DEF Twice
  <2> QED
    BY <2>1, <2>2
<1>9. ASSUME NEW u, NEW a, Held(u, a), byte[a] = Code PROVE byte'[a] = Code
  <2>1. CASE a = s
    <3>1. s \in Tracked
      <4>1. s \notin Tracked => Len(HoldersOf(s)) = 0
        BY DEF HoldersOf
      <4> QED
        BY <2>1, <4>1, <1>9 DEF Held
    <3> QED
      BY <3>1, <1>2, <1>9
  <2>2. CASE a # s
    BY <2>2, <1>2, <1>9 DEF TablesOK
  <2> QED
    BY <2>1, <2>2
<1> QED
  BY <1>5, <1>6, <1>7, <1>8, <1>9

LEMMA HeldAfterRemove ==
  ASSUME TablesOK, BytesOK, NEW s \in Address \ EntryPoints, s \in Tracked,
         NEW t \in Thread, t \in Holders(s), RemoveBreakpoints({s}, t)
  PROVE  /\ byte'[s] = Code
         /\ Twice(t, s) => Held(t, s)'
         /\ \A u, a : a # s \/ u # t => /\ Held(u, a) => Held(u, a)'
                                        /\ Twice(u, a) => Twice(u, a)'
         /\ \A a : byte[a] = Code => byte'[a] = Code
<1> PICK h : h = HoldersOf(s)
  OBVIOUS
<1> PICK n : n = Len(h)
  OBVIOUS
<1>1. h \in Seq(Thread) /\ n \in Nat
  BY HoldersTyped
<1>2. /\ HoldersOf(s)' = EraseFirst(h, t)
      /\ \A a : a # s => HoldersOf(a)' = HoldersOf(a)
      /\ byte' = [byte EXCEPT ![s] = Code]
  BY RemoveShape
<1>3. PICK k \in 1..n : Erased(h, EraseFirst(h, t), t, k)
  <2>1. PICK found \in 1..n : h[found] = t
    BY DEF HoldersOf, Holders
  <2> QED
    BY <1>1, <2>1, EraseFirstElements
<1>4. /\ Len(HoldersOf(s)') = n - 1 /\ h[k] = t
      /\ \A i \in 1..n : i < k => i \in 1..(n - 1) /\ HoldersOf(s)'[i] = h[i]
      /\ \A i \in 1..n : i > k => i - 1 \in 1..(n - 1) /\ HoldersOf(s)'[i - 1] = h[i]
  <2>1. /\ Len(HoldersOf(s)') = n - 1 /\ h[k] = t
        /\ \A i \in 1..(k - 1) : HoldersOf(s)'[i] = h[i]
        /\ \A i \in k..(n - 1) : HoldersOf(s)'[i] = h[i + 1]
    BY <1>2, <1>3 DEF Erased
  <2>2. ASSUME NEW i \in 1..n, i < k
        PROVE  i \in 1..(n - 1) /\ HoldersOf(s)'[i] = h[i]
    BY <2>1, <2>2, <1>1
  <2>3. ASSUME NEW i \in 1..n, i > k
        PROVE  i - 1 \in 1..(n - 1) /\ HoldersOf(s)'[i - 1] = h[i]
    <3>1. i - 1 \in k..(n - 1) /\ i - 1 \in 1..(n - 1) /\ (i - 1) + 1 = i
      BY <2>3, <1>1
    <3> QED
      BY <2>1, <3>1
  <2> QED
    BY <2>1, <2>2, <2>3
\* Where an element but the erased one goes.
<1> DEFINE To(i) == IF i < k THEN i ELSE i - 1
<1>5. ASSUME NEW i \in 1..n, i # k
      PROVE  To(i) \in 1..Len(HoldersOf(s)') /\ HoldersOf(s)'[To(i)] = h[i]
  <2>1. CASE i < k
    BY <2>1, <1>4
  <2>2. CASE i > k
    <3>1. To(i) = i - 1
      BY <2>2
    <3> QED
      BY <2>2, <3>1, <1>4
  <2> QED
    BY <2>1, <2>2, <1>5
<1>6. ASSUME NEW i \in 1..n, NEW j \in 1..n, i # j, i # k, j # k
      PROVE  To(i) # To(j)
  BY <1>6
<1> HIDE DEF To
<1>7. ASSUME Twice(t, s) PROVE Held(t, s)'
  <2>1. PICK i \in 1..n, j \in 1..n : i # j /\ h[i] = t /\ h[j] = t
    BY <1>7 DEF Twice
  <2>2. i # k \/ j # k
    BY <2>1
  <2> QED
    BY <2>1, <2>2, <1>5 DEF Held
<1>8. ASSUME NEW u, NEW a, a # s \/ u # t, Held(u, a) PROVE Held(u, a)'
  <2>1. CASE a # s
    BY <2>1, <1>2, <1>8 DEF Held
  <2>2. CASE a = s
    <3>1. PICK i \in 1..n : h[i] = u
      BY <2>2, <1>8 DEF Held
    <3>2. i # k
      BY <2>2, <3>1, <1>4, <1>8
    <3> QED
      BY <2>2, <3>1, <3>2, <1>5 DEF Held
  <2> QED
    BY <2>1, <2>2
<1>9. ASSUME NEW u, NEW a, a # s \/ u # t, Twice(u, a) PROVE Twice(u, a)'
  <2>1. CASE a # s
    BY <2>1, <1>2, <1>9 DEF Twice
  <2>2. CASE a = s
    <3>1. PICK i \in 1..n, j \in 1..n : i # j /\ h[i] = u /\ h[j] = u
      BY <2>2, <1>9 DEF Twice
    <3>2. i # k /\ j # k
      BY <2>2, <3>1, <1>4, <1>9
    <3>3. /\ To(i) \in 1..Len(HoldersOf(s)') /\ HoldersOf(s)'[To(i)] = u
          /\ To(j) \in 1..Len(HoldersOf(s)') /\ HoldersOf(s)'[To(j)] = u
          /\ To(i) # To(j)
      BY <3>1, <3>2, <1>5, <1>6
    <3> QED
      BY <2>2, <3>3 DEF Twice
  <2> QED
    BY <2>1, <2>2
<1>10. byte'[s] = Code /\ \A a : byte[a] = Code => byte'[a] = Code
  BY <1>2 DEF TablesOK
<1> QED
  BY <1>7, <1>8, <1>9, <1>10

\* A thread that holds something has an event to finish.
HeldIsPending == \A t \in Thread : \A a : Held(t, a) => pending_thread_events[t] # <<>>

LEMMA HeldPending == CountsOK => HeldIsPending
<1> SUFFICES ASSUME CountsOK, NEW t \in Thread, NEW a, Held(t, a)
             PROVE  pending_thread_events[t] # <<>>
  BY DEF HeldIsPending
<1>1. PICK i \in 1..Len(HoldersOf(a)) : <<a, i>> \in HoldsOf(t)
  BY HoldsAre DEF Held, HoldsView
<1>2. Cardinality(HoldsOf(t)) # 0
  BY <1>1, FS_EmptySet DEF CountsOK
<1> QED
  BY <1>2, EmptySeq DEF CountsOK

LEMMA HeldPendingNext ==
  CountsOK' => HeldIsPending'
<1>1. CountsOK => HeldIsPending
  BY HeldPending
<1> QED
  BY <1>1, PTL

\* The events of a role's thread are those of calls it has begun.
LEMMA EventsAreBegun ==
  ASSUME LogTyped, EventsOK, NEW r \in Role, done[r] \in Nat, NEW d \in Events, d.thread = OriginalId[r]
  PROVE  /\ \E j \in CallsOf(r) : j <= done[r] /\ d.thread_seq = Ordinal(r, j)
         /\ d.thread_seq < Ordinal(r, done[r] + 1) /\ d.thread_seq \in Nat
<1>1. PICK q \in Role : \E j \in CallsOf(q) : j <= done[q] /\ IsEventOf(d, q, j)
  BY DEF EventsOK, Known
<1>2. q = r
  BY <1>1, ReplayAssumption DEF IsEventOf
<1>3. PICK j \in CallsOf(r) : j <= done[r] /\ d.thread_seq = Ordinal(r, j)
  BY <1>1, <1>2 DEF IsEventOf
<1>4. j \in Nat /\ j < done[r] + 1
  BY <1>3, OrdinalUnique
<1> QED
  BY <1>3, <1>4, OrdinalLess

LEMMA NestedAfterCall ==
  ASSUME Progress, FramesNested, NEW r \in Role, Calling(r), Advance(r),
         frames' = [frames EXCEPT ![r] = Append(@, done[r] + 1)]
  PROVE  FramesNested'
<1>1. /\ done \in [Role -> Nat] /\ frames \in [Role -> Seq(Nat)]
      /\ done' = [done EXCEPT ![r] = @ + 1]
      /\ done[r] \in Nat /\ done[r] < Len(Program[r]) /\ Len(Program[r]) \in Nat
      /\ IsCall(r, done[r] + 1)
  BY ScriptTyped DEF Progress, Advance, Calling, HasNext
<1>2. done'[r] \in 0..Len(Program[r]) /\ done'[r] = done[r] + 1
  BY <1>1
<1>3. frames'[r] = Append(Nesting(r)[done[r]], done[r] + 1)
  BY <1>1 DEF FramesNested
<1>4. frames'[r] = Nesting(r)[done'[r]]
  BY <1>1, <1>2, <1>3, NestingStep
<1>5. \A q \in Role : q # r => done'[q] = done[q] /\ frames'[q] = frames[q]
  BY <1>1
<1> QED
  BY <1>2, <1>4, <1>5 DEF FramesNested

LEMMA NestedAfterReturn ==
  ASSUME Progress, FramesNested, NEW r \in Role, Returning(r), Advance(r),
         frames' = [frames EXCEPT ![r] = Pop(@)]
  PROVE  FramesNested'
<1>1. /\ done \in [Role -> Nat] /\ frames \in [Role -> Seq(Nat)]
      /\ done' = [done EXCEPT ![r] = @ + 1]
      /\ done[r] \in Nat /\ done[r] < Len(Program[r]) /\ Len(Program[r]) \in Nat
      /\ ~IsCall(r, done[r] + 1)
  BY ScriptTyped DEF Progress, Advance, Returning, HasNext
<1>2. done'[r] \in 0..Len(Program[r]) /\ done'[r] = done[r] + 1
  BY <1>1
<1>3. frames'[r] = Pop(Nesting(r)[done[r]])
  BY <1>1 DEF FramesNested
<1>4. frames'[r] = Nesting(r)[done'[r]]
  BY <1>1, <1>2, <1>3, NestingStep
<1>5. \A q \in Role : q # r => done'[q] = done[q] /\ frames'[q] = frames[q]
  BY <1>1
<1> QED
  BY <1>2, <1>4, <1>5 DEF FramesNested

----------------------------------------------------------------------------
(* Recording keeps what it says of the calls.                              *)

\* A role that does nothing, and loses nothing, is as well off as before.
LEMMA RoleKeepsHolds ==
  ASSUME NEW q \in Role, HoldsOfRoleOK(q), done'[q] = done[q], frames'[q] = frames[q],
         \A o : Kept(q, o) => Kept(q, o)',
         \A a : Twice(OriginalId[q], a) => Twice(OriginalId[q], a)',
         \A o : Kept(q, o) /\ byte[Site(q, o)] = Code => byte'[Site(q, o)] = Code
  PROVE  HoldsOfRoleOK(q)'
<1> PICK f : f = frames[q]
  OBVIOUS
<1> PICK n : n = Open(q)
  OBVIOUS
<1>1. Open(q)' = n
  BY DEF Open, AtReturn
<1>2. \A k \in 1..n : Kept(q, f[k])'
  BY DEF HoldsOfRoleOK
<1>3. ASSUME NEW k \in 1..Len(f), NEW l \in 1..Len(f), k < l, Site(q, f[k]) = Site(q, f[l])
      PROVE  /\ Kept(q, f[k])'
             /\ byte'[Site(q, f[k])] = Code \/ Twice(OriginalId[q], Site(q, f[k]))'
  <2>1. /\ Kept(q, f[k])
        /\ byte[Site(q, f[k])] = Code \/ Twice(OriginalId[q], Site(q, f[k]))
    BY <1>3 DEF HoldsOfRoleOK
  <2> QED
    BY <2>1
<1>4. ASSUME NEW o \in CallsOf(q), NEW i \in CallsOf(q), i <= done[q], Recursive(q, o, i)
      PROVE  \/ Kept(q, o)' /\ byte'[Site(q, o)] = Code
             \/ \E k, l \in 1..Len(f) : k < l /\ f[k] = o /\ f[l] = i
  BY <1>4 DEF HoldsOfRoleOK
<1> QED
  BY <1>1, <1>2, <1>3, <1>4 DEF HoldsOfRoleOK

\* One role's part of HoldsOK after a call of its own.
LEMMA CallerKeepsHolds ==
  ASSUME Progress, FramesOK, FramesNested, NEW r \in Role, HoldsOfRoleOK(r), Calling(r), Advance(r),
         NEW i, i = done[r] + 1, frames' = [frames EXCEPT ![r] = Append(@, i)],
         \A o : Kept(r, o) => Kept(r, o)',
         Kept(r, i)',
         \A a : Twice(OriginalId[r], a) => Twice(OriginalId[r], a)',
         Held(OriginalId[r], Site(r, i)) => Twice(OriginalId[r], Site(r, i))',
         \A o : Kept(r, o) /\ byte[Site(r, o)] = Code => byte'[Site(r, o)] = Code
  PROVE  HoldsOfRoleOK(r)'
<1> PICK f : f = frames[r]
  OBVIOUS
<1> PICK n : n = Len(f)
  OBVIOUS
<1> PICK g : g = frames'[r]
  OBVIOUS
<1>1. /\ done \in [Role -> Nat] /\ frames \in [Role -> Seq(Nat)] /\ f \in Seq(Nat) /\ n \in Nat
      /\ i \in Nat /\ i \in CallsOf(r) /\ done'[r] = i /\ g = Append(f, i) /\ done[r] = i - 1
  <2>1. /\ done \in [Role -> Nat] /\ frames \in [Role -> Seq(Nat)] /\ f \in Seq(Nat)
        /\ done' = [done EXCEPT ![r] = @ + 1] /\ g = Append(f, i)
    BY DEF Progress, Advance
  <2>2. n \in Nat
    BY <2>1
  <2>3. i \in CallsOf(r)
    BY <2>1, RipOfCall
  <2> QED
    BY <2>1, <2>2, <2>3
<1>2. Len(g) = n + 1 /\ (\A k \in 1..n : g[k] = f[k]) /\ g[n + 1] = i
  BY <1>1, PushFrame
<1>3. \A k \in 1..(n + 1) : k \in 1..n \/ k = n + 1
  BY <1>1
<1>4. \A k \in 1..n : Kept(r, f[k])
  <2>1. Open(r) = n
    BY DEF Open, AtReturn, Calling
  <2> QED
    BY <2>1 DEF HoldsOfRoleOK
<1>5. \A k \in 1..(n + 1) : Kept(r, g[k])'
  <2> SUFFICES ASSUME NEW k \in 1..(n + 1) PROVE Kept(r, g[k])'
    OBVIOUS
  <2>1. CASE k \in 1..n
    BY <2>1, <1>2, <1>4
  <2>2. CASE k = n + 1
    BY <2>2, <1>2
  <2> QED
    BY <2>1, <2>2, <1>3
<1> PICK m : m = Open(r)'
  OBVIOUS
<1>6. \A k \in 1..m : Kept(r, g[k])'
  <2>1. m = n + 1 \/ m = n
    BY <1>1, <1>2 DEF Open
  <2>2. \A k \in 1..m : k \in 1..(n + 1)
    BY <2>1, <1>1
  <2> QED
    BY <2>2, <1>5
<1>7. ASSUME NEW k \in 1..(n + 1), NEW l \in 1..(n + 1), k < l, Site(r, g[k]) = Site(r, g[l])
      PROVE  /\ Kept(r, g[k])'
             /\ byte'[Site(r, g[k])] = Code \/ Twice(OriginalId[r], Site(r, g[k]))'
  <2>1. k \in 1..n
    BY <1>7, <1>1
  <2>2. g[k] = f[k] /\ Kept(r, f[k])
    BY <2>1, <1>2, <1>4
  <2>3. CASE l \in 1..n
    <3>1. Site(r, f[k]) = Site(r, f[l])
      BY <2>1, <2>3, <1>2, <1>7
    <3>2. byte[Site(r, f[k])] = Code \/ Twice(OriginalId[r], Site(r, f[k]))
      BY <2>1, <2>3, <3>1, <1>7 DEF HoldsOfRoleOK
    <3> QED
      BY <2>2, <3>2
  <2>4. CASE l = n + 1
    <3>1. Site(r, f[k]) = Site(r, i)
      BY <2>2, <2>4, <1>2, <1>7
    <3>2. Held(OriginalId[r], Site(r, i))
      BY <2>2, <3>1 DEF Kept
    <3>3. Twice(OriginalId[r], Site(r, f[k]))'
      BY <3>1, <3>2
    <3> QED
      BY <2>2, <3>3
  <2> QED
    BY <2>3, <2>4, <1>3
<1>8. ASSUME NEW o \in CallsOf(r), NEW j \in CallsOf(r), j <= i, Recursive(r, o, j)
      PROVE  \/ Kept(r, o)' /\ byte'[Site(r, o)] = Code
             \/ \E k, l \in 1..(n + 1) : k < l /\ g[k] = o /\ g[l] = j
  <2>1. CASE j <= done[r]
    <3>1. \/ Kept(r, o) /\ byte[Site(r, o)] = Code
          \/ \E k, l \in 1..n : k < l /\ f[k] = o /\ f[l] = j
      BY <2>1, <1>8 DEF HoldsOfRoleOK
    <3>2. ASSUME NEW k \in 1..n, NEW l \in 1..n, k < l, f[k] = o, f[l] = j
          PROVE  \E a, b \in 1..(n + 1) : a < b /\ g[a] = o /\ g[b] = j
      <4>1. k \in 1..(n + 1) /\ l \in 1..(n + 1) /\ g[k] = o /\ g[l] = j
        BY <3>2, <1>1, <1>2
      <4> QED
        BY <3>2, <4>1
    <3> QED
      BY <3>1, <3>2
  <2>2. CASE j = i
    <3>1. Nesting(r)[j - 1] = f
      BY <2>2, <1>1 DEF FramesNested
    <3>2. PICK k \in 1..n : f[k] = o
      BY <3>1, <1>8 DEF Recursive
    <3>3. k \in 1..(n + 1) /\ n + 1 \in 1..(n + 1) /\ k < n + 1 /\ g[k] = o /\ g[n + 1] = j
      BY <2>2, <3>2, <1>1, <1>2
    <3> QED
      BY <3>3
  <2>3. j \in Nat
    BY <1>8, OrdinalUnique
  <2>4. j <= done[r] \/ j = i
    BY <2>3, <1>1, <1>8
  <2> QED
    BY <2>1, <2>2, <2>4
<1>9. \A k, l \in 1..(n + 1) : k < l /\ Site(r, g[k]) = Site(r, g[l]) =>
         /\ Kept(r, g[k])'
         /\ byte'[Site(r, g[k])] = Code \/ Twice(OriginalId[r], Site(r, g[k]))'
  BY <1>7
<1>10. \A o, j \in CallsOf(r) : j <= i /\ Recursive(r, o, j) =>
         \/ Kept(r, o)' /\ byte'[Site(r, o)] = Code
         \/ \E k, l \in 1..(n + 1) : k < l /\ g[k] = o /\ g[l] = j
  BY <1>8
<1>11. done'[r] = i /\ frames'[r] = g /\ Len(g) = n + 1 /\ Open(r)' = m
  BY <1>1, <1>2
<1>12. (\A k \in 1..Open(r) : Kept(r, frames[r][k]))'
  BY <1>6, <1>11
<1>13. (\A k, l \in 1..Len(frames[r]) : k < l /\ Site(r, frames[r][k]) = Site(r, frames[r][l]) =>
          /\ Kept(r, frames[r][k])
          /\ byte[Site(r, frames[r][k])] = Code \/ Twice(OriginalId[r], Site(r, frames[r][k])))'
  BY <1>9, <1>11
<1>14. (\A o, j \in CallsOf(r) : j <= done[r] /\ Recursive(r, o, j) =>
          \/ Kept(r, o) /\ byte[Site(r, o)] = Code
          \/ \E k, l \in 1..Len(frames[r]) : k < l /\ frames[r][k] = o /\ frames[r][l] = j)'
  BY <1>10, <1>11
<1> QED
  BY <1>12, <1>13, <1>14 DEF HoldsOfRoleOK

LEMMA RecordCallKeeps ==
  ASSUME IInv, RecordingOK, phase = "recording", NEW r \in Role, RecordCall(r)
  PROVE  RecordingOK'
<1> PICK t : t = id[r]
  OBVIOUS
<1> PICK i : i = done[r] + 1
  OBVIOUS
<1> PICK e : e = NewEvent(r)
  OBVIOUS
<1> DEFINE s == Site(r, i)
           pending == pending_thread_events
<1>1. /\ Calling(r) /\ Advance(r)
      /\ frames' = [frames EXCEPT ![r] = Append(@, i)]
      /\ CreateHeldBreakpoints({s}, t, "Return")
      /\ pending' = [pending EXCEPT ![t] = Append(@, e)]
      /\ UNCHANGED <<phase, stopped, recorded, event_log, pending_replay_end_events, snaps>>
  BY DEF RecordCall, Perform
<1>2. /\ Progress /\ LogTyped /\ TablesOK
      /\ FramesOK /\ FramesNested /\ BytesOK /\ EventsOK /\ HoldsOK /\ CountsOK
      /\ done[r] \in Nat
  BY DEF IInv, RecordingOK, Progress
<1>3. /\ i \in CallsOf(r) /\ s \in Address \ EntryPoints
      /\ t \in Thread /\ t = OriginalId[r]
      /\ \A q \in Role : OriginalId[q] = t => q = r
  <2>1. i \in CallsOf(r) /\ s \in Address \ EntryPoints
    BY <1>1, <1>2, RipOfCall
  <2>2. t = OriginalId[r]
    BY <1>1 DEF RecordingOK, Calling, HasNext
  <2> QED
    BY <2>1, <2>2, ReplayAssumption
<1>4. e \in Event /\ e.thread = t /\ e.thread_seq = Ordinal(r, i)
  BY <1>1, <1>2, NewEventTyped DEF NewEvent
<1>5. FramesOK' /\ FramesNested' /\ BytesOK' /\ EventsOK' /\ CountsOK'
  <2>1. FramesOK' /\ FramesNested'
    BY <1>1, <1>2, CallKeepsFrames, NestedAfterCall
  <2>2. BytesOK'
    BY <1>1, <1>2, <1>3, CreateShape
  <2>3. EventsOK'
    BY <1>2, <1>3, CallKeepsEvents
  <2>4. CountsOK'
    BY <1>1, <1>2, <1>3, <1>4, CreateKeepsCounts
  <2> QED
    BY <2>1, <2>2, <2>3, <2>4
<1>6. /\ Held(t, s)' /\ (Held(t, s) => Twice(t, s)')
      /\ \A u, a : /\ Held(u, a) => Held(u, a)'
                   /\ Twice(u, a) => Twice(u, a)'
                   /\ Held(u, a) /\ byte[a] = Code => byte'[a] = Code
  BY <1>1, <1>2, <1>3, HeldAfterCreate
\* The first pending event of a thread stays the first.
<1> PICK p : p = pending[t]
  OBVIOUS
<1>7. /\ p \in Seq(Event) /\ pending \in [Thread -> Seq(Event)]
      /\ pending'[t] = Append(p, e) /\ \A u \in Thread : u # t => pending'[u] = pending[u]
  BY <1>1, <1>2, <1>3 DEF LogTyped
<1>8. /\ pending'[t] # <<>>
      /\ p # <<>> => pending'[t][1] = p[1]
      /\ p = <<>> => pending'[t][1] = e
  <2>1. /\ Len(p) \in Nat /\ Len(Append(p, e)) = Len(p) + 1
        /\ \A k \in 1..Len(p) : Append(p, e)[k] = p[k]
        /\ Append(p, e)[Len(p) + 1] = e
    BY <1>7, AppendProperties
  <2>2. p # <<>> => 1 \in 1..Len(p)
    BY <2>1, <1>7, EmptySeq
  <2>3. p = <<>> => Len(p) + 1 = 1
    OBVIOUS
  <2>4. Append(p, e) # <<>>
    BY <2>1, EmptySeq
  <2> QED
    BY <2>1, <2>2, <2>3, <2>4, <1>7
<1>9. ASSUME NEW q \in Role, NEW o, Oldest(q, o)
      PROVE  Oldest(q, o)'
  <2>1. OriginalId[q] \in Thread
    BY ReplayAssumption
  <2>2. CASE q = r
    BY <2>2, <1>3, <1>8, <1>9 DEF Oldest
  <2>3. CASE q # r
    BY <2>1, <2>3, <1>3, <1>7, <1>9 DEF Oldest
  <2> QED
    BY <2>2, <2>3
<1>10. Oldest(r, i)'
  <2>1. ASSUME p # <<>> PROVE p[1].thread_seq <= Ordinal(r, i)
    <3>1. 1 \in DOMAIN p /\ p[1] \in Events /\ p[1].thread = t
      <4>1. 1 \in 1..Len(p) /\ DOMAIN p = 1..Len(p)
        BY <2>1, <1>7, EmptySeq
      <4> QED
        BY <4>1, <1>2, <1>3, EventsTyped DEF EventsOK
    <3>2. p[1].thread_seq < Ordinal(r, i) /\ p[1].thread_seq \in Nat
      BY <3>1, <1>2, <1>3, EventsAreBegun
    <3>3. Ordinal(r, i) \in Nat
      BY <1>4 DEF Event
    <3> QED
      BY <3>2, <3>3
  <2>2. e.thread_seq <= Ordinal(r, i)
    BY <1>4 DEF Event
  <2> QED
    BY <2>1, <2>2, <1>3, <1>8 DEF Oldest
<1>11. /\ \A q \in Role : \A o : Kept(q, o) => Kept(q, o)'
       /\ Kept(r, i)'
       /\ \A q \in Role : \A o : Kept(q, o) /\ byte[Site(q, o)] = Code => byte'[Site(q, o)] = Code
  BY <1>3, <1>6, <1>9, <1>10 DEF Kept
<1>12. HoldsOfRoleOK(r)'
  <2>1. HoldsOfRoleOK(r)
    BY <1>2 DEF HoldsOK
  <2> QED
    BY <2>1, <1>1, <1>2, <1>3, <1>6, <1>11, CallerKeepsHolds
<1>13. ASSUME NEW q \in Role, q # r PROVE HoldsOfRoleOK(q)'
  <2>1. HoldsOfRoleOK(q) /\ done'[q] = done[q] /\ frames'[q] = frames[q]
    BY <1>1, <1>2, <1>13 DEF HoldsOK, Advance, Progress
  <2> QED
    BY <2>1, <1>6, <1>11, RoleKeepsHolds
<1>14. HoldsOK'
  BY <1>12, <1>13 DEF HoldsOK
<1>15. \A q \in Role : id'[q] \in {OriginalId[q], NoId}
  <2> PICK created : created = Program[r][i].creates
    OBVIOUS
  <2>1. PICK new \in NewIds(r) : Perform(r, new)
    BY DEF RecordCall
  <2>2. id' = id \/ (created # NoRole /\ id' = [id EXCEPT ![created] = new])
    BY <2>1 DEF Perform
  <2>3. created # NoRole => new = OriginalId[created]
    BY <2>1 DEF NewIds
  <2>4. id \in [Role -> Thread \cup {NoId}]
    BY <1>2 DEF Progress
  <2> QED
    BY <2>2, <2>3, <2>4 DEF RecordingOK
<1> QED
  BY <1>1, <1>5, <1>14, <1>15 DEF RecordingOK, snaps

\* A thread that stops at a return it waits for holds the breakpoint there.
LEMMA ReturnIsHeld ==
  ASSUME TablesOK, NEW a, NEW t, GetBreakpointType(a, t) = "Return"
  PROVE  a \in Tracked /\ t \in Holders(a)
BY DEF GetBreakpointType, TablesOK, NoBreakpoint

LEMMA RecordReturnKeeps ==
  ASSUME IInv, RecordingOK, phase = "recording", NEW r \in Role, RecordReturn(r)
  PROVE  RecordingOK'
<1> PICK t : t = id[r]
  OBVIOUS
<1> PICK s : s = Rip(r)
  OBVIOUS
<1> PICK f : f = frames[r]
  OBVIOUS
<1> PICK n : n = Len(f)
  OBVIOUS
<1> PICK p : p = pending_thread_events[t]
  OBVIOUS
<1> DEFINE pending == pending_thread_events
<1>1. /\ Returning(r) /\ byte[s] = int3 /\ GetBreakpointType(s, t) = "Return"
      /\ p # <<>> /\ RemoveBreakpoints({s}, t)
      /\ pending' = [pending EXCEPT ![t] = Pop(@)]
      /\ UNCHANGED <<phase, debuggee, recorded, pending_replay_end_events, snaps>>
  BY DEF RecordReturn
<1>2. /\ Progress /\ LogTyped /\ TablesOK
      /\ FramesOK /\ FramesNested /\ BytesOK /\ EventsOK /\ HoldsOK /\ CountsOK
  BY DEF IInv, RecordingOK
<1>3. /\ f \in Seq(Nat) /\ n \in Nat /\ n >= 1
      /\ s = Site(r, f[n]) /\ s \in Address \ EntryPoints
      /\ s \in Tracked /\ t \in Holders(s)
  BY <1>1, <1>2, RipOfReturn, ReturnIsHeld
<1>4. /\ t \in Thread /\ t = OriginalId[r] /\ NoId \notin Thread
      /\ \A q \in Role : OriginalId[q] = t => q = r
  BY <1>1, <1>2, ReplayAssumption DEF RecordingOK, Returning, HasNext
<1>5. done' = done /\ frames' = frames /\ id' = id
  BY <1>1 DEF debuggee
<1>6. FramesOK' /\ FramesNested' /\ BytesOK' /\ EventsOK' /\ CountsOK'
  <2>1. FramesOK' /\ FramesNested'
    BY <1>2, <1>5 DEF FramesOK, FramesNested
  <2>2. BytesOK'
    BY <1>1, <1>2, <1>3, <1>4, RemoveShape
  <2>3. EventsOK'
    BY <1>2, <1>4, ReturnKeepsEvents
  <2>4. CountsOK'
    BY <1>1, <1>2, <1>3, <1>4, RemoveKeepsCounts
  <2> QED
    BY <2>1, <2>2, <2>3, <2>4
<1>7. /\ byte'[s] = Code
      /\ Twice(t, s) => Held(t, s)'
      /\ \A u, a : a # s \/ u # t => /\ Held(u, a) => Held(u, a)'
                                     /\ Twice(u, a) => Twice(u, a)'
      /\ \A a : byte[a] = Code => byte'[a] = Code
  BY <1>1, <1>2, <1>3, <1>4, HeldAfterRemove
\* Who holds something has its first event still.
<1>8. ASSUME NEW o, Oldest(r, o), Held(t, Site(r, o))'
      PROVE  Oldest(r, o)'
  <2>1. pending'[t] # <<>>
    <3>1. HeldIsPending'
      BY <1>6, HeldPendingNext
    <3> QED
      BY <3>1, <1>4, <1>8 DEF HeldIsPending
  <2>2. pending'[t] = Pop(p) /\ p \in Seq(Event)
    BY <1>1, <1>2, <1>4 DEF LogTyped
  <2>3. pending'[t][1] = p[1]
    <3>1. Pop(p) \in Seq(Event) /\ Pop(p) # <<>>
      BY <2>1, <2>2, <1>1, PopFrame
    <3>2. Len(Pop(p)) \in Nat /\ Len(Pop(p)) >= 1
      BY <3>1, EmptySeq
    <3>3. Len(Pop(p)) = Len(p) - 1 /\ \A k \in 1..(Len(p) - 1) : Pop(p)[k] = p[k]
      BY <2>2, <1>1, PopFrame
    <3>4. 1 \in 1..(Len(p) - 1)
      BY <3>2, <3>3
    <3> QED
      BY <2>2, <3>3, <3>4
  <2> QED
    BY <2>1, <2>3, <1>4, <1>8 DEF Oldest
<1>9. ASSUME NEW o, Kept(r, o), Site(r, o) # s
      PROVE  Kept(r, o)'
  BY <1>4, <1>7, <1>8, <1>9 DEF Kept
<1>10. HoldsOfRoleOK(r)
  BY <1>2 DEF HoldsOK
<1>11. Open(r) = n - 1 /\ Open(r)' = n - 1
  <2>1. AtReturn(r)
    BY <1>1 DEF AtReturn, Returning, HasNext
  <2> QED
    BY <2>1, <1>5 DEF Open, AtReturn
<1>12. ASSUME NEW k \in 1..(n - 1) PROVE Kept(r, f[k])'
  <2>1. Kept(r, f[k])
    BY <1>10, <1>11 DEF HoldsOfRoleOK
  <2>2. CASE Site(r, f[k]) = s
    <3>1. k \in 1..n /\ n \in 1..n /\ k < n
      BY <1>3
    <3>2. byte[s] = Code \/ Twice(t, s)
      BY <3>1, <2>2, <1>3, <1>4, <1>10 DEF HoldsOfRoleOK
    <3>3. Held(t, s)'
      BY <3>2, <1>1, <1>7 DEF Code, int3
    <3> QED
      BY <2>1, <2>2, <3>3, <1>4, <1>8 DEF Kept
  <2> QED
    BY <2>1, <2>2, <1>9
<1>13. ASSUME NEW k \in 1..n, NEW l \in 1..n, k < l, Site(r, f[k]) = Site(r, f[l])
       PROVE  /\ Kept(r, f[k])'
              /\ byte'[Site(r, f[k])] = Code \/ Twice(t, Site(r, f[k]))'
  <2>1. k \in 1..(n - 1)
    BY <1>3, <1>13
  <2>2. byte[Site(r, f[k])] = Code \/ Twice(t, Site(r, f[k]))
    BY <1>4, <1>10, <1>13 DEF HoldsOfRoleOK
  <2> QED
    BY <2>1, <2>2, <1>7, <1>12
<1>14. ASSUME NEW o \in CallsOf(r), NEW i \in CallsOf(r), i <= done[r], Recursive(r, o, i)
       PROVE  \/ Kept(r, o)' /\ byte'[Site(r, o)] = Code
              \/ \E k, l \in 1..n : k < l /\ f[k] = o /\ f[l] = i
  <2>1. \/ Kept(r, o) /\ byte[Site(r, o)] = Code
        \/ \E k, l \in 1..n : k < l /\ f[k] = o /\ f[l] = i
    BY <1>10, <1>14 DEF HoldsOfRoleOK
  <2>2. byte[Site(r, o)] = Code => Site(r, o) # s
    BY <1>1 DEF Code, int3
  <2> QED
    BY <2>1, <2>2, <1>7, <1>9
<1>15. HoldsOfRoleOK(r)'
  <2>1. done'[r] = done[r] /\ frames'[r] = f /\ OriginalId[r] = t
    BY <1>4, <1>5
  <2>2. (\A k \in 1..Open(r) : Kept(r, frames[r][k]))'
    BY <2>1, <1>11, <1>12
  <2>3. (\A k, l \in 1..Len(frames[r]) : k < l /\ Site(r, frames[r][k]) = Site(r, frames[r][l]) =>
            /\ Kept(r, frames[r][k])
            /\ byte[Site(r, frames[r][k])] = Code \/ Twice(OriginalId[r], Site(r, frames[r][k])))'
    BY <2>1, <1>13
  <2>4. (\A o, i \in CallsOf(r) : i <= done[r] /\ Recursive(r, o, i) =>
            \/ Kept(r, o) /\ byte[Site(r, o)] = Code
            \/ \E k, l \in 1..Len(frames[r]) : k < l /\ frames[r][k] = o /\ frames[r][l] = i)'
    BY <2>1, <1>14
  <2> QED
    BY <2>2, <2>3, <2>4 DEF HoldsOfRoleOK
<1>16. ASSUME NEW q \in Role, q # r PROVE HoldsOfRoleOK(q)'
  <2>1. OriginalId[q] \in Thread /\ OriginalId[q] # t
    BY <1>4, <1>16, ReplayAssumption
  <2>2. pending'[OriginalId[q]] = pending[OriginalId[q]]
    BY <2>1, <1>1, <1>2 DEF LogTyped
  <2>3. /\ \A o : Kept(q, o) => Kept(q, o)'
        /\ \A a : Twice(OriginalId[q], a) => Twice(OriginalId[q], a)'
    BY <2>1, <2>2, <1>7 DEF Kept, Oldest
  <2>4. HoldsOfRoleOK(q) /\ done'[q] = done[q] /\ frames'[q] = frames[q]
    BY <1>2, <1>5 DEF HoldsOK
  <2> QED
    BY <2>3, <2>4, <1>7, RoleKeepsHolds
<1>17. HoldsOK'
  BY <1>15, <1>16 DEF HoldsOK
<1> QED
  BY <1>1, <1>5, <1>6, <1>17 DEF RecordingOK, snaps

LEMMA RecordPassKeeps ==
  ASSUME IInv, RecordingOK, phase = "recording", NEW r \in Role, PassReturn(r)
  PROVE  RecordingOK'
<1> PICK f : f = frames[r]
  OBVIOUS
<1> PICK n : n = Len(f)
  OBVIOUS
<1> PICK g : g = frames'[r]
  OBVIOUS
<1>1. /\ Returning(r) /\ byte[Rip(r)] = Code /\ Advance(r)
      /\ frames' = [frames EXCEPT ![r] = Pop(@)]
      /\ UNCHANGED <<breakpointVars, phase, id, stopped, recorded, log,
                     pending_replay_end_events, snaps>>
  BY DEF PassReturn
<1>2. /\ Progress /\ FramesOK /\ FramesNested /\ BytesOK /\ EventsOK /\ HoldsOK /\ CountsOK
  BY DEF IInv, RecordingOK
<1>3. /\ f \in Seq(Nat) /\ n \in Nat /\ n >= 1 /\ Rip(r) = Site(r, f[n])
      /\ done[r] \in Nat /\ done'[r] = done[r] + 1
      /\ \A q \in Role : q # r => done'[q] = done[q] /\ frames'[q] = frames[q]
      /\ \A q \in Role : done[q] \in Nat /\ done'[q] \in Nat /\ done[q] <= done'[q]
      /\ g = Pop(f) /\ f # <<>>
  <2>1. /\ f \in Seq(Nat) /\ n \in Nat /\ n >= 1 /\ Rip(r) = Site(r, f[n])
    BY <1>1, <1>2, RipOfReturn
  <2>2. /\ done \in [Role -> Nat] /\ frames \in [Role -> Seq(Nat)]
        /\ done' = [done EXCEPT ![r] = @ + 1]
    BY <1>1, <1>2 DEF Progress, Advance
  <2>3. g = Pop(f) /\ f # <<>>
    BY <1>1, <2>2 DEF Returning
  <2> QED
    BY <1>1, <2>1, <2>2, <2>3
<1>4. Len(g) = n - 1 /\ \A k \in 1..(n - 1) : g[k] = f[k]
  <2>1. f \in Seq(Nat) /\ f # <<>> /\ g = Pop(f)
    BY <1>3
  <2>2. Len(Pop(f)) = Len(f) - 1 /\ \A k \in 1..(Len(f) - 1) : Pop(f)[k] = f[k]
    BY <2>1, PopFrame
  <2> QED
    BY <2>1, <2>2
<1>5. FramesOK' /\ FramesNested'
  BY <1>1, <1>2, ReturnKeepsFrames, NestedAfterReturn
<1>6. BytesOK' /\ CountsOK'
  BY <1>1, <1>2 DEF BytesOK, CountsOK, HoldsOf, HoldersOf, Tracked, breakpointVars, tables, log
<1>7. EventsOK'
  <2>1. event_log' = event_log /\ pending_thread_events' = pending_thread_events
        /\ global_sequence' = global_sequence
    BY <1>1 DEF log
  <2>2. Events' = Events
    BY <2>1 DEF Events
  <2>3. ASSUME NEW e \in Events PROVE Known(e)'
    <3>1. PICK q \in Role : \E i \in CallsOf(q) : i <= done[q] /\ IsEventOf(e, q, i)
      BY <1>2 DEF EventsOK, Known
    <3>2. PICK i \in CallsOf(q) : i <= done[q] /\ IsEventOf(e, q, i)
      BY <3>1
    <3>3. i <= done'[q]
      BY <3>2, <1>3, OrdinalUnique
    <3> QED
      BY <3>2, <3>3 DEF Known, IsEventOf
  <2> QED
    BY <2>1, <2>2, <2>3, <1>2 DEF EventsOK, SameOrder, LogSorted
<1>8. /\ \A q \in Role : \A o : Kept(q, o)' <=> Kept(q, o)
      /\ \A u, a : Twice(u, a)' <=> Twice(u, a)
      /\ byte' = byte
  BY <1>1 DEF Kept, Oldest, Held, Twice, HoldersOf, Tracked, breakpointVars, tables, log
<1>9. HoldsOfRoleOK(r) /\ Open(r) = n - 1
  <2>1. AtReturn(r)
    BY <1>1 DEF AtReturn, Returning, HasNext
  <2> QED
    BY <2>1, <1>2 DEF Open, HoldsOK
<1>10. \A k \in 1..(n - 1) : Kept(r, g[k])'
  BY <1>4, <1>8, <1>9 DEF HoldsOfRoleOK
<1> PICK m : m = Open(r)'
  OBVIOUS
<1>11. \A k \in 1..m : Kept(r, g[k])'
  <2>1. m = n - 1 \/ m = (n - 1) - 1
    BY <1>4 DEF Open
  <2>2. \A k \in 1..m : k \in 1..(n - 1)
    BY <2>1, <1>3
  <2> QED
    BY <2>2, <1>10
<1>12. \A k, l \in 1..(n - 1) : k < l /\ Site(r, g[k]) = Site(r, g[l]) =>
          /\ Kept(r, g[k])'
          /\ byte'[Site(r, g[k])] = Code \/ Twice(OriginalId[r], Site(r, g[k]))'
  <2> SUFFICES ASSUME NEW k \in 1..(n - 1), NEW l \in 1..(n - 1), k < l, Site(r, g[k]) = Site(r, g[l])
               PROVE  /\ Kept(r, g[k])'
                      /\ byte'[Site(r, g[k])] = Code \/ Twice(OriginalId[r], Site(r, g[k]))'
    OBVIOUS
  <2>1. k \in 1..n /\ l \in 1..n /\ g[k] = f[k] /\ g[l] = f[l]
    <3>1. k \in 1..n /\ l \in 1..n
      <4>1. n \in Nat
        BY <1>3
      <4> QED
        BY <4>1
    <3>2. g[k] = f[k] /\ g[l] = f[l]
      BY <1>4
    <3> QED
      BY <3>1, <3>2
  <2>2. /\ Kept(r, f[k])
        /\ byte[Site(r, f[k])] = Code \/ Twice(OriginalId[r], Site(r, f[k]))
    BY <2>1, <1>9 DEF HoldsOfRoleOK
  <2> QED
    BY <2>1, <2>2, <1>8
<1>13. ASSUME NEW o \in CallsOf(r), NEW i \in CallsOf(r), i <= done'[r], Recursive(r, o, i)
       PROVE  \/ Kept(r, o)' /\ byte'[Site(r, o)] = Code
              \/ \E k, l \in 1..(n - 1) : k < l /\ g[k] = o /\ g[l] = i
  <2>1. i <= done[r]
    <3>1. i # done[r] + 1 /\ i \in Nat
      BY <1>1, ReturnIsNoCall, OrdinalUnique
    <3> QED
      BY <3>1, <1>3, <1>13
  <2>2. CASE Kept(r, o) /\ byte[Site(r, o)] = Code
    BY <2>2, <1>8
  <2>3. ASSUME NEW k \in 1..n, NEW l \in 1..n, k < l, f[k] = o, f[l] = i
        PROVE  \/ Kept(r, o)' /\ byte'[Site(r, o)] = Code
               \/ \E a, b \in 1..(n - 1) : a < b /\ g[a] = o /\ g[b] = i
    <3>1. CASE l = n
      <4>1. Site(r, o) = Site(r, i) /\ Site(r, i) = Rip(r)
        BY <2>3, <3>1, <1>3, <1>13 DEF Recursive
      <4>2. Kept(r, o)
        BY <2>3, <4>1, <1>9 DEF HoldsOfRoleOK
      <4> QED
        BY <4>1, <4>2, <1>1, <1>8
    <3>2. CASE l # n
      <4>1. k \in 1..(n - 1) /\ l \in 1..(n - 1)
        BY <2>3, <3>2, <1>3
      <4>2. g[k] = o /\ g[l] = i
        BY <4>1, <2>3, <1>4
      <4> QED
        BY <4>1, <4>2, <2>3
    <3> QED
      BY <3>1, <3>2
  <2>4. \/ Kept(r, o) /\ byte[Site(r, o)] = Code
        \/ \E k, l \in 1..n : k < l /\ f[k] = o /\ f[l] = i
    BY <2>1, <1>9, <1>13 DEF HoldsOfRoleOK
  <2> QED
    BY <2>2, <2>3, <2>4
<1>14. HoldsOfRoleOK(r)'
  <2>1. frames'[r] = g /\ Len(g) = n - 1
    BY <1>4
  <2>2. (\A k \in 1..Open(r) : Kept(r, frames[r][k]))'
    BY <2>1, <1>11
  <2>3. (\A k, l \in 1..Len(frames[r]) : k < l /\ Site(r, frames[r][k]) = Site(r, frames[r][l]) =>
            /\ Kept(r, frames[r][k])
            /\ byte[Site(r, frames[r][k])] = Code \/ Twice(OriginalId[r], Site(r, frames[r][k])))'
    BY <2>1, <1>12
  <2>4. (\A o, i \in CallsOf(r) : i <= done[r] /\ Recursive(r, o, i) =>
            \/ Kept(r, o) /\ byte[Site(r, o)] = Code
            \/ \E k, l \in 1..Len(frames[r]) : k < l /\ frames[r][k] = o /\ frames[r][l] = i)'
    BY <2>1, <1>13
  <2> QED
    BY <2>2, <2>3, <2>4 DEF HoldsOfRoleOK
<1>15. ASSUME NEW q \in Role, q # r PROVE HoldsOfRoleOK(q)'
  <2>1. HoldsOfRoleOK(q) /\ done'[q] = done[q] /\ frames'[q] = frames[q]
    BY <1>2, <1>3, <1>15 DEF HoldsOK
  <2> QED
    BY <2>1, <1>8, RoleKeepsHolds
<1>16. HoldsOK'
  BY <1>14, <1>15 DEF HoldsOK
<1> QED
  BY <1>1, <1>2, <1>5, <1>6, <1>7, <1>16 DEF RecordingOK, snaps

\* The recording begins with everything in place.
LEMMA RecordingBegins == Init => RecordingOK
<1> SUFFICES ASSUME Init PROVE RecordingOK
  OBVIOUS
<1>1. /\ done = [r \in Role |-> 0] /\ frames = [r \in Role |-> <<>>]
      /\ event_log = <<>> /\ pending_thread_events = [t \in Thread |-> <<>>]
      /\ byte = [a \in Address |-> IF a \in EntryPoints THEN int3 ELSE Code]
      /\ Tracked = EntryPoints
      /\ snapshots = <<Snapshot>>
  BY DEF Init, Tracked
<1>2. FramesOK
  BY <1>1 DEF FramesOK
<1>3. FramesNested
  BY <1>1, ScriptTyped, NestingStep DEF FramesNested
<1>4. BytesOK
  BY <1>1 DEF BytesOK, Code, int3
<1>5. Events = {}
  BY <1>1 DEF Events
<1>6. EventsOK
  BY <1>1, <1>5 DEF EventsOK, LogSorted
<1>7. \A u, a : HoldersOf(a) = <<>> /\ ~Held(u, a)
  <2>1. \A a : HoldersOf(a) = <<>>
    BY <1>1 DEF HoldersOf
  <2>2. Len(<<>>) = 0 /\ 1..0 = {}
    OBVIOUS
  <2> QED
    BY <2>1, <2>2 DEF Held
<1>8. CountsOK
  <2>1. \A t : HoldsOf(t) = {}
    BY <1>7 DEF HoldsOf
  <2> QED
    BY <1>1, <2>1, FS_EmptySet DEF CountsOK
<1>9. ASSUME NEW r \in Role PROVE HoldsOfRoleOK(r)
  <2>1. /\ frames[r] = <<>> /\ Len(frames[r]) = 0 /\ done[r] = 0
    BY <1>1
  <2>2. Open(r) = 0 \/ Open(r) = -1
    BY <2>1 DEF Open
  <2>3. \A i \in CallsOf(r) : ~(i <= done[r])
    BY <2>1, ScriptTyped DEF CallsOf
  <2> QED
    BY <2>1, <2>2, <2>3 DEF HoldsOfRoleOK
<1>10. \A r \in Role : id[r] \in {OriginalId[r], NoId}
  BY DEF Init
<1>11. pending_replay_end_events = [t \in Thread |-> <<>>]
  BY DEF Init
<1>12. \A a \in Address \ EntryPoints : snapshots[1].byte[a] = Code
  <2>1. snapshots[1] = Snapshot
    BY <1>1
  <2> QED
    BY <2>1, <1>1 DEF Snapshot
<1> QED
  BY <1>2, <1>3, <1>4, <1>6, <1>8, <1>9, <1>10, <1>11, <1>12 DEF RecordingOK, HoldsOK

\* What holds while the program is recorded.
LEMMA RecordingKeeps ==
  ASSUME IInv, RecordingOK, phase = "recording", [Next]_vars, phase' = "recording"
  PROVE  RecordingOK'
<1>1. ASSUME NEW r \in Role, PassReturn(r) PROVE RecordingOK'
  BY <1>1, RecordPassKeeps
<1>2. ASSUME NEW r \in Role, RecordCall(r) PROVE RecordingOK'
  BY <1>2, RecordCallKeeps
<1>3. ASSUME NEW r \in Role, RecordReturn(r) PROVE RecordingOK'
  BY <1>3, RecordReturnKeeps
<1>4. \A r \in Role : ~Stop(r) /\ ~HandleBreakpoint(r)
  BY DEF Stop, HandleBreakpoint
<1>5. ~Timeout /\ \A k : ~RestoreTo(k)
  BY DEF Timeout, RestoreTo
<1>6. CASE UNCHANGED vars
  <2>1. /\ FramesOK' = FramesOK /\ FramesNested' = FramesNested /\ EventsOK' = EventsOK
    BY <1>6 DEF FramesOK, FramesNested, EventsOK, Events, Known, LogSorted, vars, debuggee, log
  <2>2. BytesOK' = BytesOK /\ CountsOK' = CountsOK
    BY <1>6 DEF BytesOK, CountsOK, HoldsOf, HoldersOf, Tracked, vars, breakpointVars, tables, log
  <2>3. ASSUME NEW q \in Role PROVE HoldsOfRoleOK(q)'
    <3>1. /\ \A o : Kept(q, o)' <=> Kept(q, o)
          /\ \A u, a : Twice(u, a)' <=> Twice(u, a)
          /\ byte' = byte /\ done' = done /\ frames' = frames
      BY <1>6 DEF Kept, Oldest, Held, Twice, HoldersOf, Tracked, vars, breakpointVars, tables, log, debuggee
    <3>2. HoldsOfRoleOK(q)
      BY DEF RecordingOK, HoldsOK
    <3> QED
      BY <3>1, <3>2, RoleKeepsHolds
  <2> QED
    BY <1>6, <2>1, <2>2, <2>3 DEF RecordingOK, HoldsOK, vars, debuggee, snaps
<1> QED
  BY <1>1, <1>2, <1>3, <1>4, <1>5, <1>6 DEF Next

----------------------------------------------------------------------------
(* The reconstruction.                                                     *)

\* What the recording leaves in the log: the events of each thread in the order
\* of its calls, and of the calls up to a recursive one not all.
LogOK ==
    /\ \A k \in DOMAIN event_log : \E r \in Role : \E i \in CallsOf(r) : IsEventOf(event_log[k], r, i)
    /\ \A j, k \in DOMAIN event_log : j < k /\ event_log[j].thread = event_log[k].thread =>
          event_log[j].thread_seq < event_log[k].thread_seq
    /\ \A r \in Role : \A o, i \in CallsOf(r) : Recursive(r, o, i) =>
          \E j \in CallsOf(r) : j <= i /\ ~Logged(r, j)

\* How many of the calls r is in it waits for, from the outermost on, and
\* their return addresses.
Waits(r) ==
    IF Returning(r) /\ byte[Rip(r)] = Code THEN Len(frames[r]) - 1 ELSE Len(frames[r])
Waiting(r) == {Site(r, frames[r][k]) : k \in 1..Waits(r)}

\* The hypothesis of ReplayStackMatches, and what holds of a role under it: it
\* has replayed the events of the calls it made, it returns to an address of
\* its own from each of the calls it is in, and it alone holds those.
Good(r) == Covered(r, done[r]) /\ OwnSites(r)
ReplayedOK(r) ==
    \A k \in DOMAIN event_log : event_log[k].thread = id[r] =>
        (event_log[k].replayed <=> event_log[k].thread_seq < Ordinal(r, done[r] + 1))
StackOK(r) ==
    LET stack == pending_replay_end_events[id[r]]
    IN  /\ stack \in Seq(Nat) /\ Len(stack) = Waits(r)
        /\ \A k \in 1..Waits(r) :
              /\ stack[k] \in DOMAIN event_log
              /\ event_log[stack[k]].thread_seq = Ordinal(r, frames[r][k])
SitesDiffer(r) ==
    \A k, l \in 1..Len(frames[r]) : k < l => Site(r, frames[r][k]) # Site(r, frames[r][l])
HoldsOwn(r) ==
    \A a \in SitesBegun(r) : IF a \in Waiting(r) THEN byte[a] = int3 /\ HoldersOf(a) = <<id[r]>>
                                                 ELSE byte[a] = Code /\ HoldersOf(a) = <<>>
RoleOK(r) == ReplayedOK(r) /\ StackOK(r) /\ SitesDiffer(r) /\ HoldsOwn(r)

ReconstructionOK ==
    /\ FramesNested /\ BytesOK /\ LogOK
    /\ \A a \in Tracked \ EntryPoints : a \in recorded.held \/ \E r \in Role : a \in SitesBegun(r)
    /\ \A t \in Thread : (\A r \in Role : id[r] # t) => pending_replay_end_events[t] = <<>>
    /\ pending_replay_end_events \in [Thread -> Seq(Nat)]
    /\ \A r \in Role : Good(r) => RoleOK(r)

\* The calls whose events are still pending when the recording ends.
LEMMA NotLogged ==
  ASSUME Progress, LogTyped, EventsOK, NEW r \in Role
  PROVE  /\ \A o \in CallsOf(r) : Oldest(r, o) => \E j \in CallsOf(r) : j <= o /\ ~Logged(r, j)
         /\ \A i \in CallsOf(r) : ~(i <= done[r]) => ~Logged(r, i)
<1> PICK t : t = OriginalId[r]
  OBVIOUS
<1>1. t \in Thread /\ done[r] \in Nat
  BY ReplayAssumption DEF Progress
<1>2. ASSUME NEW o \in CallsOf(r), Oldest(r, o)
      PROVE  \E j \in CallsOf(r) : j <= o /\ ~Logged(r, j)
  <2> PICK e : e = pending_thread_events[t][1]
    OBVIOUS
  <2>1. e.thread_seq <= Ordinal(r, o) /\ 1 \in DOMAIN pending_thread_events[t]
    <3>1. pending_thread_events[t] # <<>> /\ e.thread_seq <= Ordinal(r, o)
      BY <1>2 DEF Oldest
    <3>2. pending_thread_events[t] \in Seq(Event)
      BY <1>1 DEF LogTyped
    <3> QED
      BY <3>1, <3>2, EmptySeq
  <2>2. e \in Events /\ e.thread = t
    BY <2>1, <1>1, EventsTyped DEF EventsOK
  <2>3. PICK j \in CallsOf(r) : e.thread_seq = Ordinal(r, j)
    BY <2>2, <1>1, EventsAreBegun
  <2>4. j <= o
    BY <2>1, <2>3, OrdinalUnique
  <2>5. ASSUME NEW k \in DOMAIN event_log, event_log[k].thread = t, event_log[k].thread_seq = Ordinal(r, j)
        PROVE  FALSE
    <3> PICK d : d = event_log[k]
      OBVIOUS
    <3>1. d \in Events /\ d.global_seq \in Nat /\ d.thread_seq \in Nat /\ e.global_seq \in Nat
      BY <2>2, EventsTyped
    <3>2. /\ d.global_seq < e.global_seq <=> d.thread_seq < e.thread_seq
          /\ e.global_seq < d.global_seq <=> e.thread_seq < d.thread_seq
      BY <2>2, <2>5, <3>1 DEF EventsOK, SameOrder
    <3>3. d.thread_seq = e.thread_seq
      BY <2>3, <2>5
    <3>4. d.global_seq = e.global_seq
      BY <3>1, <3>2, <3>3
    <3>5. d.global_seq # e.global_seq
      BY <1>1, <2>1 DEF EventsOK
    <3> QED
      BY <3>4, <3>5
  <2> QED
    BY <2>4, <2>5 DEF Logged
<1>3. ASSUME NEW i \in CallsOf(r), ~(i <= done[r]), Logged(r, i)
      PROVE  FALSE
  <2>1. PICK k \in DOMAIN event_log : event_log[k].thread = t /\ event_log[k].thread_seq = Ordinal(r, i)
    BY <1>3 DEF Logged
  <2>2. event_log[k] \in Events
    BY EventsTyped
  <2>3. PICK j \in CallsOf(r) : j <= done[r] /\ Ordinal(r, i) = Ordinal(r, j)
    BY <1>1, <2>1, <2>2, EventsAreBegun
  <2>4. i = j
    BY <2>3, OrdinalUnique
  <2> QED
    BY <1>3, <2>3, <2>4
<1> QED
  BY <1>2, <1>3

LEMMA RecordedLogOK ==
  ASSUME IInv, RecordingOK
  PROVE  LogOK
<1>1. Progress /\ LogTyped /\ EventsOK /\ HoldsOK
  BY DEF IInv, RecordingOK
<1>2. \A k \in DOMAIN event_log : \E r \in Role : \E i \in CallsOf(r) : IsEventOf(event_log[k], r, i)
  BY <1>1, EventsTyped DEF EventsOK, Known
<1>3. ASSUME NEW j \in DOMAIN event_log, NEW k \in DOMAIN event_log, j < k,
             event_log[j].thread = event_log[k].thread
      PROVE  event_log[j].thread_seq < event_log[k].thread_seq
  <2>1. event_log[j] \in Events /\ event_log[k] \in Events /\ event_log[j].global_seq < event_log[k].global_seq
    BY <1>1, <1>3, EventsTyped DEF EventsOK, LogSorted
  <2> QED
    BY <1>1, <1>3, <2>1 DEF EventsOK, SameOrder
<1>4. ASSUME NEW r \in Role, NEW o \in CallsOf(r), NEW i \in CallsOf(r), Recursive(r, o, i)
      PROVE  \E j \in CallsOf(r) : j <= i /\ ~Logged(r, j)
  <2>1. CASE i <= done[r]
    <3>1. Oldest(r, o)
      <4>1. HoldsOfRoleOK(r)
        BY <1>1 DEF HoldsOK
      <4>2. \/ Kept(r, o)
            \/ \E k, l \in 1..Len(frames[r]) : k < l /\ frames[r][k] = o /\ frames[r][l] = i
        BY <4>1, <1>4, <2>1 DEF HoldsOfRoleOK
      <4>3. ASSUME NEW k \in 1..Len(frames[r]), NEW l \in 1..Len(frames[r]), k < l,
                   frames[r][k] = o, frames[r][l] = i
            PROVE  Kept(r, o)
        <5>1. Site(r, frames[r][k]) = Site(r, frames[r][l])
          BY <4>3, <1>4 DEF Recursive
        <5> QED
          BY <5>1, <4>1, <4>3 DEF HoldsOfRoleOK
      <4> QED
        BY <4>2, <4>3 DEF Kept
    <3>2. PICK j \in CallsOf(r) : j <= o /\ ~Logged(r, j)
      BY <3>1, <1>1, NotLogged
    <3>3. j <= i
      BY <3>2, <1>4, OrdinalUnique DEF Recursive
    <3> QED
      BY <3>2, <3>3
  <2>2. CASE ~(i <= done[r])
    <3>1. ~Logged(r, i) /\ i <= i
      BY <2>2, <1>1, NotLogged, OrdinalUnique
    <3> QED
      BY <3>1
  <2> QED
    BY <2>1, <2>2
<1> QED
  BY <1>2, <1>3, <1>4 DEF LogOK

\* Steps of the log that leave the events as they are but for the flag.
SameEvents ==
    /\ DOMAIN event_log' = DOMAIN event_log
    /\ \A k \in DOMAIN event_log : /\ event_log'[k].thread = event_log[k].thread
                                   /\ event_log'[k].thread_seq = event_log[k].thread_seq
                                   /\ event_log'[k].event_rip = event_log[k].event_rip

LEMMA LogStays ==
  ASSUME LogOK, SameEvents
  PROVE  LogOK' /\ \A r, i : Logged(r, i)' <=> Logged(r, i)
<1>1. \A r, i : Logged(r, i)' <=> Logged(r, i)
  BY DEF Logged, SameEvents
<1>2. \A k \in DOMAIN event_log' : \E r \in Role : \E i \in CallsOf(r) : IsEventOf(event_log'[k], r, i)
  BY DEF LogOK, SameEvents, IsEventOf
<1>3. \A j, k \in DOMAIN event_log' : j < k /\ event_log'[j].thread = event_log'[k].thread =>
          event_log'[j].thread_seq < event_log'[k].thread_seq
  BY DEF LogOK, SameEvents
<1>4. \A r \in Role : \A o, i \in CallsOf(r) : Recursive(r, o, i) =>
          \E j \in CallsOf(r) : j <= i /\ ~Logged(r, j)'
  BY <1>1 DEF LogOK
<1> QED
  BY <1>1, <1>2, <1>3, <1>4 DEF LogOK

LEMMA RestoreBegins ==
  ASSUME IInv, RecordingOK, phase = "recording", NEW k \in DOMAIN snapshots, RestoreTo(k)
  PROVE  ReconstructionOK'
<1> PICK first : first = snapshots[1]
  OBVIOUS
<1> PICK g : g = first.global_sequence
  OBVIOUS
<1>1. /\ recorded' = [done |-> done, held |-> Tracked \ permanent]
      /\ done' = first.done /\ frames' = first.frames /\ id' = first.id /\ byte' = first.byte
      /\ ResetEventReplay(g)
      /\ UNCHANGED <<tables, pending_replay_end_events>>
  BY DEF RestoreTo
<1>2. \A r \in Role : /\ done'[r] = 0 /\ frames'[r] = <<>>
                      /\ id'[r] = IF r \in FirstRoles THEN OriginalId[r] ELSE NoId
  BY <1>1 DEF IInv, FirstSnapshotOK
<1>3. Len(<<>>) = 0 /\ 1..0 = {}
  OBVIOUS
<1>4. SameEvents /\ \A j \in DOMAIN event_log' : ~event_log'[j].replayed
  <2>1. event_log' = [j \in DOMAIN event_log |->
            IF event_log[j].global_seq > g
            THEN [event_log[j] EXCEPT !.replayed = FALSE] ELSE event_log[j]]
    BY <1>1 DEF ResetEventReplay
  <2>2. ASSUME NEW j \in DOMAIN event_log
        PROVE  /\ event_log'[j].thread = event_log[j].thread
               /\ event_log'[j].thread_seq = event_log[j].thread_seq
               /\ event_log'[j].event_rip = event_log[j].event_rip
               /\ ~event_log'[j].replayed
    <3>1. ~event_log[j].replayed /\ event_log[j] \in Event
      BY EventsTyped DEF IInv, NothingReplayed, LogTyped
    <3>2. \/ event_log'[j] = event_log[j]
          \/ event_log'[j] = [event_log[j] EXCEPT !.replayed = FALSE]
      BY <2>1
    <3> QED
      BY <3>1, <3>2 DEF Event
  <2> QED
    BY <2>1, <2>2 DEF SameEvents
<1>5. LogOK'
  BY <1>4, RecordedLogOK, LogStays
<1>6. FramesNested'
  BY <1>2, ScriptTyped, NestingStep DEF FramesNested
<1>7. BytesOK'
  <2>1. \A a \in Address \ EntryPoints : byte'[a] # int3
    BY <1>1 DEF RecordingOK, Code, int3
  <2> QED
    BY <1>1, <2>1 DEF RecordingOK, BytesOK, tables, Tracked
<1>8. (\A a \in Tracked \ EntryPoints : a \in recorded.held \/ \E r \in Role : a \in SitesBegun(r))'
  BY <1>1 DEF IInv, TablesOK, tables, Tracked
<1>9. /\ \A t \in Thread : pending_replay_end_events'[t] = <<>>
      /\ pending_replay_end_events' \in [Thread -> Seq(Nat)]
  <2>1. pending_replay_end_events' = [t \in Thread |-> <<>>]
    BY <1>1 DEF RecordingOK
  <2>2. <<>> \in Seq(Nat)
    OBVIOUS
  <2> QED
    BY <2>1, <2>2
<1>10. ASSUME NEW r \in Role, Good(r)' PROVE RoleOK(r)'
  <2>1. id'[r] \in Thread
    BY <1>10, ReplayAssumption DEF Good, Covered
  <2>2. ReplayedOK(r)'
    <3>1. Ordinal(r, done'[r] + 1) = 0
      <4>1. done'[r] + 1 = 1
        BY <1>2
      <4>2. 0 \in Nat => Ordinal(r, 1) = 0
        BY OrdinalNext
      <4> QED
        BY <4>1, <4>2
    <3>2. \A j \in DOMAIN event_log' : event_log'[j].thread_seq \in Nat
      BY <1>4, EventsTyped DEF SameEvents, IInv
    <3>3. \A j \in DOMAIN event_log' : ~event_log'[j].replayed /\ ~(event_log'[j].thread_seq < 0)
      BY <1>4, <3>2
    <3> QED
      BY <3>1, <3>3 DEF ReplayedOK
  <2>3. Waits(r)' = 0
    BY <1>2, <1>3 DEF Waits, Returning
  <2>4. StackOK(r)' /\ SitesDiffer(r)'
    BY <1>2, <1>3, <1>9, <2>1, <2>3 DEF StackOK, SitesDiffer
  <2>5. HoldsOwn(r)'
    BY <1>2, <1>3 DEF HoldsOwn, SitesBegun
  <2> QED
    BY <2>2, <2>4, <2>5 DEF RoleOK
<1> QED
  BY <1>5, <1>6, <1>7, <1>8, <1>9, <1>10 DEF ReconstructionOK

\* The return addresses of the calls a role is in.
LEMMA SitesOfFrames ==
  ASSUME Progress, FramesOK, NEW r \in Role
  PROVE  /\ frames[r] \in Seq(Nat) /\ Len(frames[r]) \in Nat
         /\ \A k \in 1..Len(frames[r]) : /\ frames[r][k] \in CallsOf(r) /\ frames[r][k] <= done[r]
                                         /\ Site(r, frames[r][k]) \in SitesBegun(r)
         /\ Waits(r) \in {Len(frames[r]), Len(frames[r]) - 1} /\ Waits(r) \in Nat
         /\ Waiting(r) \subseteq SitesBegun(r)
         /\ Returning(r) => /\ Len(frames[r]) >= 1 /\ Rip(r) = Site(r, frames[r][Len(frames[r])])
                            /\ Rip(r) \in SitesBegun(r)
<1>1. frames[r] \in Seq(Nat) /\ Len(frames[r]) \in Nat
  BY DEF Progress
<1>2. ASSUME NEW k \in 1..Len(frames[r])
      PROVE  /\ frames[r][k] \in CallsOf(r) /\ frames[r][k] <= done[r]
             /\ Site(r, frames[r][k]) \in SitesBegun(r)
  <2>1. frames[r][k] \in CallsOf(r) \cap 1..done[r]
    BY DEF FramesOK
  <2> QED
    BY <2>1 DEF SitesBegun
<1>3. Returning(r) => /\ Len(frames[r]) >= 1 /\ Rip(r) = Site(r, frames[r][Len(frames[r])])
                      /\ Rip(r) \in SitesBegun(r)
  <2>1. Returning(r) => Len(frames[r]) >= 1 /\ Rip(r) = Site(r, frames[r][Len(frames[r])])
    BY RipOfReturn
  <2> QED
    BY <1>1, <1>2, <2>1
<1>4. Waits(r) \in {Len(frames[r]), Len(frames[r]) - 1} /\ Waits(r) \in Nat
  BY <1>1, <1>3 DEF Waits
<1>5. Waiting(r) \subseteq SitesBegun(r)
  BY <1>1, <1>2, <1>4 DEF Waiting
<1> QED
  BY <1>1, <1>2, <1>3, <1>4, <1>5

\* A role that does not move, whose events, stack and return addresses nobody
\* touches.
LEMMA RoleStays ==
  ASSUME Progress, FramesOK, NEW q \in Role, RoleOK(q), SameEvents,
         done'[q] = done[q], frames'[q] = frames[q], id'[q] = id[q],
         pending_replay_end_events'[id[q]] = pending_replay_end_events[id[q]],
         \A k \in DOMAIN event_log : event_log[k].thread = id[q] =>
             event_log'[k].replayed = event_log[k].replayed,
         \A a \in SitesBegun(q) : byte'[a] = byte[a] /\ HoldersOf(a)' = HoldersOf(a)
  PROVE  RoleOK(q)'
<1> PICK f : f = frames[q]
  OBVIOUS
<1> PICK w : w = Waits(q)
  OBVIOUS
<1>1. /\ w \in {Len(f), Len(f) - 1}
      /\ Returning(q) => Rip(q) \in SitesBegun(q)
  BY SitesOfFrames
<1>2. Waits(q)' = w
  <2>1. Returning(q)' = Returning(q) /\ (Returning(q) => Rip(q)' = Rip(q))
    BY DEF Returning, HasNext, Rip, Calling
  <2>2. Returning(q) => byte'[Rip(q)] = byte[Rip(q)]
    BY <1>1
  <2> QED
    BY <2>1, <2>2 DEF Waits
<1>3. SitesBegun(q)' = SitesBegun(q) /\ Waiting(q)' = Waiting(q)
  BY <1>2 DEF SitesBegun, Waiting
<1>4. ReplayedOK(q)'
  BY DEF RoleOK, ReplayedOK, SameEvents
<1>5. StackOK(q)'
  BY <1>2 DEF RoleOK, StackOK, SameEvents
<1>6. SitesDiffer(q)'
  BY DEF RoleOK, SitesDiffer
<1>7. HoldsOwn(q)'
  BY <1>3 DEF RoleOK, HoldsOwn
<1> QED
  BY <1>4, <1>5, <1>6, <1>7 DEF RoleOK

\* What a role must have been to be good after a step.
LEMMA GoodBefore ==
  ASSUME \A q \in Role : done[q] \in Nat /\ done'[q] \in Nat /\ done[q] <= done'[q],
         recorded' = recorded, SameEvents, LogOK,
         NEW r \in Role, id'[r] = id[r], Good(r)'
  PROVE  Good(r)
<1>1. \A i : Logged(r, i)' <=> Logged(r, i)
  BY LogStays
<1>2. \A q \in Role : \A i : i \in 1..done[q] => i \in 1..done'[q]
  OBVIOUS
<1>3. Covered(r, done[r])
  <2>1. /\ id'[r] = OriginalId[r]
        /\ \A i \in CallsOf(r) \cap 1..done'[r] : Logged(r, i)'
    BY DEF Good, Covered
  <2> QED
    BY <1>1, <1>2, <2>1 DEF Covered
<1>4. \A q \in Role : SitesBegun(q) \subseteq SitesBegun(q)'
  BY <1>2 DEF SitesBegun
<1>5. OwnSites(r)
  <2>1. /\ \A q \in Role \ {r} : SitesBegun(q)' \cap SitesBegun(r)' = {}
        /\ recorded.held \cap SitesBegun(r)' = {}
    BY DEF Good, OwnSites
  <2>2. \A q \in Role \ {r} : SitesBegun(q) \cap SitesBegun(r) = {}
    BY <1>4, <2>1
  <2> QED
    BY <1>4, <2>1, <2>2 DEF OwnSites
<1> QED
  BY <1>3, <1>5 DEF Good

\* A step that leaves the calls, the ids, the tables, the log and the stacks alone.
LEMMA ReconstructionStays ==
  ASSUME IInv, ReconstructionOK, phase = "reconstructing",
         UNCHANGED <<breakpointVars, done, frames, id, recorded, event_log, pending_replay_end_events>>
  PROVE  ReconstructionOK'
<1>1. Progress /\ FramesOK /\ LogOK
  BY DEF IInv, ReconstructionOK
<1>2. SameEvents
  BY DEF SameEvents
<1>3. LogOK'
  BY <1>1, <1>2, LogStays
<1>4. FramesNested' /\ BytesOK' /\ (Tracked' = Tracked) /\ (\A r \in Role : SitesBegun(r)' = SitesBegun(r))
      /\ byte' = byte /\ \A a : HoldersOf(a)' = HoldersOf(a)
  BY DEF ReconstructionOK, FramesNested, BytesOK, SitesBegun, HoldersOf, Tracked, breakpointVars, tables
<1>5. ASSUME NEW r \in Role, Good(r)' PROVE RoleOK(r)'
  <2>1. Good(r)
    <3>1. \A q \in Role : done[q] \in Nat /\ done'[q] \in Nat /\ done[q] <= done'[q]
      BY <1>1 DEF Progress
    <3> QED
      BY <3>1, <1>1, <1>2, <1>5, GoodBefore
  <2>2. RoleOK(r)
    BY <2>1 DEF ReconstructionOK
  <2> QED
    BY <2>2, <1>1, <1>2, <1>4, RoleStays
<1> QED
  BY <1>3, <1>4, <1>5 DEF ReconstructionOK

\* A role returns over the program's own byte.
LEMMA ReplayPassKeeps ==
  ASSUME IInv, ReconstructionOK, phase = "reconstructing", NEW r \in Role, PassReturn(r)
  PROVE  ReconstructionOK'
<1> PICK f : f = frames[r]
  OBVIOUS
<1> PICK n : n = Len(f)
  OBVIOUS
<1> PICK g : g = frames'[r]
  OBVIOUS
<1>1. /\ Returning(r) /\ byte[Rip(r)] = Code /\ Advance(r)
      /\ frames' = [frames EXCEPT ![r] = Pop(@)]
      /\ UNCHANGED <<breakpointVars, phase, id, stopped, recorded, log,
                     pending_replay_end_events, snaps>>
  BY DEF PassReturn
<1>2. Progress /\ LogTyped /\ FramesOK /\ FramesNested /\ BytesOK /\ LogOK /\ IdsOK
  BY DEF IInv, ReconstructionOK
<1>3. /\ f \in Seq(Nat) /\ n \in Nat /\ n >= 1 /\ Rip(r) = Site(r, f[n])
      /\ done[r] \in Nat /\ done'[r] = done[r] + 1 /\ done[r] + 1 \notin CallsOf(r)
      /\ \A q \in Role : q # r => done'[q] = done[q] /\ frames'[q] = frames[q]
      /\ \A q \in Role : done[q] \in Nat /\ done'[q] \in Nat /\ done[q] <= done'[q]
      /\ g = Pop(f) /\ f # <<>>
  <2>1. /\ f \in Seq(Nat) /\ n \in Nat /\ n >= 1 /\ Rip(r) = Site(r, f[n])
    BY <1>1, <1>2, RipOfReturn
  <2>2. /\ done \in [Role -> Nat] /\ frames \in [Role -> Seq(Nat)]
        /\ done' = [done EXCEPT ![r] = @ + 1] /\ done[r] + 1 \notin CallsOf(r)
    BY <1>1, <1>2, ReturnIsNoCall DEF Progress, Advance
  <2>3. g = Pop(f) /\ f # <<>>
    BY <1>1, <2>2 DEF Returning
  <2> QED
    BY <1>1, <2>1, <2>2, <2>3
<1>4. Len(g) = n - 1 /\ \A k \in 1..(n - 1) : g[k] = f[k]
  <2>1. f \in Seq(Nat) /\ f # <<>> /\ g = Pop(f)
    BY <1>3
  <2>2. Len(Pop(f)) = Len(f) - 1 /\ \A k \in 1..(Len(f) - 1) : Pop(f)[k] = f[k]
    BY <2>1, PopFrame
  <2> QED
    BY <2>1, <2>2
<1>5. FramesOK' /\ FramesNested' /\ frames' \in [Role -> Seq(Nat)]
  <2>1. g \in Seq(Nat)
    BY <1>3, PopFrame
  <2>2. frames' \in [Role -> Seq(Nat)]
    BY <1>1, <1>3, <2>1 DEF Progress, IInv
  <2> QED
    BY <1>1, <1>2, <2>2, ReturnKeepsFrames, NestedAfterReturn
<1>6. /\ SameEvents /\ event_log' = event_log /\ id' = id /\ byte' = byte /\ recorded' = recorded
      /\ pending_replay_end_events' = pending_replay_end_events
      /\ Tracked' = Tracked /\ BytesOK' /\ \A a : HoldersOf(a)' = HoldersOf(a)
  BY <1>1, <1>2 DEF SameEvents, log, breakpointVars, tables, Tracked, BytesOK, HoldersOf
<1>7. LogOK'
  BY <1>2, <1>6, LogStays
<1>8. \A q \in Role : SitesBegun(q)' = SitesBegun(q)
  <2>1. \A q \in Role : CallsOf(q) \cap 1..done'[q] = CallsOf(q) \cap 1..done[q]
    <3>1. CallsOf(r) \cap 1..(done[r] + 1) = CallsOf(r) \cap 1..done[r]
      BY <1>3
    <3> QED
      BY <3>1, <1>3
  <2> QED
    BY <2>1 DEF SitesBegun
<1>9. ASSUME NEW q \in Role, q # r, Good(q)' PROVE RoleOK(q)'
  <2>1. RoleOK(q)
    BY <1>2, <1>3, <1>6, <1>9, GoodBefore DEF ReconstructionOK
  <2> QED
    BY <2>1, <1>2, <1>3, <1>6, <1>9, RoleStays
<1>10. ASSUME Good(r)' PROVE RoleOK(r)'
  <2>1. RoleOK(r)
    BY <1>2, <1>3, <1>6, <1>10, GoodBefore DEF ReconstructionOK
  <2>2. Waits(r) = n - 1
    BY <1>1 DEF Waits
  <2>3. Waits(r)' = n - 1
    <3>1. ASSUME Returning(r)' PROVE byte'[Rip(r)'] # Code
      <4>1. /\ Len(g) >= 1 /\ Rip(r)' = Site(r, g[Len(g)])
        <5>1. ~IsCall(r, done'[r] + 1) /\ g # <<>>
          BY <3>1 DEF Returning
        <5>2. Rip(r)' = Site(r, Top(g))
          BY <5>1 DEF Rip, Calling
        <5>3. g \in Seq(Nat)
          BY <1>3, PopFrame
        <5> QED
          BY <5>1, <5>2, <5>3, EmptySeq DEF Top
      <4>2. n - 1 \in 1..(n - 1) /\ Rip(r)' = Site(r, f[n - 1])
        BY <4>1, <1>3, <1>4
      <4>3. Rip(r)' \in Waiting(r)
        BY <4>2, <2>2 DEF Waiting
      <4>4. Rip(r)' \in SitesBegun(r)
        BY <4>3, <1>2, SitesOfFrames
      <4>5. byte[Rip(r)'] = int3
        BY <2>1, <4>3, <4>4 DEF RoleOK, HoldsOwn
      <4> QED
        BY <4>5, <1>6 DEF Code, int3
    <3> QED
      BY <3>1, <1>4 DEF Waits
  <2>4. Waiting(r)' = Waiting(r)
    BY <2>2, <2>3, <1>4 DEF Waiting
  <2>5. ReplayedOK(r)'
    <3>1. Ordinal(r, done'[r] + 1) = Ordinal(r, done[r] + 1)
      <4> PICK i : i = done[r] + 1
        OBVIOUS
      <4>1. i \in Nat /\ i >= 1 /\ i \notin CallsOf(r) /\ done'[r] = i
        BY <1>3
      <4>2. Ordinal(r, i + 1) = Ordinal(r, i)
        BY <4>1, OrdinalNext
      <4> QED
        BY <4>1, <4>2
    <3> QED
      BY <2>1, <3>1, <1>6 DEF RoleOK, ReplayedOK
  <2>6. StackOK(r)'
    BY <2>1, <2>2, <2>3, <1>4, <1>6 DEF RoleOK, StackOK
  <2>7. SitesDiffer(r)'
    <3>1. \A k \in 1..(n - 1) : k \in 1..n
      BY <1>3
    <3> QED
      BY <2>1, <3>1, <1>4 DEF RoleOK, SitesDiffer
  <2>8. HoldsOwn(r)'
    BY <2>1, <2>4, <1>6, <1>8 DEF RoleOK, HoldsOwn
  <2> QED
    BY <2>5, <2>6, <2>7, <2>8 DEF RoleOK
<1> QED
  BY <1>5, <1>6, <1>7, <1>8, <1>9, <1>10 DEF ReconstructionOK

\* The debugger handles the return of a role.
LEMMA ReplayEndKeeps ==
  ASSUME IInv, ReconstructionOK, phase = "reconstructing", NEW r \in Role, stopped[r],
         GetBreakpointType(Rip(r), id[r]) = "Return", ReplayEventEnd(r), recorded' = recorded
  PROVE  ReconstructionOK'
<1> PICK t : t = id[r]
  OBVIOUS
<1> PICK s : s = Rip(r)
  OBVIOUS
<1> PICK f : f = frames[r]
  OBVIOUS
<1> PICK n : n = Len(f)
  OBVIOUS
<1> DEFINE stacks == pending_replay_end_events
<1>1. UNCHANGED <<phase, done, frames, id, log>>
  BY DEF ReplayEventEnd
<1>2. CASE stacks[t] = <<>>
  <2>1. UNCHANGED <<breakpointVars, stacks>>
    BY <1>2 DEF ReplayEventEnd
  <2> QED
    BY <1>1, <2>1, ReconstructionStays DEF log
<1>3. CASE stacks[t] # <<>>
  <2>1. stacks' = [stacks EXCEPT ![t] = Pop(@)] /\ RemoveBreakpoints({s}, t)
    BY <1>3 DEF ReplayEventEnd, PopEvent
  <2>2. /\ Progress /\ LogTyped /\ TablesOK /\ FramesOK /\ BytesOK /\ LogOK /\ IdsOK
        /\ stacks \in [Thread -> Seq(Nat)]
    BY DEF IInv, ReconstructionOK
  <2>3. s \in Tracked /\ t \in Holders(s) /\ s \notin EntryPoints
    BY <2>2, ReturnIsHeld DEF GetBreakpointType, TablesOK
  <2>4. Returning(r) /\ id[r] # NoId
    <3>1. Calling(r) \/ Returning(r)
      BY <2>2 DEF IdsOK
    <3>2. ~Calling(r)
      BY <2>2, <2>3, RipOfCall DEF Progress
    <3> QED
      BY <3>1, <3>2 DEF Returning, HasNext
  <2>5. /\ t \in Thread /\ f \in Seq(Nat) /\ n \in Nat /\ n >= 1 /\ s = Site(r, f[n])
        /\ s \in Address \ EntryPoints /\ s \in SitesBegun(r)
    <3>1. t \in Thread
      BY <2>2, <2>4 DEF Progress
    <3>2. f \in Seq(Nat) /\ n \in Nat /\ n >= 1 /\ s = Site(r, f[n]) /\ s \in SitesBegun(r)
      BY <2>2, <2>4, SitesOfFrames
    <3> QED
      BY <3>1, <3>2, <2>2, <2>4, RipOfReturn
  <2>6. /\ BytesOK'
        /\ Tracked' \subseteq Tracked
        /\ HoldersOf(s)' = EraseFirst(HoldersOf(s), t)
        /\ \A a : a # s => HoldersOf(a)' = HoldersOf(a)
        /\ byte' = [byte EXCEPT ![s] = Code]
    BY <2>1, <2>2, <2>3, <2>5, RemoveShape
  <2>7. byte'[s] = Code /\ \A a : a # s => byte'[a] = byte[a]
    <3>1. byte \in [Address -> Byte]
      BY <2>2 DEF TablesOK
    <3> QED
      BY <3>1, <2>5, <2>6
  <2>8. /\ SameEvents /\ event_log' = event_log
        /\ \A q \in Role : SitesBegun(q)' = SitesBegun(q)
        /\ \A q \in Role : done[q] \in Nat /\ done'[q] \in Nat /\ done[q] <= done'[q]
    BY <1>1, <2>2 DEF SameEvents, log, SitesBegun, Progress
  <2>9. LogOK'
    BY <2>2, <2>8, LogStays
  <2>10. /\ stacks' \in [Thread -> Seq(Nat)] /\ stacks'[t] = Pop(stacks[t])
         /\ \A u \in Thread : u # t => stacks'[u] = stacks[u]
    <3>1. Pop(stacks[t]) \in Seq(Nat)
      BY <1>3, <2>2, <2>5, PopFrame
    <3> QED
      BY <3>1, <2>1, <2>2, <2>5
  <2>11. ASSUME NEW q \in Role, q # r, Good(q)' PROVE RoleOK(q)'
    <3>1. RoleOK(q)
      BY <1>1, <2>2, <2>8, <2>11, GoodBefore DEF ReconstructionOK
    <3>2. id[q] \in Thread /\ id[q] # t
      <4>1. id[q] = OriginalId[q]
        BY <1>1, <2>11 DEF Good, Covered
      <4>2. id[q] \in Thread
        BY <4>1, ReplayAssumption
      <4> QED
        BY <4>2, <2>2, <2>4, <2>11 DEF IdsOK
    <3>3. s \notin SitesBegun(q)
      BY <2>5, <2>8, <2>11 DEF Good, OwnSites
    <3>4. \A a \in SitesBegun(q) : byte'[a] = byte[a] /\ HoldersOf(a)' = HoldersOf(a)
      BY <3>3, <2>6, <2>7
    <3> QED
      BY <3>1, <3>2, <3>4, <1>1, <2>2, <2>8, <2>10, RoleStays
  <2>12. ASSUME Good(r)' PROVE RoleOK(r)'
    <3>1. RoleOK(r)
      BY <1>1, <2>2, <2>8, <2>12, GoodBefore DEF ReconstructionOK
    <3>2. s \in Waiting(r) /\ byte[s] = int3 /\ HoldersOf(s) = <<t>>
      <4>1. HoldersOf(s) # <<>>
        <5>1. HoldersOf(s) = address_to_bp[s].holders
          BY <2>3, <2>5 DEF HoldersOf
        <5>2. Len(<<>>) = 0 /\ 1..0 = {}
          OBVIOUS
        <5> QED
          BY <5>1, <5>2, <2>3 DEF Holders
      <4> QED
        BY <4>1, <3>1, <2>5 DEF RoleOK, HoldsOwn
    <3>3. Waits(r) = n
      BY <3>2 DEF Waits, Code, int3
    <3>4. Waits(r)' = n - 1
      <4>1. Returning(r)' /\ Rip(r)' = s
        BY <1>1, <2>4 DEF Returning, HasNext, Rip, Calling
      <4> QED
        BY <4>1, <1>1, <2>7 DEF Waits
    <3>5. HoldersOf(s)' = <<>>
      <4>1. <<t>> \in Seq(Thread) /\ Len(<<t>>) = 1 /\ <<t>>[1] = t /\ 1 \in 1..Len(<<t>>)
        BY <2>5
      <4>2. EraseFirst(<<t>>, t) \in Seq(Thread) /\ Len(EraseFirst(<<t>>, t)) = 1 - 1
        BY <4>1, EraseFirstShortens
      <4> QED
        BY <4>2, <2>6, <3>2, EmptySeq
    <3>6. ReplayedOK(r)'
      BY <3>1, <1>1, <2>8 DEF RoleOK, ReplayedOK
    <3>7. StackOK(r)'
      <4>1. /\ Len(stacks[t]) = n
            /\ \A k \in 1..n : /\ stacks[t][k] \in DOMAIN event_log
                               /\ event_log[stacks[t][k]].thread_seq = Ordinal(r, f[k])
        BY <3>1, <3>3 DEF RoleOK, StackOK
      <4>2. /\ stacks'[t] \in Seq(Nat) /\ Len(stacks'[t]) = n - 1
            /\ \A k \in 1..(n - 1) : stacks'[t][k] = stacks[t][k] /\ k \in 1..n
        <5>1. /\ Pop(stacks[t]) \in Seq(Nat) /\ Len(Pop(stacks[t])) = n - 1
              /\ \A k \in 1..(n - 1) : Pop(stacks[t])[k] = stacks[t][k]
          <6>1. stacks[t] \in Seq(Nat) /\ stacks[t] # <<>>
            BY <1>3, <2>2, <2>5
          <6> PICK st : st = stacks[t]
            OBVIOUS
          <6>2. /\ Pop(st) \in Seq(Nat) /\ Len(Pop(st)) = Len(st) - 1
                /\ \A k \in 1..(Len(st) - 1) : Pop(st)[k] = st[k]
            BY <6>1, PopFrame
          <6>3. Len(st) = n
            BY <4>1
          <6> QED
            BY <6>2, <6>3
        <5> QED
          BY <5>1, <2>5, <2>10
      <4>3. id'[r] = t /\ frames'[r] = f
        BY <1>1
      <4> QED
        BY <4>1, <4>2, <4>3, <3>4, <2>8 DEF StackOK
    <3>8. SitesDiffer(r)'
      BY <3>1, <1>1 DEF RoleOK, SitesDiffer
    <3>9. \A a \in SitesBegun(r) : a \in Waiting(r)' <=> a \in Waiting(r) /\ a # s
      <4>1. \A k \in 1..n : k \in 1..(n - 1) <=> k # n
        BY <2>5
      <4>2. \A k \in 1..n : k # n => k < n
        BY <2>5
      <4>3. n \in 1..n
        BY <2>5
      <4>4. \A k \in 1..n : Site(r, f[k]) = s <=> k = n
        BY <3>1, <4>2, <4>3, <2>5 DEF RoleOK, SitesDiffer
      <4>5. Waiting(r) = {Site(r, f[k]) : k \in 1..n} /\ Waiting(r)' = {Site(r, f[k]) : k \in 1..(n - 1)}
        BY <3>3, <3>4, <1>1 DEF Waiting
      <4>6. \A k \in 1..(n - 1) : k \in 1..n
        BY <2>5
      <4> QED
        BY <4>1, <4>4, <4>5, <4>6
    <3>10. HoldsOwn(r)'
      <4>1. ASSUME NEW a \in SitesBegun(r)
            PROVE  IF a \in Waiting(r)' THEN byte'[a] = int3 /\ HoldersOf(a)' = <<t>>
                                        ELSE byte'[a] = Code /\ HoldersOf(a)' = <<>>
        <5>1. CASE a = s
          BY <5>1, <3>5, <3>9, <2>7
        <5>2. CASE a # s
          BY <5>2, <3>1, <3>9, <2>6, <2>7 DEF RoleOK, HoldsOwn
        <5> QED
          BY <5>1, <5>2
      <4> QED
        BY <4>1, <1>1, <2>8 DEF HoldsOwn
    <3> QED
      BY <3>6, <3>7, <3>8, <3>10 DEF RoleOK
  <2>13. FramesNested'
    BY <1>1 DEF ReconstructionOK, FramesNested
  <2>14. (\A a \in Tracked \ EntryPoints : a \in recorded.held \/ \E q \in Role : a \in SitesBegun(q))'
    BY <2>6, <2>8 DEF ReconstructionOK
  <2>15. (\A u \in Thread : (\A q \in Role : id[q] # u) => stacks[u] = <<>>)'
    BY <1>1, <2>10 DEF ReconstructionOK
  <2> QED
    BY <2>6, <2>9, <2>10, <2>11, <2>12, <2>13, <2>14, <2>15 DEF ReconstructionOK
<1> QED
  BY <1>2, <1>3

\* The event that answers a call of a role whose calls were logged is the one
\* this call had in the recording.
LEMMA AnswerIsOwn ==
  ASSUME LogTyped, LogOK, NEW r \in Role, ReplayedOK(r), id[r] = OriginalId[r], Calling(r),
         NEW i \in CallsOf(r), i = done[r] + 1, Rip(r) = Function(r, i), Logged(r, i),
         NEW idx, idx \in Matches(Rip(r), id[r]), \A j \in Matches(Rip(r), id[r]) : idx <= j
  PROVE  event_log[idx].thread_seq = Ordinal(r, i)
<1> PICK t : t = id[r]
  OBVIOUS
<1>1. DOMAIN event_log \in SUBSET Nat /\ idx \in DOMAIN event_log
  BY EventsTyped DEF Matches
<1>2. PICK k \in DOMAIN event_log : event_log[k].thread = t /\ event_log[k].thread_seq = Ordinal(r, i)
  BY DEF Logged
<1>3. event_log[k].event_rip = Function(r, i)
  <2>1. PICK q \in Role : \E j \in CallsOf(q) : IsEventOf(event_log[k], q, j)
    BY DEF LogOK
  <2>2. PICK j \in CallsOf(q) : IsEventOf(event_log[k], q, j)
    BY <2>1
  <2>3. q = r
    BY <1>2, <2>2, ReplayAssumption DEF IsEventOf
  <2>4. j = i
    BY <1>2, <2>2, <2>3, OrdinalUnique DEF IsEventOf
  <2> QED
    BY <2>2, <2>3, <2>4 DEF IsEventOf
<1>4. \A j \in DOMAIN event_log : event_log[j].thread_seq \in Nat /\ event_log[j].thread_seq \in Int
  BY EventsTyped
<1>5. ~event_log[k].replayed
  BY <1>2, <1>4 DEF ReplayedOK
<1>6. k \in Matches(Rip(r), id[r])
  BY <1>2, <1>3, <1>5 DEF Matches
<1>7. event_log[idx].thread = t /\ ~(event_log[idx].thread_seq < Ordinal(r, i))
  BY <1>1 DEF Matches, ReplayedOK
<1>8. idx <= k
  BY <1>6
<1>9. idx < k => event_log[idx].thread_seq < event_log[k].thread_seq
  BY <1>1, <1>2, <1>7 DEF LogOK
<1>10. idx = k
  BY <1>1, <1>2, <1>7, <1>8, <1>9
<1> QED
  BY <1>2, <1>10

LEMMA ReplayEventKeeps ==
  ASSUME IInv, ReconstructionOK, phase = "reconstructing", NEW r \in Role, stopped[r],
         GetBreakpointType(Rip(r), id[r]) = "Permanent", ReplayEvent(r), recorded' = recorded
  PROVE  ReconstructionOK'
<1> PICK t : t = id[r]
  OBVIOUS
<1> PICK i : i = done[r] + 1
  OBVIOUS
<1> PICK s : s = Site(r, i)
  OBVIOUS
<1> PICK f : f = frames[r]
  OBVIOUS
<1> PICK n : n = Len(f)
  OBVIOUS
<1> PICK idx : idx = First(Matches(Rip(r), t))
  OBVIOUS
<1> DEFINE stacks == pending_replay_end_events
<1>1. /\ Matches(Rip(r), t) # {}
      /\ event_log' = [event_log EXCEPT ![idx].replayed = TRUE]
      /\ stacks' = [stacks EXCEPT ![t] = Append(@, idx)]
      /\ CreateHeldBreakpoints({s}, t, "Return")
  BY DEF ReplayEvent
<1>2. PICK new \in NewIds(r) : Perform(r, new)
  BY DEF ReplayEvent
<1>3. /\ Progress /\ LogTyped /\ TablesOK /\ FramesOK /\ FramesNested /\ BytesOK /\ LogOK
      /\ IdsOK /\ EventsReplayed /\ stacks \in [Thread -> Seq(Nat)]
  BY DEF IInv, ReconstructionOK
<1>4. Calling(r)
  <2>1. Rip(r) \in EntryPoints
    BY <1>3, PermanentIsEntry
  <2>2. Calling(r) \/ Returning(r)
    BY <1>3 DEF IdsOK
  <2> QED
    BY <2>1, <2>2, <1>3, RipOfReturn
<1>5. /\ i \in CallsOf(r) /\ Rip(r) = Function(r, i) /\ s \in Address \ EntryPoints /\ t \in Thread
      /\ done[r] \in Nat /\ i \in Nat /\ NoId \notin Thread /\ i >= 1
  <2>1. done[r] \in Nat /\ t \in Thread /\ NoId \notin Thread
    BY <1>3, <1>4, ReplayAssumption DEF Progress, Calling, HasNext
  <2> QED
    BY <2>1, <1>4, RipOfCall
<1>6. /\ Advance(r) /\ frames' = [frames EXCEPT ![r] = Append(@, i)]
      /\ done'[r] = i
      /\ \A q \in Role : q # r => done'[q] = done[q] /\ frames'[q] = frames[q]
      /\ \A q \in Role : done[q] \in Nat /\ done'[q] \in Nat /\ done[q] <= done'[q]
  <2>1. Advance(r) /\ frames' = [frames EXCEPT ![r] = Append(@, i)]
    BY <1>2 DEF Perform
  <2>2. done' = [done EXCEPT ![r] = @ + 1] /\ done \in [Role -> Nat] /\ frames \in [Role -> Seq(Nat)]
    BY <2>1, <1>3 DEF Advance, Progress
  <2> QED
    BY <2>1, <2>2
<1>7. /\ f \in Seq(Nat) /\ n \in Nat /\ frames'[r] = Append(f, i)
      /\ Len(Append(f, i)) = n + 1
      /\ \A k \in 1..n : Append(f, i)[k] = f[k]
      /\ Append(f, i)[n + 1] = i
  <2>1. frames \in [Role -> Seq(Nat)] /\ f \in Seq(Nat)
    BY <1>3 DEF Progress
  <2> QED
    BY <2>1, <1>5, <1>6, PushFrame
<1>8. FramesOK' /\ FramesNested' /\ frames' \in [Role -> Seq(Nat)]
  BY <1>3, <1>4, <1>6, CallKeepsFrames, NestedAfterCall
\* The ids.
<1>9. \/ id' = id
      \/ \E c \in Role \ {r} :
            /\ id[c] = NoId /\ done[c] = 0 /\ new \in Thread
            /\ \A q \in Role : id[q] # new
            /\ id' = [id EXCEPT ![c] = new]
  BY <1>2, <1>3, <1>4, PerformGivesIds
<1>10. /\ id'[r] = t
       /\ \A q \in Role : id[q] # NoId => id'[q] = id[q]
       /\ \A q \in Role : id'[q] # id[q] => /\ id'[q] \in Thread /\ \A p \in Role : id[p] # id'[q]
                                            /\ done'[q] = 0 /\ q # r
  <2>1. id \in [Role -> Thread \cup {NoId}]
    BY <1>3 DEF Progress
  <2> QED
    BY <2>1, <1>5, <1>6, <1>9
\* The event.
<1>11. /\ idx \in Matches(Rip(r), t) /\ idx \in DOMAIN event_log /\ idx \in Nat
       /\ \A j \in Matches(Rip(r), t) : idx <= j
       /\ event_log[idx].thread = t
  <2>1. Matches(Rip(r), t) \subseteq DOMAIN event_log /\ DOMAIN event_log \in SUBSET Nat
    BY <1>3, FiniteEvents DEF Matches
  <2>2. \E k \in Matches(Rip(r), t) : \A j \in Matches(Rip(r), t) : k <= j
    BY <1>1, <2>1, LeastMember
  <2>3. idx \in Matches(Rip(r), t) /\ \A j \in Matches(Rip(r), t) : idx <= j
    BY <2>2 DEF First
  <2> QED
    BY <2>1, <2>3 DEF Matches
<1>12. /\ SameEvents
       /\ \A k \in DOMAIN event_log : event_log'[k].replayed = IF k = idx THEN TRUE ELSE event_log[k].replayed
  <2>1. \A k \in DOMAIN event_log : event_log[k] \in Event
    BY <1>3, EventsTyped
  <2>2. /\ DOMAIN event_log' = DOMAIN event_log
        /\ \A k \in DOMAIN event_log : k # idx => event_log'[k] = event_log[k]
        /\ event_log'[idx] = [event_log[idx] EXCEPT !.replayed = TRUE]
    BY <1>1, <1>11
  <2>3. /\ event_log'[idx].thread = event_log[idx].thread
        /\ event_log'[idx].thread_seq = event_log[idx].thread_seq
        /\ event_log'[idx].event_rip = event_log[idx].event_rip
        /\ event_log'[idx].replayed = TRUE
    BY <2>1, <2>2, <1>11 DEF Event
  <2> QED
    BY <2>2, <2>3 DEF SameEvents
<1>13. LogOK' /\ \A q, j : Logged(q, j)' <=> Logged(q, j)
  BY <1>3, <1>12, LogStays
\* The breakpoint at the return address, and the stack.
<1>14. /\ BytesOK'
       /\ Tracked' = Tracked \cup {s}
       /\ HoldersOf(s)' = Append(HoldersOf(s), t)
       /\ \A a : a # s => HoldersOf(a)' = HoldersOf(a)
       /\ byte' = IF s \in Tracked THEN byte ELSE [byte EXCEPT ![s] = int3]
       /\ byte \in [Address -> Byte]
  BY <1>1, <1>3, <1>5, CreateShape DEF TablesOK
<1>15. \A a : a # s => byte'[a] = byte[a]
  BY <1>5, <1>14
<1>16. /\ stacks' \in [Thread -> Seq(Nat)] /\ stacks'[t] = Append(stacks[t], idx)
       /\ \A u \in Thread : u # t => stacks'[u] = stacks[u]
       /\ stacks[t] \in Seq(Nat)
  BY <1>1, <1>3, <1>5, <1>11
\* The return addresses used so far.
<1>17. /\ \A q \in Role : q # r => SitesBegun(q)' = SitesBegun(q)
       /\ SitesBegun(r)' = SitesBegun(r) \cup {s}
  <2>1. \A q \in Role : q # r => SitesBegun(q)' = SitesBegun(q)
    BY <1>6 DEF SitesBegun
  <2>2. CallsOf(r) \cap 1..done'[r] = (CallsOf(r) \cap 1..done[r]) \cup {i}
    <3>1. 1..i = (1..done[r]) \cup {i}
      BY <1>5
    <3> QED
      BY <3>1, <1>5, <1>6
  <2> QED
    BY <2>1, <2>2 DEF SitesBegun
\* Another role.
<1>18. ASSUME NEW q \in Role, q # r, Good(q)' PROVE RoleOK(q)'
  <2>1. id'[q] = OriginalId[q] /\ id'[q] \in Thread
    BY <1>18, ReplayAssumption DEF Good, Covered
  <2>2. CASE id'[q] = id[q]
    <3>1. RoleOK(q)
      BY <1>3, <1>6, <1>12, <1>18, <2>2, GoodBefore DEF ReconstructionOK
    <3>2. id[q] \in Thread /\ id[q] # t
      BY <2>1, <2>2, <1>3, <1>5, <1>18 DEF IdsOK
    <3>3. s \notin SitesBegun(q)
      BY <1>17, <1>18 DEF Good, OwnSites
    <3>4. \A a \in SitesBegun(q) : byte'[a] = byte[a] /\ HoldersOf(a)' = HoldersOf(a)
      BY <3>3, <1>14, <1>15
    <3>5. \A k \in DOMAIN event_log : event_log[k].thread = id[q] =>
              event_log'[k].replayed = event_log[k].replayed
      BY <3>2, <1>11, <1>12
    <3> QED
      BY <3>1, <3>2, <3>4, <3>5, <2>2, <1>3, <1>6, <1>12, <1>16, <1>18, RoleStays
  <2>3. CASE id'[q] # id[q]
    <3> PICK u : u = id'[q]
      OBVIOUS
    <3>1. u \in Thread /\ u # t /\ (\A p \in Role : id[p] # u) /\ done'[q] = 0
      BY <2>3, <1>10
    <3>2. frames'[q] = <<>>
      BY <3>1, <1>8, NestingStep DEF FramesNested
    <3>3. stacks'[u] = <<>>
      BY <3>1, <1>16 DEF ReconstructionOK
    <3>4. Waits(q)' = 0
      <4>1. Len(<<>>) = 0
        OBVIOUS
      <4> QED
        BY <3>2, <4>1 DEF Waits, Returning
    <3>5. ReplayedOK(q)'
      <4>1. Ordinal(q, done'[q] + 1) = 0
        <5>1. done'[q] + 1 = 1
          BY <3>1
        <5>2. 0 \in Nat => Ordinal(q, 1) = 0
          BY OrdinalNext
        <5> QED
          BY <5>1, <5>2
      <4>2. ASSUME NEW k \in DOMAIN event_log, event_log[k].thread = u
            PROVE  ~event_log[k].replayed /\ event_log[k].thread_seq \in Nat
        <5>1. event_log[k] \in Event
          BY <1>3, EventsTyped
        <5>2. event_log[k].event_rip \in EntryPoints /\ event_log[k].thread_seq \in Nat
          BY <5>1 DEF Event
        <5>3. EventsOf(u, event_log[k].event_rip) \cap Replayed = {}
          BY <5>2, <3>1, <1>3 DEF EventsReplayed
        <5> QED
          BY <5>2, <5>3, <4>2 DEF EventsOf, Replayed
      <4>3. ASSUME NEW k \in DOMAIN event_log, event_log'[k].thread = u
            PROVE  ~event_log'[k].replayed /\ ~(event_log'[k].thread_seq < 0)
        <5>1. event_log[k].thread = u /\ k # idx
          BY <4>3, <3>1, <1>11, <1>12 DEF SameEvents
        <5>2. ~event_log'[k].replayed /\ event_log'[k].thread_seq = event_log[k].thread_seq
          BY <5>1, <4>2, <4>3, <1>12 DEF SameEvents
        <5>3. event_log[k].thread_seq \in Nat
          BY <5>1, <4>2, <4>3, <1>12 DEF SameEvents
        <5>4. ~(event_log[k].thread_seq < 0)
          BY <5>3
        <5> QED
          BY <5>2, <5>4
      <4> QED
        BY <4>1, <4>3, <1>12 DEF ReplayedOK, SameEvents
    <3>6. StackOK(q)'
      <4>1. Len(<<>>) = 0 /\ 1..0 = {} /\ <<>> \in Seq(Nat)
        OBVIOUS
      <4> QED
        BY <3>3, <3>4, <4>1 DEF StackOK
    <3>7. SitesDiffer(q)'
      <4>1. Len(<<>>) = 0 /\ 1..0 = {}
        OBVIOUS
      <4> QED
        BY <3>2, <4>1 DEF SitesDiffer
    <3>8. HoldsOwn(q)'
      <4>1. 1..0 = {}
        OBVIOUS
      <4> QED
        BY <3>1, <4>1 DEF HoldsOwn, SitesBegun
    <3> QED
      BY <3>5, <3>6, <3>7, <3>8 DEF RoleOK
  <2> QED
    BY <2>2, <2>3
\* The role itself.
<1>19. ASSUME Good(r)' PROVE RoleOK(r)'
  <2>1. RoleOK(r)
    BY <1>3, <1>6, <1>10, <1>12, <1>19, GoodBefore DEF ReconstructionOK
  <2>2. t = OriginalId[r] /\ \A j \in CallsOf(r) : j <= i => Logged(r, j)
    <3>1. /\ id'[r] = OriginalId[r]
          /\ \A j \in CallsOf(r) \cap 1..done'[r] : Logged(r, j)'
      BY <1>19 DEF Good, Covered
    <3>2. ASSUME NEW j \in CallsOf(r), j <= i PROVE j \in CallsOf(r) \cap 1..done'[r]
      BY <3>2, <1>5, <1>6, ScriptTyped DEF CallsOf
    <3> QED
      BY <3>1, <3>2, <1>10, <1>13
  <2>3. event_log[idx].thread_seq = Ordinal(r, i)
    <3>1. Logged(r, i)
      BY <2>2, <1>5
    <3> QED
      BY <3>1, <2>1, <2>2, <1>3, <1>4, <1>5, <1>11, AnswerIsOwn DEF RoleOK
  <2>4. ReplayedOK(r)'
    <3>1. Ordinal(r, i + 1) = Ordinal(r, i) + 1 /\ Ordinal(r, i) \in Nat
      <4>1. Ordinal(r, i + 1) = Ordinal(r, i) + 1
        BY <1>5, OrdinalNext
      <4>2. Ordinal(r, i) \in Nat
        BY <2>3, <1>3, <1>11, EventsTyped
      <4> QED
        BY <4>1, <4>2
    <3>2. ASSUME NEW k \in DOMAIN event_log, event_log[k].thread = t
          PROVE  event_log'[k].replayed <=> event_log[k].thread_seq < Ordinal(r, i + 1)
      <4>1. event_log[k].replayed <=> event_log[k].thread_seq < Ordinal(r, i)
        BY <2>1, <3>2 DEF RoleOK, ReplayedOK
      <4>2. event_log[k].thread_seq \in Nat
        BY <1>3, EventsTyped
      <4>3. CASE k = idx
        <5>1. Ordinal(r, i) < Ordinal(r, i + 1)
          BY <3>1
        <5> QED
          BY <5>1, <4>3, <2>3, <1>12
      <4>4. CASE k # idx
        <5>1. event_log[k].thread_seq # Ordinal(r, i)
          <6>1. k \in Nat /\ (k < idx \/ idx < k)
            <7>1. k \in Nat
              BY <1>3, EventsTyped
            <7> QED
              BY <7>1, <4>4, <1>11
          <6>2. event_log[k].thread_seq < event_log[idx].thread_seq
                \/ event_log[idx].thread_seq < event_log[k].thread_seq
            BY <6>1, <3>2, <1>3, <1>11 DEF LogOK
          <6> QED
            BY <6>2, <4>2, <2>3
        <5>2. event_log[k].thread_seq < Ordinal(r, i + 1) <=> event_log[k].thread_seq < Ordinal(r, i)
          BY <5>1, <4>2, <3>1
        <5>3. event_log'[k].replayed = event_log[k].replayed
          BY <4>4, <1>12
        <5> QED
          BY <5>2, <5>3, <4>1
      <4> QED
        BY <4>3, <4>4
    <3> QED
      BY <3>2, <1>6, <1>10, <1>12 DEF ReplayedOK, SameEvents
  <2>5. \A k \in 1..n : /\ f[k] \in CallsOf(r) /\ f[k] < i
                        /\ Site(r, f[k]) \in SitesBegun(r)
    <3>1. \A k \in 1..n : /\ f[k] \in CallsOf(r) /\ f[k] <= done[r]
                          /\ Site(r, f[k]) \in SitesBegun(r)
      BY <1>3, SitesOfFrames
    <3>2. \A j \in CallsOf(r) : j \in Nat
      BY ScriptTyped DEF CallsOf
    <3>3. \A j \in Nat : j <= done[r] => j < i
      BY <1>5
    <3> QED
      BY <3>1, <3>2, <3>3
  <2>6. ASSUME NEW k \in 1..n PROVE Site(r, f[k]) # s
    <3>1. Nesting(r)[i - 1] = f
      <4>1. i - 1 = done[r]
        BY <1>5
      <4> QED
        BY <4>1, <1>3 DEF FramesNested
    <3>2. Site(r, f[k]) = s => Recursive(r, f[k], i)
      BY <3>1, <2>5, <1>5 DEF Recursive
    <3>3. ~Recursive(r, f[k], i)
      BY <2>2, <2>5, <1>3, <1>5 DEF LogOK
    <3> QED
      BY <3>2, <3>3
  <2>7. Waits(r) = n
    BY <1>4 DEF Waits, Returning, Calling
  <2>8. s \notin Waiting(r)
    BY <2>6, <2>7 DEF Waiting
  <2>9. s \notin Tracked
    <3>1. CASE s \in SitesBegun(r)
      <4>1. HoldersOf(s) = <<>>
        BY <3>1, <2>1, <2>8 DEF RoleOK, HoldsOwn
      <4>2. s \in Tracked => Len(HoldersOf(s)) > 0
        BY <1>3, <1>5 DEF BytesOK, HoldersOf
      <4>3. Len(<<>>) = 0
        OBVIOUS
      <4> QED
        BY <4>1, <4>2, <4>3
    <3>2. CASE s \notin SitesBegun(r)
      <4>1. s \notin recorded.held /\ \A q \in Role : q # r => s \notin SitesBegun(q)
        BY <1>17, <1>19 DEF Good, OwnSites
      <4> QED
        BY <4>1, <3>2, <1>5 DEF ReconstructionOK
    <3> QED
      BY <3>1, <3>2
  <2>10. byte'[s] = int3 /\ HoldersOf(s)' = <<t>>
    <3>1. HoldersOf(s) = <<>>
      BY <2>9 DEF HoldersOf
    <3>2. byte'[s] = int3
      BY <2>9, <1>5, <1>14
    <3>3. Append(<<>>, t) = <<t>>
      OBVIOUS
    <3> QED
      BY <3>1, <3>2, <3>3, <1>14
  <2> PICK g : g = Append(f, i)
    OBVIOUS
  <2>11. frames'[r] = g /\ Len(g) = n + 1 /\ (\A k \in 1..n : g[k] = f[k]) /\ g[n + 1] = i
    BY <1>7
  <2>12. Waits(r)' = n + 1
    <3>1. Returning(r)' => Rip(r)' = s
      <4>1. Returning(r)' => Rip(r)' = Site(r, Top(g))
        BY <2>11 DEF Returning, Rip, Calling
      <4> QED
        BY <4>1, <2>11 DEF Top
    <3> QED
      BY <3>1, <2>10, <2>11 DEF Waits, Code, int3
  <2>13. \A k \in 1..(n + 1) : k \in 1..n \/ k = n + 1
    BY <1>7
  <2>14. StackOK(r)'
    <3> PICK st : st = stacks[t]
      OBVIOUS
    <3>1. /\ Len(st) = n /\ st \in Seq(Nat)
          /\ \A k \in 1..n : /\ st[k] \in DOMAIN event_log
                             /\ event_log[st[k]].thread_seq = Ordinal(r, f[k])
      BY <2>1, <2>7 DEF RoleOK, StackOK
    <3>2. /\ Append(st, idx) \in Seq(Nat) /\ Len(Append(st, idx)) = n + 1
          /\ \A k \in 1..n : Append(st, idx)[k] = st[k]
          /\ Append(st, idx)[n + 1] = idx
      BY <3>1, <1>11, PushFrame
    <3>3. \A k \in 1..(n + 1) : /\ Append(st, idx)[k] \in DOMAIN event_log
                                /\ event_log[Append(st, idx)[k]].thread_seq = Ordinal(r, g[k])
      BY <3>1, <3>2, <2>3, <2>11, <2>13, <1>11
    <3> PICK new_stack : new_stack = Append(st, idx)
      OBVIOUS
    <3>4. stacks'[id'[r]] = new_stack
      BY <1>10, <1>16
    <3>5. \A k \in 1..(n + 1) : /\ new_stack[k] \in DOMAIN event_log'
                                /\ event_log'[new_stack[k]].thread_seq = Ordinal(r, g[k])
      <4>1. \A k \in 1..(n + 1) : /\ new_stack[k] \in DOMAIN event_log
                                  /\ event_log[new_stack[k]].thread_seq = Ordinal(r, g[k])
        BY <3>3
      <4>2. /\ DOMAIN event_log' = DOMAIN event_log
            /\ \A k \in DOMAIN event_log : event_log'[k].thread_seq = event_log[k].thread_seq
        BY <1>12 DEF SameEvents
      <4> SUFFICES ASSUME NEW k \in 1..(n + 1)
                   PROVE  /\ new_stack[k] \in DOMAIN event_log'
                          /\ event_log'[new_stack[k]].thread_seq = Ordinal(r, g[k])
        OBVIOUS
      <4> PICK j : j = new_stack[k]
        OBVIOUS
      <4>3. j \in DOMAIN event_log /\ event_log[j].thread_seq = Ordinal(r, g[k])
        BY <4>1
      <4> QED
        BY <4>2, <4>3
    <3> QED
      BY <3>2, <3>4, <3>5, <2>11, <2>12 DEF StackOK
  <2>15. SitesDiffer(r)'
    <3>1. ASSUME NEW k \in 1..(n + 1), NEW l \in 1..(n + 1), k < l
          PROVE  Site(r, g[k]) # Site(r, g[l])
      <4>1. k \in 1..n /\ g[k] = f[k]
        BY <3>1, <1>7, <2>11
      <4>2. CASE l \in 1..n
        BY <4>1, <4>2, <3>1, <2>1, <2>11 DEF RoleOK, SitesDiffer
      <4>3. CASE l = n + 1
        BY <4>1, <4>3, <2>6, <2>11
      <4> QED
        BY <4>2, <4>3, <2>13
    <3>2. frames'[r] = g /\ Len(g) = n + 1
      BY <2>11
    <3> QED
      BY <3>1, <3>2 DEF SitesDiffer
  <2>16. Waiting(r)' = Waiting(r) \cup {s}
    <3>1. Waiting(r)' = {Site(r, g[k]) : k \in 1..(n + 1)}
      BY <2>11, <2>12 DEF Waiting
    <3>2. Waiting(r) = {Site(r, f[k]) : k \in 1..n}
      BY <2>7 DEF Waiting
    <3>3. \A k \in 1..n : k \in 1..(n + 1)
      BY <1>7
    <3>4. n + 1 \in 1..(n + 1)
      BY <1>7
    <3> QED
      BY <3>1, <3>2, <3>3, <3>4, <2>11, <2>13
  <2>17. HoldsOwn(r)'
    <3>1. ASSUME NEW a \in SitesBegun(r) \cup {s}
          PROVE  IF a \in Waiting(r) \cup {s} THEN byte'[a] = int3 /\ HoldersOf(a)' = <<t>>
                                              ELSE byte'[a] = Code /\ HoldersOf(a)' = <<>>
      <4>1. CASE a = s
        BY <4>1, <2>10
      <4>2. CASE a # s
        BY <4>2, <2>1, <1>14, <1>15 DEF RoleOK, HoldsOwn
      <4> QED
        BY <4>1, <4>2
    <3> QED
      BY <3>1, <2>16, <1>10, <1>17 DEF HoldsOwn
  <2> QED
    BY <2>4, <2>14, <2>15, <2>17 DEF RoleOK
<1>20. (\A a \in Tracked \ EntryPoints : a \in recorded.held \/ \E q \in Role : a \in SitesBegun(q))'
  <2>1. ASSUME NEW a \in (Tracked \cup {s}) \ EntryPoints
        PROVE  a \in recorded.held \/ \E q \in Role : a \in SitesBegun(q)'
    <3>1. CASE a = s
      BY <3>1, <1>17
    <3>2. CASE a # s
      BY <3>2, <1>17 DEF ReconstructionOK
    <3> QED
      BY <3>1, <3>2
  <2> QED
    BY <2>1, <1>14
<1>21. \A u \in Thread : (\A q \in Role : id'[q] # u) => stacks'[u] = <<>>
  <2> SUFFICES ASSUME NEW u \in Thread, \A q \in Role : id'[q] # u
               PROVE  stacks'[u] = <<>>
    OBVIOUS
  <2>1. u # t /\ \A q \in Role : id[q] # u
    BY <1>5, <1>10
  <2> QED
    BY <2>1, <1>16 DEF ReconstructionOK
<1> QED
  BY <1>8, <1>13, <1>14, <1>16, <1>18, <1>19, <1>20, <1>21 DEF ReconstructionOK

----------------------------------------------------------------------------
StackInv ==
    /\ phase = "recording" => RecordingOK
    /\ phase = "reconstructing" => ReconstructionOK

LEMMA HandleBreakpointKeeps ==
  ASSUME IInv, ReconstructionOK, NEW r \in Role, HandleBreakpoint(r), phase' = "reconstructing"
  PROVE  ReconstructionOK'
<1> DEFINE type == GetBreakpointType(Rip(r), id[r])
<1>1. phase = "reconstructing" /\ stopped[r] /\ recorded' = recorded
  BY DEF HandleBreakpoint
<1>2. CASE type = "Permanent" /\ ReplayEvent(r)
  BY <1>1, <1>2, ReplayEventKeeps
<1>3. CASE type = "Return" /\ ReplayEventEnd(r)
  BY <1>1, <1>3, ReplayEndKeeps
<1>4. CASE UNCHANGED <<breakpointVars, done, frames, id, log, pending_replay_end_events>>
  BY <1>1, <1>4, ReconstructionStays DEF log
<1> QED
  BY <1>2, <1>3, <1>4 DEF HandleBreakpoint, NothingToReplay

LEMMA ReconstructionKeeps ==
  ASSUME IInv, ReconstructionOK, phase = "reconstructing", [Next]_vars, phase' = "reconstructing"
  PROVE  ReconstructionOK'
<1>1. ASSUME NEW r \in Role, PassReturn(r) PROVE ReconstructionOK'
  BY <1>1, ReplayPassKeeps
<1>2. ASSUME NEW r \in Role, HandleBreakpoint(r) PROVE ReconstructionOK'
  BY <1>2, HandleBreakpointKeeps
<1>3. ASSUME NEW r \in Role, Stop(r) PROVE ReconstructionOK'
  <2>1. UNCHANGED <<breakpointVars, done, frames, id, recorded, event_log, pending_replay_end_events>>
    BY <1>3 DEF Stop, log
  <2> QED
    BY <2>1, ReconstructionStays
<1>4. CASE Timeout \/ UNCHANGED vars
  <2>1. UNCHANGED <<breakpointVars, done, frames, id, recorded, event_log, pending_replay_end_events>>
    BY <1>4 DEF Timeout, vars, debuggee, log
  <2> QED
    BY <2>1, ReconstructionStays
<1>5. /\ \A r \in Role : ~RecordCall(r) /\ ~RecordReturn(r)
      /\ \A k : ~RestoreTo(k)
  BY DEF RecordCall, RecordReturn, RestoreTo
<1> QED
  BY <1>1, <1>2, <1>3, <1>4, <1>5 DEF Next

LEMMA StackStepHolds == IInv /\ StackInv /\ [Next]_vars => StackInv'
<1> SUFFICES ASSUME IInv, StackInv, [Next]_vars PROVE StackInv'
  OBVIOUS
<1>1. phase \in {"recording", "reconstructing", "debugger", "aborted"}
  BY DEF IInv, Progress
<1>2. CASE phase = "recording"
  <2>1. CASE phase' = "recording"
    BY <1>2, <2>1, RecordingKeeps DEF StackInv
  <2>2. CASE phase' = "reconstructing"
    <3>1. PICK k \in DOMAIN snapshots : RestoreTo(k)
      BY <1>2, <2>2 DEF Next, PassReturn, RecordCall, RecordReturn, Stop, HandleBreakpoint, Timeout, vars
    <3> QED
      BY <1>2, <2>2, <3>1, RestoreBegins DEF StackInv
  <2> QED
    BY <2>1, <2>2 DEF StackInv
<1>3. CASE phase = "reconstructing"
  <2>1. phase' # "recording"
    <3>1. ASSUME NEW r \in Role, PassReturn(r) \/ RecordCall(r) \/ RecordReturn(r) \/ Stop(r)
          PROVE  phase' # "recording"
      BY <1>3, <3>1 DEF PassReturn, RecordCall, RecordReturn, Stop
    <3>2. ASSUME NEW r \in Role, HandleBreakpoint(r)
          PROVE  phase' # "recording"
      BY <1>3, <3>2 DEF HandleBreakpoint, ReplayEvent, NothingToReplay, ReplayEventEnd
    <3>3. \A k : ~RestoreTo(k)
      BY <1>3 DEF RestoreTo
    <3>4. Timeout \/ UNCHANGED vars => phase' # "recording"
      BY <1>3 DEF Timeout, vars
    <3> QED
      BY <3>1, <3>2, <3>3, <3>4 DEF Next
  <2>2. phase' = "reconstructing" => ReconstructionOK'
    BY <1>3, ReconstructionKeeps DEF StackInv
  <2> QED
    BY <2>1, <2>2 DEF StackInv
<1>4. CASE phase \in {"debugger", "aborted"}
  <2>1. phase' = phase
    <3>1. \A r \in Role : /\ ~PassReturn(r) /\ ~RecordCall(r) /\ ~RecordReturn(r)
                          /\ ~Stop(r) /\ ~HandleBreakpoint(r)
      BY <1>4 DEF PassReturn, RecordCall, RecordReturn, Stop, HandleBreakpoint
    <3>2. ~Timeout
      BY <1>4 DEF Timeout
    <3>3. \A k : RestoreTo(k) => phase' = phase
      BY <1>4 DEF RestoreTo
    <3>4. UNCHANGED vars => phase' = phase
      BY DEF vars
    <3> QED
      BY <3>1, <3>2, <3>3, <3>4 DEF Next
  <2> QED
    BY <1>4, <2>1 DEF StackInv
<1> QED
  BY <1>1, <1>2, <1>3, <1>4

LEMMA StackMatches ==
  ASSUME IInv, ReconstructionOK, phase = "reconstructing"
  PROVE  ReplayStackMatches
<1>1. ASSUME NEW r \in Role, Covered(r, done[r]), OwnSites(r)
      PROVE  LET stack == pending_replay_end_events[id[r]]
                 calls == CallsWaitedFor(r)
             IN  /\ Len(stack) = Len(calls)
                 /\ \A k \in 1..Len(calls) :
                       event_log[stack[k]].thread_seq = Ordinal(r, calls[k])
  <2>1. StackOK(r)
    BY <1>1 DEF Good, ReconstructionOK, RoleOK
  <2>2. /\ Len(CallsWaitedFor(r)) = Waits(r)
        /\ \A k \in 1..Waits(r) : CallsWaitedFor(r)[k] = frames[r][k]
    <3>1. CASE Returning(r) /\ byte[Rip(r)] = Code
      <4>1. frames[r] \in Seq(Nat) /\ frames[r] # <<>>
        BY <3>1 DEF IInv, Progress, Returning
      <4> QED
        BY <3>1, <4>1, PopFrame DEF CallsWaitedFor, Waits
    <3>2. CASE ~(Returning(r) /\ byte[Rip(r)] = Code)
      BY <3>2 DEF CallsWaitedFor, Waits
    <3> QED
      BY <3>1, <3>2
  <2> QED
    BY <2>1, <2>2 DEF StackOK
<1> QED
  BY <1>1 DEF ReplayStackMatches

\* The replayed events that a thread waits to end are those of the calls it is
\* in, each of them the event this very call had in the recording, as long as
\* the thread's calls were logged and nobody else has used its return addresses
\* (event_log.cpp:112-122, breakpoint_manager.cpp:36-58).
THEOREM StackMatchesCalls == Spec => []ReplayStackMatches
<1>1. Init => StackInv
  <2>1. Init => RecordingOK /\ phase = "recording"
    BY RecordingBegins DEF Init
  <2> QED
    BY <2>1 DEF StackInv
<1>2. IInv /\ StackInv => ReplayStackMatches
  <2>1. IInv /\ StackInv /\ phase = "reconstructing" => ReplayStackMatches
    BY StackMatches DEF StackInv
  <2>2. phase # "reconstructing" => ReplayStackMatches
    BY DEF ReplayStackMatches
  <2> QED
    BY <2>1, <2>2
<1> QED
  BY <1>1, <1>2, InitHolds, StepHolds, StackStepHolds, PTL DEF Spec
=============================================================================
