------------------------------- MODULE Replay -------------------------------
(***************************************************************************)
(* The reconstruction: the debuggee, put back to the first snapshot, runs  *)
(* again, and the debugger answers each intercepted call with the event    *)
(* the recording logged for it (event_log.cpp, reconstruction_phase.cpp).  *)
(*                                                                         *)
(* A role is a thread of the program with its script, which is the same in *)
(* every run.  A thread id is what Windows gives a role in one run; a role *)
(* that is created again may get another id.                               *)
(*                                                                         *)
(* The recording is here only for what it leaves behind: a stop and the    *)
(* debugger's answer are one step (module Recording has them apart).  The  *)
(* restore is taken to end every thread that the snapshot does not have.   *)
(***************************************************************************)
EXTENDS BreakpointManager, FiniteSets

CONSTANTS Role,
          FirstRoles,      \* those alive when the first snapshot is taken
          OriginalId,      \* the thread id of each role in the recording
          Program,         \* the script of each role
          MicroSnapshots,  \* snapshot_interval / wait_timeout
          NoRole, NoId

\* The steps of a script.  A call may create a role.
CallOf(function, site, creates) ==
    [op |-> "call", function |-> function, site |-> site, creates |-> creates]
ReturnStep == [op |-> "return"]

IsCall(r, i) == Program[r][i].op = "call"
Function(r, i) == Program[r][i].function
Site(r, i) == Program[r][i].site

CallsOf(r) == {i \in DOMAIN Program[r] : IsCall(r, i)}
EntryPoints == UNION {{Function(r, i) : i \in CallsOf(r)} : r \in Role}
Sites(r) == {Site(r, i) : i \in CallsOf(r)}

Creates(r, i, q) == IsCall(r, i) /\ Program[r][i].creates = q

ASSUME ReplayAssumption ==
    /\ FirstRoles \subseteq Role
    /\ OriginalId \in [Role -> Thread]
    /\ \A r, q \in Role : OriginalId[r] = OriginalId[q] => r = q
    /\ MicroSnapshots \in Nat \ {0}
    /\ NoRole \notin Role /\ NoId \notin Thread
    /\ \A r \in Role : Sites(r) \subseteq Address \ EntryPoints
    /\ EntryPoints \subseteq Address

\* Scripts.  A thread is created once.
ASSUME ProgramAssumption ==
    /\ \A r \in Role : Program[r] \in
           Seq([op : {"call"}, function : Address, site : Address, creates : Role \cup {NoRole}]
               \cup [op : {"return"}])
    /\ \A q \in Role, r \in Role : \A i \in DOMAIN Program[r] : Creates(r, i, q) =>
           /\ q \notin FirstRoles
           /\ \A p \in Role : \A j \in DOMAIN Program[p] : Creates(p, j, q) => p = r /\ j = i

VARIABLES phase,
          done,             \* how many steps of its script a role has taken
          frames,           \* the calls it is in, the innermost last
          id,               \* its thread id in this run
          stopped,          \* it executed an int3 and waits for the debugger
          recorded,         \* what the recording ended with: done, and the return
                            \* addresses held
          global_sequence,
          event_log,
          pending_thread_events,
          pending_replay_end_events,   \* indices into event_log, top last
          snapshots,                   \* what they hold, the first one first
          snapshots_remaining

debuggee == <<done, frames, id, stopped>>
log == <<global_sequence, event_log, pending_thread_events>>
snaps == <<snapshots, snapshots_remaining>>
vars == <<breakpointVars, phase, debuggee, recorded, log,
          pending_replay_end_events, snaps>>

Top(s) == s[Len(s)]
Pop(s) == SubSeq(s, 1, Len(s) - 1)

\* How many calls r began before its i-th step: BaseEvent's thread_seq.
Ordinal(r, i) == Cardinality(CallsOf(r) \cap 1..(i - 1))

HasNext(r) == id[r] # NoId /\ done[r] < Len(Program[r])
Calling(r) == HasNext(r) /\ IsCall(r, done[r] + 1)
Returning(r) == HasNext(r) /\ ~IsCall(r, done[r] + 1) /\ frames[r] # <<>>

\* The address r executes next, where an int3 may be.
Rip(r) == IF Calling(r) THEN Function(r, done[r] + 1)
                        ELSE Site(r, Top(frames[r]))

Replayed == {i \in DOMAIN event_log : event_log[i].replayed}

Snapshot == [done |-> done, frames |-> frames, id |-> id, stopped |-> stopped, byte |-> byte,
             global_sequence |-> global_sequence, replayed |-> Replayed]

Init ==
    /\ byte = [a \in Address |-> IF a \in EntryPoints THEN int3 ELSE Code]
    /\ address_to_bp = [a \in EntryPoints |->
           [saved |-> Code, kind |-> "Permanent", count |-> 1, holders |-> <<>>]]
    /\ permanent = EntryPoints
    /\ user_breakpoints = [a \in {} |-> Code]
    /\ phase = "recording"
    /\ done = [r \in Role |-> 0] /\ frames = [r \in Role |-> <<>>]
    /\ id = [r \in Role |-> IF r \in FirstRoles THEN OriginalId[r] ELSE NoId]
    /\ stopped = [r \in Role |-> FALSE]
    /\ recorded = [done |-> done, held |-> {}]
    /\ global_sequence = 0
    /\ event_log = <<>>
    /\ pending_thread_events = [t \in Thread |-> <<>>]
    /\ pending_replay_end_events = [t \in Thread |-> <<>>]
    /\ snapshots = <<Snapshot>>
    /\ snapshots_remaining = MicroSnapshots

----------------------------------------------------------------------------
(* The debuggee.                                                           *)

Advance(r) == done' = [done EXCEPT ![r] = @ + 1]

\* The ids a role that r's next call creates may get: in another run than the
\* recorded one, any that nobody has.
NewIds(r) ==
    LET created == Program[r][done[r] + 1].creates
    IN  CASE created = NoRole -> {NoId}
          [] phase = "recording" -> {OriginalId[created]}
          [] OTHER -> Thread \ {id[q] : q \in Role}

\* The body of the call runs.
Perform(r, new) ==
    LET created == Program[r][done[r] + 1].creates
    IN  /\ Advance(r)
        /\ frames' = [frames EXCEPT ![r] = Append(@, done[r] + 1)]
        /\ id' = IF created = NoRole THEN id ELSE [id EXCEPT ![created] = new]

\* Back to the caller over the program's own byte.
PassReturn(r) ==
    /\ phase \in {"recording", "reconstructing"}
    /\ Returning(r) /\ ~stopped[r]
    /\ byte[Rip(r)] = Code
    /\ Advance(r)
    /\ frames' = [frames EXCEPT ![r] = Pop(@)]
    /\ UNCHANGED <<breakpointVars, phase, id, stopped, recorded, log,
                   pending_replay_end_events, snaps>>

----------------------------------------------------------------------------
(* The recording.                                                          *)

\* BaseEvent's constructor.
NewEvent(r) ==
    [global_seq |-> global_sequence, thread |-> id[r],
     thread_seq |-> Ordinal(r, done[r] + 1),
     event_rip |-> Rip(r), replayed |-> FALSE]

RecordCall(r) ==
    /\ phase = "recording" /\ Calling(r)
    /\ \E new \in NewIds(r) : Perform(r, new)
    /\ CreateHeldBreakpoints({Site(r, done[r] + 1)}, id[r], "Return")
    /\ pending_thread_events' =
           [pending_thread_events EXCEPT ![id[r]] = Append(@, NewEvent(r))]
    /\ global_sequence' = global_sequence + 1
    /\ UNCHANGED <<phase, stopped, recorded, event_log,
                   pending_replay_end_events, snaps>>

AddEvent(event) ==
    LET upTo == Cardinality({i \in DOMAIN event_log :
                                event_log[i].global_seq <= event.global_seq})
    IN  event_log' = SubSeq(event_log, 1, upTo) \o <<event>>
                         \o SubSeq(event_log, upTo + 1, Len(event_log))

\* A stop at a return address whose breakpoint the thread holds.
RecordReturn(r) ==
    /\ phase = "recording" /\ Returning(r)
    /\ byte[Rip(r)] = int3
    /\ GetBreakpointType(Rip(r), id[r]) = "Return"
    /\ pending_thread_events[id[r]] # <<>>
    /\ AddEvent(Top(pending_thread_events[id[r]]))
    /\ pending_thread_events' = [pending_thread_events EXCEPT ![id[r]] = Pop(@)]
    /\ RemoveBreakpoints({Rip(r)}, id[r])
    /\ UNCHANGED <<phase, debuggee, recorded, global_sequence,
                   pending_replay_end_events, snaps>>

----------------------------------------------------------------------------
(* Restoring a snapshot, from the recording's timeout or from the prompt.  *)

ResetEventReplay(global_seq) ==
    event_log' = [i \in DOMAIN event_log |->
        IF event_log[i].global_seq > global_seq
        THEN [event_log[i] EXCEPT !.replayed = FALSE] ELSE event_log[i]]

\* Neither the tables of breakpoints nor the stacks of events go back.
RestoreTo(k) ==
    LET snapshot == snapshots[k]
    IN  /\ \/ phase = "recording" /\ k = 1 /\ phase' = "reconstructing"
              /\ recorded' = [done |-> done, held |-> Tracked \ permanent]
           \/ phase = "debugger" /\ UNCHANGED <<phase, recorded>>
        /\ done' = snapshot.done
        /\ frames' = snapshot.frames
        /\ id' = snapshot.id
        /\ stopped' = snapshot.stopped
        /\ byte' = snapshot.byte
        /\ ResetEventReplay(snapshot.global_sequence)
        /\ UNCHANGED <<tables, global_sequence, pending_thread_events,
                       pending_replay_end_events, snaps>>

----------------------------------------------------------------------------
(* The reconstruction.                                                     *)

Stop(r) ==
    /\ phase = "reconstructing"
    /\ Calling(r) \/ Returning(r)
    /\ ~stopped[r]
    /\ byte[Rip(r)] = int3
    /\ stopped' = [stopped EXCEPT ![r] = TRUE]
    /\ UNCHANGED <<breakpointVars, phase, done, frames, id, recorded, log,
                   pending_replay_end_events, snaps>>

\* Mutants: any thread's event is taken; an event is taken again.
MatchesOfAnyThread(rip, t) ==
    {i \in DOMAIN event_log : /\ event_log[i].event_rip = rip
                              /\ ~event_log[i].replayed}
MatchesAgain(rip, t) ==
    {i \in DOMAIN event_log : /\ event_log[i].event_rip = rip
                              /\ event_log[i].thread = t}

Matches(rip, t) ==
    {i \in DOMAIN event_log : /\ event_log[i].event_rip = rip
                              /\ event_log[i].thread = t
                              /\ ~event_log[i].replayed}

\* Mutant: the latest event.
Last(S) == CHOOSE i \in S : \A j \in S : i >= j

First(S) == CHOOSE i \in S : \A j \in S : i <= j

\* BreakpointType::Permanent.  Every event is of ReplayKind::Execute.
ReplayEvent(r) ==
    LET matches == Matches(Rip(r), id[r])
        idx == First(matches)
    IN  /\ matches # {}
        /\ event_log' = [event_log EXCEPT ![idx].replayed = TRUE]
        /\ pending_replay_end_events' =
               [pending_replay_end_events EXCEPT ![id[r]] = Append(@, idx)]
        /\ CreateHeldBreakpoints({Site(r, done[r] + 1)}, id[r], "Return")
        /\ \E new \in NewIds(r) : Perform(r, new)
        /\ UNCHANGED <<phase, global_sequence, pending_thread_events>>

\* "Could not find event": the thread is at the int3 still.
NothingToReplay(r) ==
    /\ Matches(Rip(r), id[r]) = {}
    /\ UNCHANGED <<breakpointVars, phase, done, frames, id, log, pending_replay_end_events>>

\* Mutant: the event stays on the stack.
KeepEvent(t) == pending_replay_end_events

PopEvent(t) == [pending_replay_end_events EXCEPT ![t] = Pop(@)]

\* BreakpointType::Return
ReplayEventEnd(r) ==
    /\ IF pending_replay_end_events[id[r]] = <<>>
       THEN UNCHANGED <<breakpointVars, pending_replay_end_events>>
       ELSE /\ pending_replay_end_events' = PopEvent(id[r])
            /\ RemoveBreakpoints({Rip(r)}, id[r])
    /\ UNCHANGED <<phase, done, frames, id, log>>

HandleBreakpoint(r) ==
    /\ phase = "reconstructing"
    /\ stopped[r]
    /\ stopped' = [stopped EXCEPT ![r] = FALSE]
    /\ LET type == GetBreakpointType(Rip(r), id[r])
       IN  \/ type = "Permanent" /\ (ReplayEvent(r) \/ NothingToReplay(r))
           \/ type = "Return" /\ ReplayEventEnd(r)
           \* rolled back, to execute the int3 again
           \/ /\ type = "SpinLock"
              /\ UNCHANGED <<breakpointVars, phase, done, frames, id, log,
                             pending_replay_end_events>>
           \* bp_type.value() throws
           \/ /\ type = NoBreakpoint
              /\ phase' = "aborted"
              /\ UNCHANGED <<breakpointVars, done, frames, id, log, pending_replay_end_events>>
    /\ UNCHANGED <<recorded, snaps>>

\* A micro snapshot, and the debugger's prompt after the last of them.
Timeout ==
    /\ phase = "reconstructing"
    /\ snapshots' = Append(snapshots, Snapshot)
    /\ snapshots_remaining' = snapshots_remaining - 1
    /\ phase' = IF snapshots_remaining = 1 THEN "debugger" ELSE phase
    /\ UNCHANGED <<breakpointVars, debuggee, recorded, log, pending_replay_end_events>>

----------------------------------------------------------------------------
Next ==
    \/ \E r \in Role :
          \/ PassReturn(r)
          \/ RecordCall(r)
          \/ RecordReturn(r)
          \/ Stop(r)
          \/ HandleBreakpoint(r)
    \/ \E k \in DOMAIN snapshots : RestoreTo(k)
    \/ Timeout

Spec == Init /\ [][Next]_vars

\* Windows schedules every thread and reports every stop; the time out may be
\* as late as it likes.
Fairness ==
    \A r \in Role : /\ WF_vars(Stop(r) \/ PassReturn(r))
                    /\ WF_vars(HandleBreakpoint(r))

FairSpec == Spec /\ Fairness

----------------------------------------------------------------------------
Event == [global_seq : Nat, thread : Thread, thread_seq : Nat,
          event_rip : EntryPoints, replayed : BOOLEAN]

TypeOK ==
    /\ BreakpointTypeOK
    /\ phase \in {"recording", "reconstructing", "debugger", "aborted"}
    /\ \A r \in Role : done[r] \in 0..Len(Program[r])
    /\ id \in [Role -> Thread \cup {NoId}]
    /\ stopped \in [Role -> BOOLEAN]
    /\ event_log \in Seq(Event)
    /\ pending_thread_events \in [Thread -> Seq(Event)]
    /\ \A t \in Thread : pending_replay_end_events[t] \in Seq(DOMAIN event_log)
    /\ snapshots_remaining \in 0..MicroSnapshots

----------------------------------------------------------------------------
\* r runs under the id it had when it was recorded, and each call among the
\* first n steps of its script was logged: not those that had yet to return
\* when the recording ended.
Logged(r, i) ==
    \E k \in DOMAIN event_log :
        /\ event_log[k].thread = OriginalId[r]
        /\ event_log[k].thread_seq = Ordinal(r, i)
Covered(r, n) ==
    /\ id[r] = OriginalId[r]
    /\ \A i \in CallsOf(r) \cap 1..n : Logged(r, i)

\* The calls of a thread to a function are answered with the events of that
\* thread and that function, from the first one on and none left out: as many
\* as the thread has called it (event_log.cpp:88-90).
CallsTo(r, function) ==
    {i \in CallsOf(r) \cap 1..done[r] : Function(r, i) = function}
EventsOf(t, function) ==
    {i \in DOMAIN event_log : /\ event_log[i].thread = t
                              /\ event_log[i].event_rip = function}
ReplaysInOrder ==
    phase = "reconstructing" => \A r \in Role, function \in EntryPoints :
        id[r] # NoId =>
            LET events == EventsOf(id[r], function)
            IN  /\ \A i \in events \cap Replayed : \A j \in events : j < i => j \in Replayed
                /\ Cardinality(events \cap Replayed) = Cardinality(CallsTo(r, function))

\* The replayed events a thread waits to end are those of the calls it is in,
\* each of them the event this very call had in the recording.  This is so as
\* long as its calls were logged, and return to addresses that neither
\* another thread has used nor anybody held at the end of the recording
\* (event_log.cpp:112-122, breakpoint_manager.cpp:36-58).
SitesBegun(q) == {Site(q, i) : i \in CallsOf(q) \cap 1..done[q]}
OwnSites(r) ==
    /\ \A q \in Role \ {r} : SitesBegun(q) \cap SitesBegun(r) = {}
    /\ recorded.held \cap SitesBegun(r) = {}

\* The return of the innermost call may have been handled, and not executed.
CallsWaitedFor(r) ==
    IF Returning(r) /\ byte[Rip(r)] = Code THEN Pop(frames[r]) ELSE frames[r]

ReplayStackMatches ==
    phase = "reconstructing" => \A r \in Role :
        Covered(r, done[r]) /\ OwnSites(r) =>
            LET stack == pending_replay_end_events[id[r]]
                calls == CallsWaitedFor(r)
            IN  /\ Len(stack) = Len(calls)
                /\ \A k \in 1..Len(calls) :
                      event_log[stack[k]].thread_seq = Ordinal(r, calls[k])

\* A thread gets through everything its logged calls cover, unless the time is
\* up (event_log.cpp:87-110): what other threads do in whatever order never
\* takes its events away.
CaughtUp(r) == \A n \in 1..recorded.done[r] : Covered(r, n) => done[r] >= n
Reconstructing(r) == phase = "reconstructing" /\ id[r] # NoId
EveryLoggedCallIsReplayed ==
    \A r \in Role : Reconstructing(r) ~> (phase # "reconstructing" \/ CaughtUp(r))

=============================================================================
