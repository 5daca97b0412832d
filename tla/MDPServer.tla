------------------------------ MODULE MDPServer -------------------------------
(***************************************************************************)
(* The server of mdpsim (mdpserver.cc).  Every connection gets a thread    *)
(* that hosts one session: rounds, each a run of the problem from its      *)
(* initial state, with a limit on turns, and one on the time of the        *)
(* session.  The threads share the reader of StrXML and the identifier     *)
(* that new_id counts.  The clients are in MDPClient.                      *)
(*                                                                         *)
(* total_turns, which is never initialised and only reported, the metric   *)
(* and the log files are left out.                                         *)
(***************************************************************************)
EXTENDS StrXML

CONSTANTS
    KnownProblems,      \* problems the server has read
    States, Actions,    \* of every problem
    InitState,
    Enabled(_, _),      \* Enabled(a, s): Action::enabled
    Succ(_, _),         \* Succ(s, a): what State::next may sample
    Goal(_),
    round_limit, turn_limit, time_limit,
    MaxClock, MaxRestarts       \* bounds

ASSUME ServerAssumption ==
    /\ InitState \in States
    /\ round_limit \in Nat /\ turn_limit \in Nat /\ time_limit \in Nat
    /\ MaxClock \in Nat /\ MaxRestarts \in Nat

VARIABLES
    up,         \* the process is running
    restarts,
    clock,
    last_id,    \* the static variable of new_id, 0 before its first call
    last_id_file,
    issued,     \* history: the identifiers new_id has returned, and whether alone
    alone,      \* history: the calls of new_id that no other has overlapped yet
    torn,       \* history: the process has died while the file was empty
    thread,     \* per client, the thread of its connection
    toClient    \* per client, the messages on their way to it

ids == <<last_id_file, issued>>
serverVars == <<up, restarts, clock, last_id, ids, alone, torn, thread, toClient>>

Idle == [pc |-> "none", stage |-> "init", sink |-> NewSink, id |-> 0, round |-> 0,
         turn |-> 0, s |-> InitState, start |-> 0, wins |-> 0, why |-> ""]
InNewId(t) == t.pc \in {"id_add", "id_open", "id_write", "id_return"}

Msg(name, n) == [name |-> name, n |-> n, s |-> InitState]
StateMsg(s) == [name |-> "state", n |-> 0, s |-> s]

Reading(t, stage) == [t EXCEPT !.pc = "token", !.stage = stage, !.sink = NewSink]
Ended(t, why) == [t EXCEPT !.pc = "ended", !.why = why]

\* The thread writes messages to its socket.  If the client has closed it, they
\* are lost or SIGPIPE, which nobody handles, ends the process; a result of -1
\* would not be noticed.
Goes(c, t, msgs) ==
    \/ /\ c \notin hung_up
       /\ thread' = [thread EXCEPT ![c] = t]
       /\ toClient' = [toClient EXCEPT ![c] = @ \o msgs]
       /\ alone' = alone \ {c}
       /\ UNCHANGED <<up, last_id, torn>>
    \/ /\ c \in hung_up
       /\ thread' = [thread EXCEPT ![c] = t]
       /\ alone' = alone \ {c}
       /\ UNCHANGED <<up, last_id, torn, toClient>>
    \/ /\ c \in hung_up /\ msgs # <<>>
       /\ up' = FALSE
       /\ thread' = [d \in Clients |-> Idle]
       /\ last_id' = 0 /\ alone' = {}
       /\ torn' = (torn \/ \E d \in Clients : thread[d].pc = "id_write")
       /\ UNCHANGED toClient

-----------------------------------------------------------------------------
(* Steps of host_problem between two reads.                                *)

time_left(t) == time_limit - (clock - t.start)

\* Bug: the last round is not followed by the end of the session.
BugSilentEnd(t) ==
    LET wins == t.wins + (IF Goal(t.s) THEN 1 ELSE 0)
        over == [t EXCEPT !.wins = wins, !.round = @ + 1]
    IN  [t |-> IF t.round = round_limit THEN Ended(over, "complete") ELSE Reading(over, "round"),
         msgs |-> <<Msg("end-round", IF Goal(t.s) THEN 1 ELSE 0)>>]

\* The end of a round, and of the session after the last one.
EndRound(t) ==
    LET wins == t.wins + (IF Goal(t.s) THEN 1 ELSE 0)
        last == t.round = round_limit
        over == [t EXCEPT !.wins = wins, !.round = @ + 1]
    IN  [t |-> IF last THEN Ended(over, "complete") ELSE Reading(over, "round"),
         msgs |-> <<Msg("end-round", IF Goal(t.s) THEN 1 ELSE 0)>>
                  \o (IF last THEN <<Msg("end-session", wins)>> ELSE <<>>)]

\* Bug: a turn too many.
BugTurn(t, running) ==
    IF running /\ t.turn <= turn_limit + 1 /\ ~Goal(t.s)
    THEN [t |-> Reading(t, "turn"), msgs |-> <<StateMsg(t.s)>>]
    ELSE EndRound(t)

\* The head of the loop over turns.
Turn(t, running) ==
    IF running /\ t.turn <= turn_limit /\ ~Goal(t.s)
    THEN [t |-> Reading(t, "turn"), msgs |-> <<StateMsg(t.s)>>]
    ELSE EndRound(t)

With(msgs, r) == [t |-> r.t, msgs |-> msgs \o r.msgs]
Only(t) == [t |-> t, msgs |-> <<>>]

StartRound(t) ==
    With(<<Msg("round-init", t.round)>>,
         Turn([t EXCEPT !.s = InitState, !.turn = 1], time_left(t) > 0))

\* A new identifier, and the answer to the session-request.
StartSession(t) ==
    LET known == t.sink.texts[1] \in KnownProblems
        begun == [t EXCEPT !.id = last_id, !.start = clock, !.round = 1, !.wins = 0]
    IN  CASE ~known -> [t |-> Ended(t, "bad-problem"), msgs |-> <<Msg("error", 0)>>]
          [] known /\ round_limit = 0 ->
                [t |-> Ended(begun, "complete"),
                 msgs |-> <<Msg("session-init", round_limit), Msg("end-session", 0)>>]
          [] OTHER -> [t |-> Reading(begun, "round"),
                       msgs |-> <<Msg("session-init", round_limit)>>]

\* An action has arrived; it is carried out if there is time left.
Act(t, a) ==
    IF a \notin Actions \/ ~Enabled(a, t.s)
    THEN {With(<<Msg("error", 0)>>, Turn(t, FALSE))}
    ELSE IF time_left(t) <= 0 THEN {Turn(t, FALSE)}
    ELSE {Turn([t EXCEPT !.s = s, !.turn = @ + 1], TRUE) : s \in Succ(t.s, a)}

\* What becomes of the node that has been read, or of its absence.
Handled(t) ==
    LET node == IF t.sink.result = "node" THEN t.sink.top ELSE "null"
    IN  CASE t.stage = "init" ->
                {Only(IF node = "session-request" /\ t.sink.texts # <<>>
                      THEN [t EXCEPT !.pc = "id"] ELSE Ended(t, "no-request"))}
          [] t.stage = "round" ->
                {IF node = "round-request" THEN StartRound(t) ELSE Only(Ended(t, "no-round-request"))}
          [] t.stage = "turn" /\ node = "done" -> {Turn(t, FALSE)}
          [] t.stage = "turn" /\ node = "act" /\ t.sink.texts # <<>> ->
                Act(t, t.sink.texts[1])
          [] OTHER -> {Only(Ended(t, "killed"))}

-----------------------------------------------------------------------------
(* Actions.                                                                *)

Accept(c) == thread' = [thread EXCEPT ![c] = Reading(Idle, "init")]

\* next_token finds nothing left over and goes to read the socket.
Block(c) ==
    /\ thread[c].pc = "token"
    /\ last_char = ""
    /\ thread' = [thread EXCEPT ![c].pc = "blocked"]
    /\ UNCHANGED <<readVars, up, restarts, clock, last_id, ids, alone, torn, toClient>>

\* A call of next_token returns; if the node is complete the session goes on.
ReadToken(c) ==
    \E token \in IF thread[c].pc = "token" THEN {Left, Right}
                 ELSE {EMPTY_STRING} \cup {toServer[c][i] : i \in DOMAIN toServer[c]} :
        LET t == [thread[c] EXCEPT !.pc = "token", !.sink = Parsed(@, token)]
        IN  /\ \/ thread[c].pc = "token" /\ TakesLast(c, token)
               \/ thread[c].pc = "blocked" /\ TakesArrived(c, token)
            /\ IF t.sink.result = "none" THEN Goes(c, t, <<>>)
               ELSE \E r \in Handled(t) : Goes(c, r.t, r.msgs)
            /\ UNCHANGED <<restarts, clock, ids>>

\* new_id: the static last_id is read, the first time from the file.  Another
\* thread that is in new_id now is not alone either.
IdRead(c) ==
    /\ thread[c].pc = "id"
    /\ thread' = [thread EXCEPT ![c].pc = "id_add",
                                ![c].id = IF last_id = 0 THEN last_id_file ELSE last_id]
    /\ alone' = IF \E d \in Clients \ {c} : InNewId(thread[d]) THEN {} ELSE {c}
    /\ UNCHANGED <<readVars, up, restarts, clock, last_id, ids, torn, toClient>>

\* last_id++ is not atomic: the sum of what was read is stored.
IdIncrement(c) ==
    /\ thread[c].pc = "id_add"
    /\ last_id' = thread[c].id + 1
    /\ thread' = [thread EXCEPT ![c].pc = "id_open", ![c].id = @ + 1]
    /\ UNCHANGED <<readVars, up, restarts, clock, ids, alone, torn, toClient>>

\* The argument of write_last_id is what was stored, or is read again; opening
\* the file empties it.
IdOpen(c) ==
    /\ thread[c].pc = "id_open"
    /\ \E id \in {thread[c].id, last_id} :
          thread' = [thread EXCEPT ![c].pc = "id_write", ![c].id = id]
    /\ last_id_file' = 0
    /\ UNCHANGED <<readVars, up, restarts, clock, last_id, issued, alone, torn, toClient>>

\* Bug: the identifier before.
BugIdWrite(c) ==
    /\ thread[c].pc = "id_write"
    /\ last_id_file' = thread[c].id - 1
    /\ thread' = [thread EXCEPT ![c].pc = "id_return"]
    /\ UNCHANGED <<readVars, up, restarts, clock, last_id, issued, alone, torn, toClient>>

IdWrite(c) ==
    /\ thread[c].pc = "id_write"
    /\ last_id_file' = thread[c].id
    /\ thread' = [thread EXCEPT ![c].pc = "id_return"]
    /\ UNCHANGED <<readVars, up, restarts, clock, last_id, issued, alone, torn, toClient>>

\* The static variable is read once more, and returned.
IdReturn(c) ==
    /\ thread[c].pc = "id_return"
    /\ issued' = Append(issued, [id |-> last_id, alone |-> c \in alone])
    /\ LET r == StartSession(thread[c]) IN Goes(c, r.t, r.msgs)
    /\ UNCHANGED <<readVars, restarts, clock, last_id_file>>

Thread(c) ==
    \/ Block(c) \/ ReadToken(c)
    \/ IdRead(c) \/ IdIncrement(c) \/ IdOpen(c) \/ IdWrite(c) \/ IdReturn(c)

Tick ==
    /\ clock < MaxClock
    /\ clock' = clock + 1
    /\ UNCHANGED <<readVars, up, restarts, last_id, ids, alone, torn, thread, toClient>>

Restart ==
    /\ ~up /\ restarts < MaxRestarts
    /\ up' = TRUE
    /\ restarts' = restarts + 1
    /\ last_char' = "" /\ left_by' = {}
    /\ UNCHANGED <<crossed, toServer, clock, last_id, ids, alone, torn, thread, toClient>>

ServerInit ==
    /\ last_char = "" /\ left_by = {} /\ crossed = FALSE
    /\ toServer = [c \in Clients |-> <<>>]
    /\ up = TRUE /\ restarts = 0 /\ clock = 0
    /\ last_id = 0 /\ last_id_file = 0 /\ issued = <<>>
    /\ alone = {} /\ torn = FALSE
    /\ thread = [c \in Clients |-> Idle]
    /\ toClient = [c \in Clients |-> <<>>]
=============================================================================
