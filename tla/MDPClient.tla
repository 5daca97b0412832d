------------------------------- MODULE MDPClient -------------------------------
(***************************************************************************)
(* mdpclient (mdpclient.cc, client.cc) and the server together.  A client  *)
(* runs a session for each of its problems over the one socket it opens; a *)
(* planner chooses its actions.  Clients may be killed; so may the server, *)
(* by a write to a client that has gone.                                   *)
(***************************************************************************)
EXTENDS MDPServer

CONSTANTS
    ProblemsOf,     \* per client, the sequence of its problems
    MayBeKilled     \* clients that may be killed

ASSUME ClientAssumption == MayBeKilled \subseteq Clients

VARIABLE client

vars == <<readVars, hung_up, serverVars, client>>

NewClient == [pc |-> "start", problem |-> 0, rounds_left |-> 0, connection |-> 0,
              goals |-> 0, report |-> -1, quit |-> FALSE]

Connected(c) == up /\ client[c].connection = restarts

\* The client sends symbols, if there is still somebody to send them to.
Sends(c, cl, symbols) ==
    /\ client' = [client EXCEPT ![c] = cl]
    /\ toServer' = [toServer EXCEPT ![c] = IF Connected(c) THEN @ \o symbols ELSE @]

\* XMLClient's constructor begins, for the next problem, or there is none.
NextProblem(c, cl, consumed) ==
    /\ toClient' = consumed
    /\ IF cl.problem = Len(ProblemsOf[c])
       THEN /\ client' = [client EXCEPT ![c] = [cl EXCEPT !.pc = "exited"]]
            /\ hung_up' = hung_up \cup {c}
            /\ UNCHANGED toServer
       ELSE /\ Sends(c, [cl EXCEPT !.pc = "session", !.problem = @ + 1, !.goals = 0],
                     Element("session-request", ProblemsOf[c][cl.problem + 1]))
            /\ UNCHANGED hung_up

\* The head of the loop over rounds.
NextRound(c, cl, consumed) ==
    /\ toClient' = consumed
    /\ UNCHANGED hung_up
    /\ IF cl.rounds_left = 0
       THEN client' = [client EXCEPT ![c] = [cl EXCEPT !.pc = "end"]] /\ UNCHANGED toServer
       ELSE Sends(c, [cl EXCEPT !.pc = "round", !.rounds_left = @ - 1], SingleTag("round-request"))

Decides(c, cl, consumed) ==
    /\ toClient' = consumed
    /\ UNCHANGED hung_up
    /\ \/ \E a \in Actions : Sends(c, cl, Element("act", a))
       \/ Sends(c, cl, SingleTag("done"))

\* What read_node returned: a message, or null.
Response(c, msg, consumed) ==
    LET cl == client[c]
        goals == IF msg.name = "end-round" THEN msg.n ELSE 0
        counted == [cl EXCEPT !.goals = @ + goals]
    IN  CASE cl.pc = "session" /\ msg.name = "session-init" ->
                NextRound(c, [cl EXCEPT !.rounds_left = msg.n], consumed)
          [] cl.pc = "round" /\ msg.name = "round-init" ->
                /\ client' = [client EXCEPT ![c].pc = "state"]
                /\ toClient' = consumed
                /\ UNCHANGED <<toServer, hung_up>>
          [] cl.pc = "state" /\ msg.name = "state" -> Decides(c, cl, consumed)
          [] cl.pc = "state" /\ msg.name = "end-round" -> NextRound(c, counted, consumed)
          [] cl.pc = "state" /\ msg.name = "end-session" ->
                /\ client' = [client EXCEPT ![c].pc = "end"]
                /\ toClient' = consumed
                /\ UNCHANGED <<toServer, hung_up>>
          [] cl.pc = "end" ->
                NextProblem(c, [cl EXCEPT !.report = IF msg.name = "end-session" THEN msg.n
                                                     ELSE @],
                            consumed)
          [] OTHER -> NextProblem(c, [cl EXCEPT !.quit = TRUE], consumed)

-----------------------------------------------------------------------------
(* Actions.                                                                *)

Connect(c) ==
    /\ client[c].pc = "start" /\ up
    /\ Accept(c)
    /\ client' = [client EXCEPT ![c].pc = "session", ![c].problem = 1, ![c].connection = restarts]
    /\ toServer' = [toServer EXCEPT ![c] = Element("session-request", ProblemsOf[c][1])]
    /\ UNCHANGED <<last_char, left_by, crossed, hung_up, up, restarts, clock, last_id, ids,
                   alone, torn, toClient>>

CannotConnect(c) ==
    /\ client[c].pc = "start" /\ ~up
    /\ client' = [client EXCEPT ![c].pc = "exited"]
    /\ UNCHANGED <<readVars, hung_up, serverVars>>

Active(c) == client[c].pc \notin {"start", "exited"}

ClientReads(c) ==
    /\ Active(c)
    /\ \/ /\ toClient[c] # <<>>
          /\ Response(c, Head(toClient[c]), [toClient EXCEPT ![c] = Tail(@)])
       \/ /\ toClient[c] = <<>> /\ ~Connected(c)
          /\ Response(c, Msg("null", 0), toClient)
    /\ UNCHANGED <<last_char, left_by, crossed, up, restarts, clock, last_id, ids, alone, torn, thread>>

Killed(c) ==
    /\ Active(c) /\ c \in MayBeKilled
    /\ client' = [client EXCEPT ![c].pc = "exited", ![c].quit = TRUE]
    /\ hung_up' = hung_up \cup {c}
    /\ toClient' = [toClient EXCEPT ![c] = <<>>]
    /\ UNCHANGED <<readVars, up, restarts, clock, last_id, ids, alone, torn, thread>>

Init ==
    /\ ServerInit
    /\ hung_up = {}
    /\ client = [c \in Clients |-> NewClient]

ServerStep ==
    /\ Tick \/ Restart \/ \E c \in Clients : Thread(c)
    /\ UNCHANGED <<hung_up, client>>

ClientStep(c) == Connect(c) \/ CannotConnect(c) \/ ClientReads(c)

Next == ServerStep \/ \E c \in Clients : ClientStep(c) \/ Killed(c)

\* Threads and clients go on; the clock, deaths and restarts are not owed.
Fairness ==
    \A c \in Clients : /\ WF_vars(Thread(c) /\ UNCHANGED <<hung_up, client>>)
                       /\ WF_vars(ClientStep(c))

Spec == Init /\ [][Next]_vars /\ Fairness

-----------------------------------------------------------------------------
(* Properties.                                                             *)

TypeOK ==
    /\ last_char \in {"", "<", ">"}
    /\ hung_up \subseteq Clients
    /\ \A c \in Clients :
          /\ thread[c].pc \in {"none", "token", "blocked", "id", "id_add", "id_open",
                               "id_write", "id_return", "ended"}
          /\ thread[c].sink.depth \in {0, 1}
          /\ thread[c].s \in States
          /\ client[c].rounds_left \in 0..round_limit

\* new_id's comment is 'Generates a new client id': no identifier is given out
\* twice.  It does not hold: two threads may be in new_id at a time.
IdsUnique == \A i, j \in DOMAIN issued : i # j => issued[i].id # issued[j].id

\* What holds instead: calls of new_id that no other call overlapped return
\* different identifiers, whatever overlapping calls have done to the counter
\* and the file before, in between and after, and across deaths and restarts of
\* the server, unless it died while the file was empty (new_id, write_last_id).
SerialIdsUnique ==
    ~torn => \A i, j \in DOMAIN issued :
        i # j /\ issued[i].alone /\ issued[j].alone => issued[i].id # issued[j].id

\* The server kills no connection for invalid XML whose client has kept to the
\* protocol and is there: read_node 'Reads an XML node from the given file
\* descriptor', and clients send nothing else.
NoneAccused ==
    \A c \in Clients :
        thread[c].why \in {"killed", "no-request", "no-round-request"} =>
            client[c].quit \/ Len(ProblemsOf[c]) > 1

NoGame == [phase |-> "none", round |-> 0, turn |-> 0, s |-> InitState, wins |-> 0]

Phase(t) ==
    CASE t.pc = "ended" /\ t.why = "complete" -> "over"
      [] t.pc # "ended" /\ t.stage = "round" -> "between"
      [] t.pc # "ended" /\ t.stage = "turn" -> "playing"
      [] OTHER -> "none"

GameOf(t) ==
    IF Phase(t) = "none" THEN NoGame
    ELSE [phase |-> Phase(t), round |-> t.round, turn |-> t.turn, s |-> t.s, wins |-> t.wins]

Game == INSTANCE MDPGame WITH game <- [c \in Clients |-> GameOf(thread[c])]

\* Sessions are games: only enabled actions are carried out, from the initial
\* state in every round, within the limits, and successes are counted.
ImplementsGame == Game!Spec

\* A client with one problem comes to its end, whatever becomes of the server,
\* as long as no thread takes or loses another one's bracket.
ClientsFinish ==
    \A c \in Clients : Len(ProblemsOf[c]) = 1 =>
        (Active(c) ~> (client[c].pc = "exited" \/ crossed))
=============================================================================
