-------------------------------- MODULE MDPGame --------------------------------
(***************************************************************************)
(* What a session with the server amounts to: so many rounds, each a play  *)
(* of the problem from its initial state in which every turn is an enabled *)
(* action and its outcome, no longer than the limit.  A play may be ended  *)
(* before, and a session given up.                                         *)
(***************************************************************************)
EXTENDS Integers

CONSTANTS Clients, Actions, InitState, Enabled(_, _), Succ(_, _), Goal(_),
          round_limit, turn_limit

VARIABLE game   \* per client: phase, round, turn, s, wins

NoGame == [phase |-> "none", round |-> 0, turn |-> 0, s |-> InitState, wins |-> 0]

Over(g) == [g EXCEPT !.phase = IF g.round = round_limit THEN "over" ELSE "between",
                     !.round = @ + 1,
                     !.wins = @ + (IF Goal(g.s) THEN 1 ELSE 0)]

\* Time may run out at any moment.
Outcomes(g) == IF Goal(g.s) \/ g.turn > turn_limit THEN {Over(g)} ELSE {g, Over(g)}

Begun == [NoGame EXCEPT !.phase = IF round_limit = 0 THEN "over" ELSE "between", !.round = 1]

Started(g) == Outcomes([g EXCEPT !.phase = "playing", !.s = InitState, !.turn = 1])

Turned(g) ==
    UNION {Outcomes([g EXCEPT !.s = t, !.turn = @ + 1]) :
             t \in UNION {Succ(g.s, a) : a \in {a \in Actions : Enabled(a, g.s)}}}

After(g) ==
    CASE g.phase = "none" -> {Begun}
      [] g.phase = "between" -> Started(g) \cup {NoGame}
      [] g.phase = "playing" -> Turned(g) \cup {Over(g), NoGame}
      [] g.phase = "over" -> {}

Init == game = [c \in Clients |-> NoGame]

Play(c) == \E g \in After(game[c]) : game' = [game EXCEPT ![c] = g]

\* The server ends.
Lost == game' = [c \in Clients |-> NoGame]

Next == (\E c \in Clients : Play(c)) \/ Lost

Spec == Init /\ [][Next]_game
=============================================================================
