---------------------------- MODULE MDPServerProofs ----------------------------
(***************************************************************************)
(* Theorems about the server of mdpsim and its clients (MDPClient):        *)
(* whatever clients send, a session is a game; and calls of new_id that no *)
(* other overlaps return different identifiers, whatever others do.        *)
(***************************************************************************)
EXTENDS MDPClient, TLAPS

(***************************************************************************)
(* Threads.                                                                *)
(***************************************************************************)

\* The record that host_problem's locals and the reader's state make up.
IsThread(t) ==
    t \in [pc : {t.pc}, stage : {t.stage}, sink : {t.sink}, id : {t.id}, round : Nat,
           turn : Nat, s : {t.s}, start : {t.start}, wins : Nat, why : {t.why}]

\* new_id is called for the first message only, and no round has begun then.
StageInv(t) ==
    /\ t.pc = "id" \/ InNewId(t) => t.stage = "init"
    /\ t.pc = "none" => t = Idle
    /\ t.why = "complete" => t.pc = "ended"
    /\ t.stage = "init" /\ t.pc # "ended" =>
          t.turn = 0 /\ t.s = InitState

ThreadsInv ==
    /\ thread = [c \in Clients |-> thread[c]]
    /\ \A c \in Clients : IsThread(thread[c]) /\ StageInv(thread[c])

\* What the steps of host_problem make of a thread that reads.
LEMMA ReadingShape ==
    ASSUME NEW t, IsThread(t), NEW stage
    PROVE  /\ IsThread(Reading(t, stage))
           /\ Reading(t, stage).pc = "token" /\ Reading(t, stage).stage = stage
           /\ Reading(t, stage).round = t.round /\ Reading(t, stage).turn = t.turn
           /\ Reading(t, stage).s = t.s /\ Reading(t, stage).wins = t.wins
           /\ Reading(t, stage).why = t.why
  BY DEF IsThread, Reading

LEMMA EndedShape ==
    ASSUME NEW t, IsThread(t), NEW why
    PROVE  /\ IsThread(Ended(t, why))
           /\ Ended(t, why).pc = "ended" /\ Ended(t, why).why = why
           /\ Ended(t, why).stage = t.stage
           /\ Ended(t, why).round = t.round /\ Ended(t, why).turn = t.turn
           /\ Ended(t, why).s = t.s /\ Ended(t, why).wins = t.wins
  BY DEF IsThread, Ended

(***************************************************************************)
(* What the session amounts to.                                            *)
(***************************************************************************)

PlayOf(t) ==
    [phase |-> "playing", round |-> t.round, turn |-> t.turn, s |-> t.s, wins |-> t.wins]

\* A thread that goes on to read, or has ended.
Settled(u) ==
    /\ IsThread(u)
    /\ u.pc \in {"token", "ended"}
    /\ u.why = "complete" => u.pc = "ended"
    /\ u.stage # "init"

LEMMA EndRoundGame ==
    ASSUME NEW t, IsThread(t), t.why # "complete", t.stage # "init"
    PROVE  /\ Settled(EndRound(t).t)
           /\ GameOf(EndRound(t).t) = Game!Over(PlayOf(t))
  <1> DEFINE wins == t.wins + (IF Goal(t.s) THEN 1 ELSE 0)
             over == [t EXCEPT !.wins = wins, !.round = @ + 1]
  <1>0. t.wins \in Nat /\ wins \in Nat /\ t.round \in Nat /\ t.round + 1 \in Nat
    BY DEF IsThread
  <1>1. /\ IsThread(over) /\ over.why = t.why /\ over.stage = t.stage
        /\ over.round = t.round + 1 /\ over.turn = t.turn /\ over.s = t.s
        /\ over.wins = wins
    <2> HIDE DEF wins
    <2>1. /\ over.round = t.round + 1 /\ over.wins = wins /\ over.why = t.why
          /\ over.stage = t.stage /\ over.turn = t.turn /\ over.s = t.s
      BY DEF IsThread
    <2> QED BY <1>0, <2>1 DEF IsThread
  <1>2. Game!Over(PlayOf(t))
          = [phase |-> IF t.round = round_limit THEN "over" ELSE "between",
             round |-> t.round + 1, turn |-> t.turn, s |-> t.s, wins |-> wins]
    <2>1. /\ PlayOf(t) \in [phase : {"playing"}, round : {t.round}, turn : {t.turn},
                            s : {t.s}, wins : {t.wins}]
          /\ PlayOf(t).s = t.s /\ PlayOf(t).round = t.round /\ PlayOf(t).wins = t.wins
      BY DEF PlayOf
    <2>2. Game!Over(PlayOf(t))
            = [PlayOf(t) EXCEPT !.phase = IF t.round = round_limit THEN "over" ELSE "between",
                                !.round = t.round + 1, !.wins = wins]
      BY <2>1 DEF Game!Over
    <2> HIDE DEF wins
    <2> QED BY <1>0, <2>1, <2>2
  <1>3. CASE t.round = round_limit
    <2> DEFINE u == Ended(over, "complete")
    <2>1. EndRound(t).t = u
      BY <1>3 DEF EndRound
    <2> HIDE DEF over
    <2>2. /\ IsThread(u) /\ u.pc = "ended" /\ u.why = "complete" /\ u.stage = t.stage
          /\ u.round = t.round + 1 /\ u.turn = t.turn /\ u.s = t.s /\ u.wins = wins
      BY <1>1, EndedShape
    <2> HIDE DEF u, over, wins
    <2>3. Phase(u) = "over"
      BY <2>2 DEF Phase
    <2> QED BY <1>2, <1>3, <2>1, <2>2, <2>3 DEF Settled, GameOf
  <1>4. CASE t.round # round_limit
    <2> DEFINE u == Reading(over, "round")
    <2>1. EndRound(t).t = u
      BY <1>4 DEF EndRound
    <2> HIDE DEF over
    <2>2. /\ IsThread(u) /\ u.pc = "token" /\ u.why = t.why /\ u.stage = "round"
          /\ u.round = t.round + 1 /\ u.turn = t.turn /\ u.s = t.s /\ u.wins = wins
      BY <1>1, ReadingShape
    <2> HIDE DEF u, over, wins
    <2>3. Phase(u) = "between"
      BY <2>2 DEF Phase
    <2> QED BY <1>2, <1>4, <2>1, <2>2, <2>3 DEF Settled, GameOf
  <1> QED BY <1>3, <1>4

LEMMA TurnGame ==
    ASSUME NEW t, IsThread(t), t.why # "complete", t.stage # "init", NEW running \in BOOLEAN
    PROVE  /\ Settled(Turn(t, running).t)
           /\ GameOf(Turn(t, running).t) \in Game!Outcomes(PlayOf(t))
           /\ ~running => GameOf(Turn(t, running).t) = Game!Over(PlayOf(t))
  <1>1. CASE running /\ t.turn <= turn_limit /\ ~Goal(t.s)
    <2> DEFINE u == Reading(t, "turn")
    <2>1. Turn(t, running).t = u
      BY <1>1 DEF Turn
    <2>2. /\ IsThread(u) /\ u.pc = "token" /\ u.why = t.why /\ u.stage = "turn"
          /\ u.round = t.round /\ u.turn = t.turn /\ u.s = t.s /\ u.wins = t.wins
      BY ReadingShape
    <2> HIDE DEF u
    <2>3. Phase(u) = "playing"
      BY <2>2 DEF Phase
    <2>4. GameOf(u) = PlayOf(t)
      BY <2>2, <2>3 DEF GameOf, PlayOf
    <2>5. PlayOf(t) \in Game!Outcomes(PlayOf(t))
      <3>1. PlayOf(t).s = t.s /\ PlayOf(t).turn = t.turn /\ t.turn \in Nat
        BY DEF PlayOf, IsThread
      <3> QED BY <1>1, <3>1, ServerAssumption DEF Game!Outcomes
    <2> QED BY <1>1, <2>1, <2>2, <2>4, <2>5 DEF Settled
  <1>2. CASE ~(running /\ t.turn <= turn_limit /\ ~Goal(t.s))
    <2>1. Turn(t, running) = EndRound(t)
      BY <1>2 DEF Turn
    <2>2. Game!Over(PlayOf(t)) \in Game!Outcomes(PlayOf(t))
      BY DEF Game!Outcomes
    <2> QED BY <2>1, <2>2, EndRoundGame
  <1> QED BY <1>1, <1>2

\* A step of the game, or none.
PlaysOn(t, u) == GameOf(u) = GameOf(t) \/ GameOf(u) \in Game!After(GameOf(t))

LEMMA SettledStage ==
    ASSUME NEW u, Settled(u)
    PROVE  StageInv(u) /\ u.pc \in {"token", "id", "ended"}
  BY DEF Settled, StageInv, InNewId

\* A session in a round and between two rounds.
LEMMA PlayingGame ==
    ASSUME NEW t, IsThread(t), t.pc = "token", t.stage = "turn"
    PROVE  GameOf(t) = PlayOf(t) /\ PlayOf(t).phase = "playing"
  <1>1. Phase(t) = "playing"
    BY DEF Phase
  <1> QED BY <1>1 DEF GameOf, PlayOf

\* Records of the game are equal if their fields are.
LEMMA GameRecord ==
    ASSUME NEW phase, NEW round, NEW turn, NEW s, NEW wins,
           NEW g \in [phase : {phase}, round : {round}, turn : {turn}, s : {s}, wins : {wins}]
    PROVE  g = [phase |-> phase, round |-> round, turn |-> turn, s |-> s, wins |-> wins]
  OBVIOUS

LEMMA StartRoundGame ==
    ASSUME NEW t, IsThread(t), t.pc = "token", t.why # "complete", t.stage = "round"
    PROVE  Settled(StartRound(t).t) /\ PlaysOn(t, StartRound(t).t)
  <1> DEFINE u == [t EXCEPT !.s = InitState, !.turn = 1]
             g == [phase |-> "between", round |-> t.round, turn |-> t.turn, s |-> t.s,
                   wins |-> t.wins]
             running == time_left(t) > 0
  <1>1. /\ IsThread(u) /\ u.why = t.why /\ u.stage = t.stage /\ u.round = t.round
        /\ u.turn = 1 /\ u.s = InitState /\ u.wins = t.wins
    BY DEF IsThread
  <1>2. GameOf(t) = g
    <2>1. Phase(t) = "between"
      BY DEF Phase
    <2> QED BY <2>1 DEF GameOf
  <1>3. PlayOf(u) = [g EXCEPT !.phase = "playing", !.s = InitState, !.turn = 1]
    <2>1. PlayOf(u) = [phase |-> "playing", round |-> t.round, turn |-> 1, s |-> InitState,
                       wins |-> t.wins]
      <3> HIDE DEF u
      <3> QED BY <1>1 DEF PlayOf
    <2>2. /\ g \in [phase : {"between"}, round : {t.round}, turn : {t.turn}, s : {t.s},
                    wins : {t.wins}]
          /\ t.round \in Nat /\ t.turn \in Nat /\ t.wins \in Nat
      BY DEF IsThread
    <2> DEFINE h == [g EXCEPT !.phase = "playing", !.s = InitState, !.turn = 1]
    <2> HIDE DEF u, g
    <2>3. h \in [phase : {"playing"}, round : {t.round}, turn : {1}, s : {InitState},
                wins : {t.wins}]
      BY <2>2
    <2> HIDE DEF h
    <2>4. PlayOf(u) = h
      BY <2>1, <2>3, GameRecord
    <2> QED BY <2>4 DEF h
  <1>4. running \in BOOLEAN
    OBVIOUS
  <1>5. StartRound(t).t = Turn(u, running).t
    BY DEF StartRound, With
  <1> HIDE DEF u, running
  <1>6. Settled(Turn(u, running).t) /\ GameOf(Turn(u, running).t) \in Game!Outcomes(PlayOf(u))
    BY <1>1, <1>4, TurnGame
  <1>7. Game!Outcomes(PlayOf(u)) = Game!Started(g)
    BY <1>3 DEF Game!Started
  <1>8. Game!Started(g) \subseteq Game!After(g)
    <2>1. g.phase = "between"
      OBVIOUS
    <2> HIDE DEF g
    <2> QED BY <2>1 DEF Game!After
  <1> HIDE DEF g
  <1> QED BY <1>2, <1>5, <1>6, <1>7, <1>8 DEF PlaysOn

\* The round is over, whatever was to be done.
LEMMA GivesUpGame ==
    ASSUME NEW t, IsThread(t), t.pc = "token", t.why # "complete", t.stage = "turn"
    PROVE  Settled(Turn(t, FALSE).t) /\ PlaysOn(t, Turn(t, FALSE).t)
  <1>1. /\ Settled(Turn(t, FALSE).t)
        /\ GameOf(Turn(t, FALSE).t) = Game!Over(PlayOf(t))
    BY TurnGame
  <1>2. Game!Over(PlayOf(t)) \in Game!After(PlayOf(t))
    BY PlayingGame DEF Game!After
  <1> QED BY <1>1, <1>2, PlayingGame DEF PlaysOn

LEMMA ActGame ==
    ASSUME NEW t, IsThread(t), t.pc = "token", t.why # "complete", t.stage = "turn",
           NEW a, NEW r \in Act(t, a)
    PROVE  Settled(r.t) /\ PlaysOn(t, r.t)
  <1>1. CASE a \notin Actions \/ ~Enabled(a, t.s)
    <2>1. r = With(<<Msg("error", 0)>>, Turn(t, FALSE))
      BY <1>1 DEF Act
    <2>2. r.t = Turn(t, FALSE).t
      BY <2>1 DEF With
    <2> QED BY <2>2, GivesUpGame
  <1>2. CASE ~(a \notin Actions \/ ~Enabled(a, t.s)) /\ time_left(t) <= 0
    <2>1. r = Turn(t, FALSE)
      BY <1>2 DEF Act
    <2> QED BY <2>1, GivesUpGame
  <1>3. CASE a \in Actions /\ Enabled(a, t.s) /\ ~(time_left(t) <= 0)
    <2>1. PICK s \in Succ(t.s, a) : r = Turn([t EXCEPT !.s = s, !.turn = @ + 1], TRUE)
      BY <1>3 DEF Act
    <2> DEFINE u == [t EXCEPT !.s = s, !.turn = @ + 1]
               g == PlayOf(t)
    <2>2. t.turn \in Nat /\ t.turn + 1 \in Nat
      BY DEF IsThread
    <2>3. /\ IsThread(u) /\ u.why = t.why /\ u.stage = t.stage /\ u.round = t.round
          /\ u.turn = t.turn + 1 /\ u.s = s /\ u.wins = t.wins
      BY <2>2 DEF IsThread
    <2>4. g.s = t.s /\ g.turn = t.turn /\ g.phase = "playing"
      BY DEF PlayOf
    <2>5. PlayOf(u) = [g EXCEPT !.s = s, !.turn = @ + 1]
      <3>1. PlayOf(u) = [phase |-> "playing", round |-> t.round, turn |-> t.turn + 1, s |-> s,
                         wins |-> t.wins]
        <4> HIDE DEF u
        <4> QED BY <2>3 DEF PlayOf
      <3>2. /\ g \in [phase : {"playing"}, round : {t.round}, turn : {t.turn}, s : {t.s},
                      wins : {t.wins}]
            /\ t.round \in Nat /\ t.wins \in Nat
        BY DEF PlayOf, IsThread
      <3> HIDE DEF u, g
      <3> DEFINE h == [g EXCEPT !.s = s, !.turn = t.turn + 1]
      <3>3. h \in [phase : {"playing"}, round : {t.round}, turn : {t.turn + 1}, s : {s},
                  wins : {t.wins}]
        BY <2>2, <3>2
      <3> HIDE DEF h
      <3>4. PlayOf(u) = h
        BY <3>1, <3>3, GameRecord
      <3> QED BY <2>4, <3>4 DEF h
    <2>6. r = Turn(u, TRUE)
      BY <2>1
    <2> HIDE DEF u, g
    <2>7. Settled(r.t) /\ GameOf(r.t) \in Game!Outcomes(PlayOf(u))
      BY <2>3, <2>6, TurnGame
    <2>8. Game!Outcomes(PlayOf(u)) \subseteq Game!Turned(g)
      <3>1. s \in UNION {Succ(g.s, b) : b \in {b \in Actions : Enabled(b, g.s)}}
        BY <1>3, <2>4
      <3> QED BY <2>5, <3>1 DEF Game!Turned
    <2>9. Game!Turned(g) \subseteq Game!After(g)
      BY <2>4 DEF Game!After
    <2>10. GameOf(t) = g
      BY PlayingGame DEF g
    <2> QED BY <2>7, <2>8, <2>9, <2>10 DEF PlaysOn
  <1> QED BY <1>1, <1>2, <1>3

LEMMA HandledGame ==
    ASSUME NEW t, IsThread(t), t.pc = "token", StageInv(t), NEW r \in Handled(t)
    PROVE  /\ IsThread(r.t) /\ StageInv(r.t) /\ r.t.pc \in {"token", "id", "ended"}
           /\ PlaysOn(t, r.t)
  <1> DEFINE node == IF t.sink.result = "node" THEN t.sink.top ELSE "null"
             Fits(u) == /\ IsThread(u) /\ StageInv(u) /\ u.pc \in {"token", "id", "ended"}
                        /\ PlaysOn(t, u)
  <1>1. t.why # "complete"
    BY DEF StageInv
  <1>2. ASSUME NEW u, Settled(u), PlaysOn(t, u) PROVE Fits(u)
    BY <1>2, SettledStage DEF Settled
  <1>3. ASSUME NEW why, why # "complete" PROVE Fits(Ended(t, why))
    <2> DEFINE u == Ended(t, why)
    <2>1. /\ IsThread(u) /\ u.pc = "ended" /\ u.why = why
      BY EndedShape
    <2> HIDE DEF u
    <2>2. StageInv(u)
      BY <2>1, <1>3 DEF StageInv, InNewId
    <2>3. GameOf(u) = NoGame
      BY <2>1, <1>3 DEF GameOf, Phase
    <2>4. CASE t.stage \in {"round", "turn"}
      <3>1. Phase(t) \in {"between", "playing"}
        BY <2>4 DEF Phase
      <3>2. GameOf(t).phase \in {"between", "playing"}
        BY <3>1 DEF GameOf
      <3>3. NoGame \in Game!After(GameOf(t))
        BY <3>2 DEF Game!After, Game!NoGame, NoGame
      <3> QED BY <2>1, <2>2, <2>3, <3>3 DEF PlaysOn, u
    <2>5. CASE t.stage \notin {"round", "turn"}
      <3>1. GameOf(t) = NoGame
        BY <2>5 DEF GameOf, Phase
      <3> QED BY <2>1, <2>2, <2>3, <3>1 DEF PlaysOn, u
    <2> QED BY <2>4, <2>5
  <1>4. CASE t.stage = "init" /\ node = "session-request" /\ t.sink.texts # <<>>
    <2> DEFINE u == [t EXCEPT !.pc = "id"]
    <2>1. r.t = u
      BY <1>4 DEF Handled, Only
    <2>2. /\ IsThread(u) /\ u.pc = "id" /\ u.stage = "init" /\ u.why = t.why /\ u.turn = t.turn
          /\ u.s = t.s
      BY <1>4 DEF IsThread
    <2> HIDE DEF u
    <2>3. StageInv(u)
      BY <1>1, <1>4, <2>2 DEF StageInv, InNewId
    <2>4. GameOf(u) = NoGame /\ GameOf(t) = NoGame
      BY <1>4, <2>2 DEF GameOf, Phase
    <2> QED BY <2>1, <2>2, <2>3, <2>4 DEF PlaysOn
  <1>5. CASE t.stage = "init" /\ ~(node = "session-request" /\ t.sink.texts # <<>>)
    <2>1. r.t = Ended(t, "no-request")
      BY <1>5 DEF Handled, Only
    <2> QED BY <2>1, <1>3
  <1>6. CASE t.stage = "round" /\ node = "round-request"
    <2>1. r = StartRound(t)
      BY <1>6 DEF Handled
    <2> QED BY <2>1, <1>1, <1>2, <1>6, StartRoundGame
  <1>7. CASE t.stage = "round" /\ node # "round-request"
    <2>1. r.t = Ended(t, "no-round-request")
      BY <1>7 DEF Handled, Only
    <2> QED BY <2>1, <1>3
  <1>8. CASE t.stage = "turn" /\ node = "done"
    <2>1. r = Turn(t, FALSE)
      BY <1>8 DEF Handled
    <2> QED BY <2>1, <1>1, <1>2, <1>8, GivesUpGame
  <1>9. CASE t.stage = "turn" /\ node = "act" /\ t.sink.texts # <<>>
    <2>1. r \in Act(t, t.sink.texts[1])
      BY <1>9 DEF Handled
    <2> QED BY <2>1, <1>1, <1>2, <1>9, ActGame
  <1>10. CASE /\ t.stage \notin {"init", "round"}
              /\ ~(t.stage = "turn" /\ node = "done")
              /\ ~(t.stage = "turn" /\ node = "act" /\ t.sink.texts # <<>>)
    <2>1. /\ t.stage # "init" /\ t.stage # "round"
          /\ ~(t.stage = "turn" /\ node = "done")
          /\ ~(t.stage = "turn" /\ node = "act" /\ t.sink.texts # <<>>)
      BY <1>10
    <2>2. r = Only(Ended(t, "killed"))
      BY <2>1, Zenon DEF Handled
    <2>3. r.t = Ended(t, "killed")
      BY <2>2 DEF Only
    <2> QED BY <2>3, <1>3
  <1> QED BY <1>4, <1>5, <1>6, <1>7, <1>8, <1>9, <1>10

LEMMA StartSessionGame ==
    ASSUME NEW t, IsThread(t), t.pc = "id_return", StageInv(t)
    PROVE  LET u == StartSession(t).t IN
           /\ IsThread(u) /\ StageInv(u) /\ u.pc \in {"token", "ended"}
           /\ PlaysOn(t, u)
  <1> DEFINE begun == [t EXCEPT !.id = last_id, !.start = clock, !.round = 1, !.wins = 0]
             known == t.sink.texts[1] \in KnownProblems
             Fits(u) == /\ IsThread(u) /\ StageInv(u) /\ u.pc \in {"token", "ended"}
                        /\ PlaysOn(t, u)
  <1>1. t.stage = "init" /\ t.turn = 0 /\ t.s = InitState /\ t.why # "complete"
    BY DEF StageInv, InNewId
  <1>2. /\ IsThread(begun) /\ begun.stage = "init" /\ begun.round = 1 /\ begun.turn = 0
        /\ begun.s = InitState /\ begun.wins = 0 /\ begun.why # "complete"
    BY <1>1 DEF IsThread
  <1>3. GameOf(t) = NoGame /\ GameOf(t).phase = "none"
    BY <1>1 DEF GameOf, Phase, NoGame
  <1>4. Game!Begun \in Game!After(GameOf(t))
    BY <1>3 DEF Game!After
  <1>5. Game!Begun = [phase |-> IF round_limit = 0 THEN "over" ELSE "between", round |-> 1,
                      turn |-> 0, s |-> InitState, wins |-> 0]
    <2> DEFINE phase == IF round_limit = 0 THEN "over" ELSE "between"
    <2>1. Game!NoGame \in [phase : {"none"}, round : {0}, turn : {0}, s : {InitState}, wins : {0}]
      BY DEF Game!NoGame
    <2>2. Game!Begun = [Game!NoGame EXCEPT !.phase = phase, !.round = 1]
      BY DEF Game!Begun
    <2>3. Game!Begun
            \in [phase : {phase}, round : {1}, turn : {0}, s : {InitState}, wins : {0}]
      BY <2>1, <2>2
    <2> HIDE DEF phase
    <2>4. Game!Begun
            = [phase |-> phase, round |-> 1, turn |-> 0, s |-> InitState, wins |-> 0]
      BY <2>3, GameRecord
    <2> QED BY <2>4 DEF phase
  <1>6. CASE ~known
    <2> DEFINE u == Ended(t, "bad-problem")
    <2>1. StartSession(t).t = u
      BY <1>6 DEF StartSession
    <2>2. IsThread(u) /\ u.pc = "ended" /\ u.why = "bad-problem"
      BY EndedShape
    <2> HIDE DEF u
    <2>3. StageInv(u) /\ GameOf(u) = NoGame
      BY <2>2 DEF StageInv, InNewId, GameOf, Phase
    <2> QED BY <1>3, <2>1, <2>2, <2>3 DEF PlaysOn
  <1>7. CASE known /\ round_limit = 0
    <2> DEFINE u == Ended(begun, "complete")
    <2>1. StartSession(t).t = u
      BY <1>7 DEF StartSession
    <2> HIDE DEF begun
    <2>2. /\ IsThread(u) /\ u.pc = "ended" /\ u.why = "complete" /\ u.round = 1 /\ u.turn = 0
          /\ u.s = InitState /\ u.wins = 0
      BY <1>2, EndedShape
    <2> HIDE DEF u
    <2>3. StageInv(u)
      BY <2>2 DEF StageInv, InNewId
    <2>4. Phase(u) = "over"
      BY <2>2 DEF Phase
    <2>5. GameOf(u) = Game!Begun
      BY <1>5, <1>7, <2>2, <2>4 DEF GameOf
    <2> QED BY <1>4, <2>1, <2>2, <2>3, <2>5 DEF PlaysOn
  <1>8. CASE known /\ round_limit # 0
    <2> DEFINE u == Reading(begun, "round")
    <2>1. StartSession(t).t = u
      BY <1>8 DEF StartSession
    <2> HIDE DEF begun
    <2>2. /\ IsThread(u) /\ u.pc = "token" /\ u.stage = "round" /\ u.why # "complete"
          /\ u.round = 1 /\ u.turn = 0 /\ u.s = InitState /\ u.wins = 0
      BY <1>2, ReadingShape
    <2> HIDE DEF u
    <2>3. StageInv(u)
      BY <2>2 DEF StageInv, InNewId
    <2>4. Phase(u) = "between"
      BY <2>2 DEF Phase
    <2>5. GameOf(u) = Game!Begun
      BY <1>5, <1>8, <2>2, <2>4 DEF GameOf
    <2> QED BY <1>4, <2>1, <2>2, <2>3, <2>5 DEF PlaysOn
  <1> QED BY <1>6, <1>7, <1>8

(***************************************************************************)
(* Steps of the threads.                                                   *)
(***************************************************************************)

AllLost ==
    /\ thread' = [d \in Clients |-> Idle]
    /\ last_id' = 0 /\ alone' = {}
    /\ torn' = (torn \/ \E d \in Clients : thread[d].pc = "id_write")

\* The thread of c becomes u, or the process ends.
Moves(c, u) ==
    \/ /\ thread' = [thread EXCEPT ![c] = u]
       /\ last_id' = last_id /\ torn' = torn /\ alone' = alone \ {c}
    \/ AllLost

Running(c) == thread[c].pc \notin {"none", "ended"}

Sound(t, u) == IsThread(u) /\ StageInv(u) /\ u.pc # "none" /\ PlaysOn(t, u)

LEMMA GoesFacts ==
    ASSUME NEW c \in Clients, NEW u, NEW msgs, Goes(c, u, msgs)
    PROVE  Moves(c, u)
  BY DEF Goes, Moves, AllLost

LEMMA SameGame ==
    ASSUME NEW t, NEW u, t.pc # "ended", u.pc # "ended", u.stage = t.stage,
           u.round = t.round, u.turn = t.turn, u.s = t.s, u.wins = t.wins
    PROVE  GameOf(u) = GameOf(t)
  <1>1. Phase(u) = Phase(t)
    BY DEF Phase
  <1> HIDE DEF Phase
  <1> QED BY <1>1 DEF GameOf

\* Where the steps of new_id, and the call that blocks, lead.
NextPc(pc) ==
    CASE pc = "token" -> "blocked" [] pc = "id" -> "id_add" [] pc = "id_add" -> "id_open"
      [] pc = "id_open" -> "id_write" [] pc = "id_write" -> "id_return"

\* Going on to the next instruction.
At(t, pc, id) == [t EXCEPT !.pc = pc, !.id = id]

LEMMA PcMoves ==
    ASSUME NEW t, IsThread(t), StageInv(t),
           t.pc \in {"token", "id", "id_add", "id_open", "id_write"}, NEW id
    PROVE  LET u == At(t, NextPc(t.pc), id)
           IN  Sound(t, u) /\ u.pc = NextPc(t.pc) /\ u.id = id
  <1> DEFINE pc == NextPc(t.pc)
             u == At(t, pc, id)
  <1>0. /\ pc \in {"blocked", "id_add", "id_open", "id_write", "id_return"}
        /\ pc # "blocked" => t.stage = "init"
    BY DEF NextPc, StageInv, InNewId
  <1> HIDE DEF pc
  <1>1. /\ IsThread(u) /\ u.pc = pc /\ u.stage = t.stage /\ u.round = t.round
        /\ u.turn = t.turn /\ u.s = t.s /\ u.wins = t.wins /\ u.why = t.why /\ u.id = id
    BY DEF IsThread, At
  <1> HIDE DEF u
  <1>2. StageInv(u)
    BY <1>0, <1>1 DEF StageInv, InNewId
  <1>3. GameOf(u) = GameOf(t)
    BY <1>0, <1>1, SameGame
  <1>4. Sound(t, u) /\ u.pc = pc /\ u.id = id
    BY <1>0, <1>1, <1>2, <1>3 DEF Sound, PlaysOn
  <1> QED BY <1>4 DEF u, pc

\* A call of next_token, and what follows when the node is complete.
LEMMA ReadTokenMoves ==
    ASSUME ThreadsInv, NEW c \in Clients, ReadToken(c)
    PROVE  /\ thread[c].pc \in {"token", "blocked"}
           /\ \E u : /\ Moves(c, u) /\ Sound(thread[c], u)
                     /\ u.pc \in {"token", "id", "ended"}
           /\ UNCHANGED <<last_id_file, issued>>
  <1>1. /\ thread[c].pc \in {"token", "blocked"}
        /\ UNCHANGED <<last_id_file, issued>>
    BY DEF ReadToken, ids
  <1>2. IsThread(thread[c]) /\ StageInv(thread[c])
    BY DEF ThreadsInv
  <1>3. \E token :
           LET t == [thread[c] EXCEPT !.pc = "token", !.sink = Parsed(@, token)]
           IN  IF t.sink.result = "none" THEN Goes(c, t, <<>>)
               ELSE \E r \in Handled(t) : Goes(c, r.t, r.msgs)
    BY Zenon DEF ReadToken
  <1>4. PICK token :
           LET t == [thread[c] EXCEPT !.pc = "token", !.sink = Parsed(@, token)]
           IN  IF t.sink.result = "none" THEN Goes(c, t, <<>>)
               ELSE \E r \in Handled(t) : Goes(c, r.t, r.msgs)
    BY <1>3, Zenon
  <1> DEFINE old == thread[c]
             sink == Parsed(old.sink, token)
             t == [old EXCEPT !.pc = "token", !.sink = sink]
  <1>5. IF t.sink.result = "none" THEN Goes(c, t, <<>>)
        ELSE \E r \in Handled(t) : Goes(c, r.t, r.msgs)
    BY <1>4, Zenon
  <1>6. /\ IsThread(t) /\ t.pc = "token" /\ t.stage = old.stage /\ t.round = old.round
        /\ t.turn = old.turn /\ t.s = old.s /\ t.wins = old.wins /\ t.why = old.why
    <2> HIDE DEF sink, old
    <2>1. IsThread(old)
      BY <1>2 DEF old
    <2> QED BY <2>1 DEF IsThread
  <1>7. StageInv(t)
    <2> HIDE DEF t
    <2> QED BY <1>1, <1>2, <1>6 DEF StageInv, InNewId
  <1>8. GameOf(t) = GameOf(old)
    <2> HIDE DEF t
    <2>1. t.pc # "ended" /\ old.pc # "ended"
      BY <1>1, <1>6
    <2> HIDE DEF old
    <2> QED BY <1>6, <2>1, SameGame
  <1> HIDE DEF t
  <1>9. CASE t.sink.result = "none"
    <2>1. Goes(c, t, <<>>)
      BY <1>5, <1>9
    <2>2. Moves(c, t)
      BY <2>1, GoesFacts
    <2> QED BY <1>1, <1>6, <1>7, <1>8, <2>2 DEF Sound, PlaysOn
  <1>10. CASE t.sink.result # "none"
    <2>1. PICK r \in Handled(t) : Goes(c, r.t, r.msgs)
      BY <1>5, <1>10
    <2>2. Moves(c, r.t)
      BY <2>1, GoesFacts
    <2>3. /\ IsThread(r.t) /\ StageInv(r.t) /\ r.t.pc \in {"token", "id", "ended"}
          /\ PlaysOn(t, r.t)
      BY <1>6, <1>7, HandledGame
    <2> QED BY <1>1, <1>8, <2>2, <2>3 DEF Sound, PlaysOn
  <1> QED BY <1>9, <1>10

LEMMA IdReturnMoves ==
    ASSUME ThreadsInv, NEW c \in Clients, IdReturn(c)
    PROVE  /\ \E u : /\ Moves(c, u) /\ Sound(thread[c], u)
                     /\ u.pc \in {"token", "ended"}
           /\ last_id_file' = last_id_file
  <1>1. thread[c].pc = "id_return" /\ IsThread(thread[c]) /\ StageInv(thread[c])
    BY DEF IdReturn, ThreadsInv
  <1>2. Moves(c, StartSession(thread[c]).t)
    BY GoesFacts DEF IdReturn
  <1> QED BY <1>1, <1>2, StartSessionGame DEF Sound, IdReturn

\* The numbers that a thread may hold after the step.
NextIds(t) ==
    CASE t.pc = "id" -> {IF last_id = 0 THEN last_id_file ELSE last_id}
      [] t.pc = "id_add" -> {t.id + 1}
      [] t.pc = "id_open" -> {t.id, last_id}
      [] OTHER -> {t.id}

\* The other steps of new_id, and the call that blocks.
LEMMA PlainMoves ==
    ASSUME ThreadsInv, NEW c \in Clients,
           Block(c) \/ IdRead(c) \/ IdIncrement(c) \/ IdOpen(c) \/ IdWrite(c)
    PROVE  /\ thread[c].pc \in {"token", "id", "id_add", "id_open", "id_write"}
           /\ \E u : /\ thread' = [thread EXCEPT ![c] = u] /\ Sound(thread[c], u)
                     /\ u.pc = NextPc(thread[c].pc) /\ u.id \in NextIds(thread[c])
  <1> DEFINE t == thread[c]
             pc == NextPc(t.pc)
             Moved == \E id \in NextIds(t) : thread' = [thread EXCEPT ![c] = At(t, pc, id)]
  <1>1. IsThread(t) /\ StageInv(t)
    BY DEF ThreadsInv
  <1>2. t.pc \in {"token", "id", "id_add", "id_open", "id_write"}
    BY DEF Block, IdRead, IdIncrement, IdOpen, IdWrite
  <1>3. ASSUME NEW id \in NextIds(t), thread' = [thread EXCEPT ![c] = At(t, pc, id)]
        PROVE  \E u : /\ thread' = [thread EXCEPT ![c] = u] /\ Sound(t, u)
                      /\ u.pc = pc /\ u.id \in NextIds(t)
    <2>1. Sound(t, At(t, pc, id)) /\ At(t, pc, id).pc = pc /\ At(t, pc, id).id = id
      BY <1>1, <1>2, PcMoves
    <2> QED BY <1>3, <2>1
  <1>4. ASSUME Block(c) \/ IdWrite(c) PROVE Moved
    <2>1. thread' = [thread EXCEPT ![c] = [t EXCEPT !.pc = pc]]
      BY <1>4 DEF Block, IdWrite, NextPc
    <2>2. [t EXCEPT !.pc = pc] = At(t, pc, t.id)
      <3> HIDE DEF pc, t
      <3> QED BY <1>1 DEF IsThread, At
    <2>3. t.id \in NextIds(t)
      BY <1>4 DEF Block, IdWrite, NextIds
    <2> HIDE DEF pc, t
    <2> QED BY <2>1, <2>2, <2>3
  <1>5. ASSUME IdRead(c) PROVE Moved
    <2> DEFINE id == IF last_id = 0 THEN last_id_file ELSE last_id
    <2>1. /\ thread' = [thread EXCEPT ![c] = [t EXCEPT !.pc = "id_add", !.id = id]]
          /\ t.pc = "id"
      BY <1>5 DEF IdRead
    <2>2. pc = "id_add" /\ id \in NextIds(t)
      BY <2>1 DEF NextPc, NextIds
    <2>3. thread' = [thread EXCEPT ![c] = At(t, pc, id)]
      BY <2>1, <2>2 DEF At
    <2> HIDE DEF pc, t, id
    <2> QED BY <2>2, <2>3
  <1>6. ASSUME IdIncrement(c) PROVE Moved
    <2> DEFINE id == t.id + 1
    <2>1. /\ thread' = [thread EXCEPT ![c] = [t EXCEPT !.pc = "id_open", !.id = id]]
          /\ t.pc = "id_add"
      BY <1>6 DEF IdIncrement
    <2>2. pc = "id_open" /\ id \in NextIds(t)
      BY <2>1 DEF NextPc, NextIds
    <2>3. thread' = [thread EXCEPT ![c] = At(t, pc, id)]
      BY <2>1, <2>2 DEF At
    <2> HIDE DEF pc, t, id
    <2> QED BY <2>2, <2>3
  <1>7. ASSUME IdOpen(c) PROVE Moved
    <2>1. PICK id \in {t.id, last_id} :
             thread' = [thread EXCEPT ![c] = [t EXCEPT !.pc = "id_write", !.id = id]]
      BY <1>7 DEF IdOpen
    <2>2. pc = "id_write" /\ id \in NextIds(t)
      BY <1>7 DEF IdOpen, NextPc, NextIds
    <2>3. thread' = [thread EXCEPT ![c] = At(t, pc, id)]
      BY <2>1, <2>2 DEF At
    <2> HIDE DEF pc, t
    <2> QED BY <2>2, <2>3
  <1>8. Moved
    BY <1>4, <1>5, <1>6, <1>7
  <1> QED BY <1>2, <1>3, <1>8

LEMMA ThreadMoves ==
    ASSUME ThreadsInv, NEW c \in Clients, Thread(c)
    PROVE  /\ Running(c)
           /\ \/ thread' = [d \in Clients |-> Idle]
              \/ \E u : thread' = [thread EXCEPT ![c] = u] /\ Sound(thread[c], u)
  <1>1. CASE ReadToken(c)
    <2>1. thread[c].pc \in {"token", "blocked"}
      BY <1>1, ReadTokenMoves
    <2>2. PICK u : Moves(c, u) /\ Sound(thread[c], u)
      BY <1>1, ReadTokenMoves
    <2> QED BY <2>1, <2>2 DEF Running, Moves, AllLost
  <1>2. CASE IdReturn(c)
    <2>1. thread[c].pc = "id_return"
      BY <1>2 DEF IdReturn
    <2>2. PICK u : Moves(c, u) /\ Sound(thread[c], u)
      BY <1>2, IdReturnMoves
    <2> QED BY <2>1, <2>2 DEF Running, Moves, AllLost
  <1>3. CASE Block(c) \/ IdRead(c) \/ IdIncrement(c) \/ IdOpen(c) \/ IdWrite(c)
    <2>1. Running(c)
      BY <1>3, PlainMoves DEF Running
    <2> QED BY <1>3, <2>1, PlainMoves
  <1> QED BY <1>1, <1>2, <1>3 DEF Thread

(***************************************************************************)
(* Clients, and the threads' invariant.                                    *)
(***************************************************************************)

IsClient(cl) ==
    cl \in [pc : {cl.pc}, problem : {cl.problem}, rounds_left : {cl.rounds_left},
            connection : {cl.connection}, goals : {cl.goals}, report : {cl.report},
            quit : {cl.quit}]

\* A client that has not connected has no thread.
ClientsInv ==
    /\ client = [c \in Clients |-> client[c]]
    /\ \A c \in Clients :
          IsClient(client[c]) /\ (client[c].pc = "start" => thread[c] = Idle)

\* A client that goes on does not start anew.
Continues(c) ==
    \E cl : client' = [client EXCEPT ![c] = cl] /\ IsClient(cl) /\ cl.pc # "start"

LEMMA SendsContinues ==
    ASSUME NEW c, NEW cl, IsClient(cl), cl.pc # "start", NEW symbols, Sends(c, cl, symbols)
    PROVE  Continues(c)
  BY DEF Sends, Continues

LEMMA NextProblemContinues ==
    ASSUME NEW c, NEW cl, IsClient(cl), NEW consumed, NextProblem(c, cl, consumed)
    PROVE  Continues(c)
  <1>1. CASE cl.problem = Len(ProblemsOf[c])
    <2> DEFINE new == [cl EXCEPT !.pc = "exited"]
    <2>1. client' = [client EXCEPT ![c] = new]
      BY <1>1 DEF NextProblem
    <2>2. IsClient(new) /\ new.pc = "exited"
      BY DEF IsClient
    <2> HIDE DEF new
    <2> QED BY <2>1, <2>2 DEF Continues
  <1>2. CASE cl.problem # Len(ProblemsOf[c])
    <2> DEFINE new == [cl EXCEPT !.pc = "session", !.problem = @ + 1, !.goals = 0]
    <2>1. Sends(c, new, Element("session-request", ProblemsOf[c][cl.problem + 1]))
      BY <1>2 DEF NextProblem
    <2>2. IsClient(new) /\ new.pc = "session"
      BY DEF IsClient
    <2> HIDE DEF new
    <2> QED BY <2>1, <2>2, SendsContinues
  <1> QED BY <1>1, <1>2

LEMMA NextRoundContinues ==
    ASSUME NEW c, NEW cl, IsClient(cl), NEW consumed, NextRound(c, cl, consumed)
    PROVE  Continues(c)
  <1>1. CASE cl.rounds_left = 0
    <2> DEFINE new == [cl EXCEPT !.pc = "end"]
    <2>1. client' = [client EXCEPT ![c] = new]
      BY <1>1 DEF NextRound
    <2>2. IsClient(new) /\ new.pc = "end"
      BY DEF IsClient
    <2> HIDE DEF new
    <2> QED BY <2>1, <2>2 DEF Continues
  <1>2. CASE cl.rounds_left # 0
    <2> DEFINE new == [cl EXCEPT !.pc = "round", !.rounds_left = @ - 1]
    <2>1. Sends(c, new, SingleTag("round-request"))
      BY <1>2 DEF NextRound
    <2>2. IsClient(new) /\ new.pc = "round"
      BY DEF IsClient
    <2> HIDE DEF new
    <2> QED BY <2>1, <2>2, SendsContinues
  <1> QED BY <1>1, <1>2

LEMMA ResponseContinues ==
    ASSUME ClientsInv, NEW c \in Clients, Active(c), NEW msg, NEW consumed,
           Response(c, msg, consumed)
    PROVE  Continues(c)
  <1> DEFINE cl == client[c]
             goals == IF msg.name = "end-round" THEN msg.n ELSE 0
             counted == [cl EXCEPT !.goals = @ + goals]
             reported == [cl EXCEPT !.report = IF msg.name = "end-session" THEN msg.n ELSE @]
             given_up == [cl EXCEPT !.quit = TRUE]
             initiated == [cl EXCEPT !.rounds_left = msg.n]
  <1>1. IsClient(cl) /\ cl.pc # "start"
    BY DEF ClientsInv, Active
  <1>2. IsClient(counted) /\ IsClient(reported) /\ IsClient(given_up) /\ IsClient(initiated)
    <2> HIDE DEF cl
    <2> QED BY <1>1 DEF IsClient
  <1>3. ASSUME NEW pc, pc # "start", client' = [client EXCEPT ![c].pc = pc]
        PROVE  Continues(c)
    <2> DEFINE new == [cl EXCEPT !.pc = pc]
    <2>1. client' = [client EXCEPT ![c] = new]
      BY <1>3
    <2>2. IsClient(new) /\ new.pc = pc
      <3> HIDE DEF cl
      <3> QED BY <1>1 DEF IsClient
    <2> HIDE DEF new
    <2> QED BY <1>3, <2>1, <2>2 DEF Continues
  <1>4. Decides(c, cl, consumed) => Continues(c)
    BY <1>1, SendsContinues DEF Decides
  <1>5. \/ NextRound(c, initiated, consumed) \/ NextRound(c, counted, consumed)
        \/ client' = [client EXCEPT ![c].pc = "state"]
        \/ client' = [client EXCEPT ![c].pc = "end"]
        \/ Decides(c, cl, consumed)
        \/ NextProblem(c, reported, consumed) \/ NextProblem(c, given_up, consumed)
    BY Zenon DEF Response
  <1> HIDE DEF counted, reported, given_up, initiated
  <1> QED BY <1>2, <1>3, <1>4, <1>5, NextRoundContinues, NextProblemContinues

\* What a step does to threads and clients.
LEMMA StepKinds ==
    ASSUME ThreadsInv, ClientsInv, [Next]_vars
    PROVE  \/ \E c \in Clients : \E u :
                 /\ Running(c) /\ thread' = [thread EXCEPT ![c] = u] /\ Sound(thread[c], u)
                 /\ client' = client
           \/ thread' = [d \in Clients |-> Idle] /\ client' = client
           \/ \E c \in Clients : Connect(c)
           \/ \E c \in Clients : Continues(c) /\ client[c].pc # "start" /\ thread' = thread
           \/ \E c \in Clients : CannotConnect(c)
           \/ thread' = thread /\ client' = client
  <1>1. CASE ServerStep
    <2>1. client' = client
      BY <1>1 DEF ServerStep
    <2>2. CASE Tick \/ Restart
      BY <2>1, <2>2 DEF Tick, Restart
    <2>3. CASE \E c \in Clients : Thread(c)
      BY <2>1, <2>3, ThreadMoves
    <2> QED BY <1>1, <2>2, <2>3 DEF ServerStep
  <1>2. ASSUME NEW c \in Clients, ClientReads(c)
        PROVE  Continues(c) /\ client[c].pc # "start" /\ thread' = thread
    <2>1. Active(c) /\ thread' = thread
      BY <1>2 DEF ClientReads
    <2>2. \/ Response(c, Head(toClient[c]), [toClient EXCEPT ![c] = Tail(@)])
          \/ Response(c, Msg("null", 0), toClient)
      BY <1>2 DEF ClientReads
    <2>3. Continues(c)
      BY <2>1, <2>2, ResponseContinues
    <2> QED BY <2>1, <2>3 DEF Active
  <1>3. ASSUME NEW c \in Clients, Killed(c)
        PROVE  Continues(c) /\ client[c].pc # "start" /\ thread' = thread
    <2> DEFINE new == [client[c] EXCEPT !.pc = "exited", !.quit = TRUE]
    <2>1. /\ client' = [client EXCEPT ![c] = new]
          /\ client[c].pc # "start" /\ thread' = thread
      BY <1>3 DEF Killed, Active
    <2>2. IsClient(new) /\ new.pc = "exited"
      <3>1. IsClient(client[c])
        BY DEF ClientsInv
      <3> QED BY <3>1 DEF IsClient
    <2> HIDE DEF new
    <2> QED BY <2>1, <2>2 DEF Continues
  <1>4. CASE UNCHANGED vars
    BY <1>4 DEF vars, serverVars
  <1> QED BY <1>1, <1>2, <1>3, <1>4 DEF Next, ClientStep

LEMMA ThreadsInit ==
    Init => ThreadsInv /\ ClientsInv
  <1> SUFFICES ASSUME Init PROVE ThreadsInv /\ ClientsInv
    OBVIOUS
  <1>1. IsThread(Idle) /\ StageInv(Idle)
    BY DEF IsThread, StageInv, InNewId, Idle
  <1>2. IsClient(NewClient)
    BY DEF IsClient, NewClient
  <1>3. thread = [d \in Clients |-> Idle] /\ client = [c \in Clients |-> NewClient]
    BY DEF Init, ServerInit
  <1> QED BY <1>1, <1>2, <1>3 DEF ThreadsInv, ClientsInv

LEMMA ThreadsStep ==
    ASSUME ThreadsInv, ClientsInv, [Next]_vars
    PROVE  ThreadsInv' /\ ClientsInv'
  <1>1. IsThread(Idle) /\ StageInv(Idle) /\ Idle.pc = "none"
    BY DEF IsThread, StageInv, InNewId, Idle
  <1>2. ASSUME NEW c \in Clients, NEW u, Running(c), Sound(thread[c], u),
               thread' = [thread EXCEPT ![c] = u], client' = client
        PROVE  ThreadsInv' /\ ClientsInv'
    <2>1. client[c].pc # "start"
      BY <1>1, <1>2 DEF ClientsInv, Running
    <2>2. IsThread(u) /\ StageInv(u)
      BY <1>2 DEF Sound
    <2>3. \A d \in Clients : thread'[d] = IF d = c THEN u ELSE thread[d]
      BY <1>2 DEF ThreadsInv
    <2>4. thread' = [d \in Clients |-> thread'[d]]
      BY <1>2 DEF ThreadsInv
    <2> QED BY <1>2, <2>1, <2>2, <2>3, <2>4 DEF ThreadsInv, ClientsInv
  <1>3. CASE thread' = [d \in Clients |-> Idle] /\ client' = client
    BY <1>1, <1>3 DEF ThreadsInv, ClientsInv
  <1>4. ASSUME NEW c \in Clients, Connect(c) PROVE ThreadsInv' /\ ClientsInv'
    <2> DEFINE u == Reading(Idle, "init")
               new == [client[c] EXCEPT !.pc = "session", !.problem = 1, !.connection = restarts]
    <2>1. /\ thread' = [thread EXCEPT ![c] = u]
          /\ client' = [client EXCEPT ![c] = new]
      BY <1>4 DEF Connect, Accept
    <2>2. IsThread(u) /\ StageInv(u)
      <3>1. /\ IsThread(u) /\ u.pc = "token" /\ u.stage = "init" /\ u.turn = Idle.turn
            /\ u.s = Idle.s /\ u.why = Idle.why
        BY <1>1, ReadingShape
      <3>2. Idle.turn = 0 /\ Idle.s = InitState /\ Idle.why = ""
        BY DEF Idle
      <3> HIDE DEF u
      <3> QED BY <3>1, <3>2 DEF StageInv, InNewId
    <2>3. IsClient(new) /\ new.pc = "session"
      <3>1. IsClient(client[c])
        BY DEF ClientsInv
      <3> QED BY <3>1 DEF IsClient
    <2> HIDE DEF u, new
    <2>4. ThreadsInv'
      BY <2>1, <2>2 DEF ThreadsInv
    <2>5. ClientsInv'
      BY <2>1, <2>3 DEF ClientsInv, ThreadsInv
    <2> QED BY <2>4, <2>5
  <1>5. ASSUME NEW c \in Clients, Continues(c), thread' = thread
        PROVE  ThreadsInv' /\ ClientsInv'
    <2>1. PICK cl : client' = [client EXCEPT ![c] = cl] /\ IsClient(cl) /\ cl.pc # "start"
      BY <1>5 DEF Continues
    <2> QED BY <1>5, <2>1 DEF ThreadsInv, ClientsInv
  <1>6. ASSUME NEW c \in Clients, CannotConnect(c) PROVE ThreadsInv' /\ ClientsInv'
    <2> DEFINE new == [client[c] EXCEPT !.pc = "exited"]
    <2>1. client' = [client EXCEPT ![c] = new] /\ thread' = thread
      BY <1>6 DEF CannotConnect, serverVars
    <2>2. IsClient(new) /\ new.pc = "exited"
      <3>1. IsClient(client[c])
        BY DEF ClientsInv
      <3> QED BY <3>1 DEF IsClient
    <2> HIDE DEF new
    <2> QED BY <2>1, <2>2 DEF ThreadsInv, ClientsInv
  <1>7. CASE thread' = thread /\ client' = client
    BY <1>7 DEF ThreadsInv, ClientsInv
  <1> QED BY <1>2, <1>3, <1>4, <1>5, <1>6, <1>7, StepKinds

LEMMA ThreadsInvariance == Spec => [](ThreadsInv /\ ClientsInv)
  BY ThreadsInit, ThreadsStep, PTL DEF Spec

(***************************************************************************)
(* Sessions are games.                                                     *)
(***************************************************************************)

LEMMA NoGames ==
    GameOf(Idle) = Game!NoGame /\ GameOf(Reading(Idle, "init")) = Game!NoGame
  <1>1. IsThread(Idle) /\ Idle.pc = "none" /\ Idle.stage = "init"
    BY DEF IsThread, Idle
  <1>2. Reading(Idle, "init").pc = "token" /\ Reading(Idle, "init").stage = "init"
    BY <1>1, ReadingShape
  <1>3. Phase(Idle) = "none" /\ Phase(Reading(Idle, "init")) = "none"
    BY <1>1, <1>2 DEF Phase
  <1> QED BY <1>3 DEF GameOf, NoGame, Game!NoGame

LEMMA GameStep ==
    ASSUME ThreadsInv, ClientsInv, [Next]_vars
    PROVE  \/ Game!Next
           \/ UNCHANGED [c \in Clients |-> GameOf(thread[c])]
  <1> DEFINE games == [c \in Clients |-> GameOf(thread[c])]
  <1>1. ASSUME NEW c \in Clients, NEW u, Sound(thread[c], u), thread' = [thread EXCEPT ![c] = u]
        PROVE  Game!Next \/ UNCHANGED games
    <2>1. \A d \in Clients : thread'[d] = IF d = c THEN u ELSE thread[d]
      BY <1>1 DEF ThreadsInv
    <2>2. games' = [d \in Clients |-> GameOf(thread'[d])]
      OBVIOUS
    <2>3. games' = [games EXCEPT ![c] = GameOf(u)]
      BY <2>1, <2>2
    <2>4. CASE GameOf(u) = GameOf(thread[c])
      BY <2>3, <2>4
    <2>5. CASE GameOf(u) \in Game!After(GameOf(thread[c]))
      <3>1. Game!Play(c)
        BY <2>3, <2>5 DEF Game!Play
      <3> QED BY <3>1 DEF Game!Next
    <2> QED BY <1>1, <2>4, <2>5 DEF Sound, PlaysOn
  <1>2. ASSUME thread' = [d \in Clients |-> Idle] PROVE Game!Next \/ UNCHANGED games
    <2>1. games' = [c \in Clients |-> Game!NoGame]
      BY <1>2, NoGames
    <2> QED BY <2>1 DEF Game!Next, Game!Lost
  <1>3. ASSUME NEW c \in Clients, Connect(c) PROVE UNCHANGED games
    <2>1. thread[c] = Idle /\ thread' = [thread EXCEPT ![c] = Reading(Idle, "init")]
      BY <1>3 DEF Connect, Accept, ClientsInv
    <2>2. \A d \in Clients : GameOf(thread'[d]) = GameOf(thread[d])
      BY <2>1, NoGames DEF ThreadsInv
    <2> QED BY <2>2
  <1>4. ASSUME thread' = thread PROVE UNCHANGED games
    BY <1>4
  <1>5. ASSUME NEW c \in Clients, CannotConnect(c) PROVE thread' = thread
    BY <1>5 DEF CannotConnect, serverVars
  <1> HIDE DEF games
  <1>6. Game!Next \/ UNCHANGED games
    BY <1>1, <1>2, <1>3, <1>4, <1>5, StepKinds
  <1> QED BY <1>6 DEF games

\* Whatever clients send, and whoever dies, a session is a game: only enabled
\* actions are carried out, every round starts from the initial state and keeps
\* within its turns, and successes are counted.
THEOREM SessionsAreGames == Spec => ImplementsGame
  <1>1. Init => Game!Init
    <2> SUFFICES ASSUME Init PROVE Game!Init
      OBVIOUS
    <2>1. thread = [d \in Clients |-> Idle]
      BY DEF Init, ServerInit
    <2> QED BY <2>1, NoGames DEF Game!Init
  <1>2. ThreadsInv /\ ClientsInv /\ [Next]_vars
          => [Game!Next]_([c \in Clients |-> GameOf(thread[c])])
    BY GameStep
  <1> QED BY <1>1, <1>2, ThreadsInvariance, PTL DEF Spec, ImplementsGame, Game!Spec

(***************************************************************************)
(* Identifiers.                                                            *)
(***************************************************************************)

\* The identifiers that calls have returned which no other overlapped.
Lone == {issued[i].id : i \in {j \in DOMAIN issued : issued[j].alone}}

Issue == [id : Nat, alone : BOOLEAN]

IdTypes ==
    /\ last_id \in Nat /\ last_id_file \in Nat /\ issued \in Seq(Issue)
    /\ \A c \in Clients :
          /\ thread[c].pc \in {"id_add", "id_open", "id_write"} => thread[c].id \in Nat
          /\ thread[c].pc \in {"id_open", "id_write", "id_return"} => last_id > 0

\* A call that is alone finds the counter and the file as it left them.
AloneInv ==
    \A c \in alone :
        /\ c \in Clients /\ InNewId(thread[c])
        /\ \A d \in Clients \ {c} : ~InNewId(thread[d])
        /\ thread[c].pc \in {"id_open", "id_write"} => thread[c].id = last_id
        /\ thread[c].pc = "id_return" => last_id_file = last_id

\* Whatever is stored next, the counter and the file do not fall below n.
Above(n) ==
    /\ last_id # 0 => n <= last_id
    /\ \A c \in Clients :
          thread[c].pc \in {"id_add", "id_open", "id_write"} => n <= thread[c].id
    /\ n <= last_id_file \/ \E c \in Clients : thread[c].pc = "id_write"
    /\ \A c \in alone : thread[c].pc \in {"id_open", "id_write", "id_return"} => n < last_id

IdInv ==
    /\ IdTypes /\ AloneInv
    /\ ~torn => (\A n \in Lone : Above(n)) /\ SerialIdsUnique

LEMMA LoneIsNat ==
    ASSUME IdTypes
    PROVE  Lone \subseteq Nat
  <1> SUFFICES ASSUME NEW i \in DOMAIN issued PROVE issued[i].id \in Nat
    BY DEF Lone
  <1>1. issued \in Seq(Issue)
    BY DEF IdTypes
  <1>2. issued[i] \in Issue
    BY <1>1
  <1> QED BY <1>2 DEF Issue

\* Steps after which all threads are where they were in new_id.
LEMMA IdFrame ==
    ASSUME IdInv, UNCHANGED <<last_id, last_id_file, issued, alone, torn>>,
           \A d \in Clients : \/ thread'[d] = thread[d]
                              \/ /\ thread[d].pc \notin {"id_add", "id_open", "id_write", "id_return"}
                                 /\ thread'[d].pc \notin {"id_add", "id_open", "id_write", "id_return"}
    PROVE  IdInv'
  <1>1. \A d \in Clients :
          /\ InNewId(thread'[d]) <=> InNewId(thread[d])
          /\ InNewId(thread[d]) => thread'[d] = thread[d]
    BY DEF InNewId
  <1>2. IdTypes'
    BY <1>1 DEF IdInv, IdTypes, InNewId
  <1>3. AloneInv'
    BY <1>1 DEF IdInv, AloneInv, InNewId
  <1>4. Lone' = Lone /\ (SerialIdsUnique' <=> SerialIdsUnique)
    BY DEF Lone, SerialIdsUnique
  <1>5. ASSUME NEW n, Above(n) PROVE Above(n)'
    <2>1. \A c \in alone : c \in Clients
      BY DEF IdInv, AloneInv
    <2> QED BY <1>1, <1>5, <2>1 DEF Above, InNewId
  <1> QED BY <1>2, <1>3, <1>4, <1>5 DEF IdInv

\* The process ends.
LEMMA IdLost ==
    ASSUME ThreadsInv, IdTypes, NEW new \in Seq(Issue), issued' = new,
           thread' = [d \in Clients |-> Idle], last_id' = 0, alone' = {},
           last_id_file' = last_id_file,
           torn' = (torn \/ \E d \in Clients : thread[d].pc = "id_write"),
           ~torn => /\ \A n \in Lone' : n <= last_id_file
                                          \/ \E c \in Clients : thread[c].pc = "id_write"
                    /\ \A i, j \in DOMAIN new :
                          i # j /\ new[i].alone /\ new[j].alone => new[i].id # new[j].id
    PROVE  IdInv'
  <1>1. \A d \in Clients : thread'[d].pc = "none"
    BY DEF Idle
  <1>2. IdTypes' /\ AloneInv'
    BY <1>1 DEF IdTypes, AloneInv
  <1>3. CASE ~torn'
    <2>1. \A n \in Lone' : n <= last_id_file
      BY <1>3
    <2>2. \A n \in Lone' : Above(n)'
      BY <1>1, <2>1 DEF Above
    <2>3. SerialIdsUnique'
      BY <1>3 DEF SerialIdsUnique
    <2> QED BY <1>2, <2>2, <2>3 DEF IdInv
  <1> QED BY <1>2, <1>3 DEF IdInv

LEMMA IdReadToken ==
    ASSUME ThreadsInv, IdInv, NEW c \in Clients, ReadToken(c)
    PROVE  IdInv'
  <1>1. /\ thread[c].pc \in {"token", "blocked"}
        /\ last_id_file' = last_id_file /\ issued' = issued
    BY ReadTokenMoves
  <1>2. PICK u : Moves(c, u) /\ u.pc \in {"token", "id", "ended"}
    BY ReadTokenMoves
  <1>3. IdTypes /\ issued \in Seq(Issue)
    BY DEF IdInv, IdTypes
  <1>4. CASE AllLost
    <2>1. ~torn => /\ \A n \in Lone : n <= last_id_file
                                        \/ \E d \in Clients : thread[d].pc = "id_write"
                   /\ SerialIdsUnique
      BY DEF IdInv, Above
    <2>2. Lone' = Lone
      BY <1>1 DEF Lone
    <2> QED BY <1>1, <1>3, <1>4, <2>1, <2>2, IdLost DEF AllLost, SerialIdsUnique
  <1>5. CASE ~AllLost
    <2>1. /\ thread' = [thread EXCEPT ![c] = u]
          /\ last_id' = last_id /\ torn' = torn /\ alone' = alone \ {c}
      BY <1>2, <1>5 DEF Moves
    <2>2. \A d \in Clients : thread'[d] = IF d = c THEN u ELSE thread[d]
      BY <2>1 DEF ThreadsInv
    <2>3. c \notin alone
      BY <1>1 DEF IdInv, AloneInv, InNewId
    <2>4. alone' = alone
      BY <2>1, <2>3
    <2>5. \A d \in Clients :
             \/ thread'[d] = thread[d]
             \/ /\ thread[d].pc \notin {"id_add", "id_open", "id_write", "id_return"}
                /\ thread'[d].pc \notin {"id_add", "id_open", "id_write", "id_return"}
      BY <1>1, <1>2, <2>2
    <2> QED BY <1>1, <2>1, <2>4, <2>5, IdFrame
  <1> QED BY <1>4, <1>5

\* What issued becomes when new_id returns.
LEMMA Returned ==
    ASSUME IdInv, NEW c \in Clients, thread[c].pc = "id_return",
           issued' = Append(issued, [id |-> last_id, alone |-> c \in alone])
    PROVE  /\ issued' \in Seq(Issue)
           /\ Lone' = IF c \in alone THEN Lone \cup {last_id} ELSE Lone
           /\ ~torn => \A i, j \in DOMAIN issued' :
                         i # j /\ issued'[i].alone /\ issued'[j].alone
                            => issued'[i].id # issued'[j].id
  <1> DEFINE new == [id |-> last_id, alone |-> c \in alone]
             k == Len(issued) + 1
  <1>1. new \in Issue /\ new.id = last_id /\ (new.alone <=> c \in alone)
    <2> DEFINE b == c \in alone
    <2>1. last_id \in Nat /\ b \in BOOLEAN
      BY DEF IdInv, IdTypes
    <2> HIDE DEF b
    <2>2. [id |-> last_id, alone |-> b] \in Issue
      BY <2>1 DEF Issue
    <2>3. [id |-> last_id, alone |-> b].alone = b /\ [id |-> last_id, alone |-> b].id = last_id
      OBVIOUS
    <2> QED BY <2>2, <2>3 DEF b
  <1>2. issued \in Seq(Issue)
    BY DEF IdInv, IdTypes
  <1>3. issued' = Append(issued, new)
    OBVIOUS
  <1> HIDE DEF new
  <1>4. /\ issued' \in Seq(Issue) /\ DOMAIN issued' = DOMAIN issued \cup {k}
        /\ k \notin DOMAIN issued /\ issued'[k] = new
        /\ \A i \in DOMAIN issued : issued'[i] = issued[i]
    BY <1>1, <1>2, <1>3
  <1>5. Lone' = IF c \in alone THEN Lone \cup {last_id} ELSE Lone
    <2>1. Lone' = {issued'[i].id : i \in {j \in DOMAIN issued' : issued'[j].alone}}
      BY DEF Lone
    <2>2. CASE c \in alone
      <3>1. {j \in DOMAIN issued' : issued'[j].alone}
              = {j \in DOMAIN issued : issued[j].alone} \cup {k}
        BY <1>1, <1>4, <2>2
      <3> QED BY <1>1, <1>4, <2>1, <2>2, <3>1 DEF Lone
    <2>3. CASE c \notin alone
      <3>1. {j \in DOMAIN issued' : issued'[j].alone} = {j \in DOMAIN issued : issued[j].alone}
        BY <1>1, <1>4, <2>3
      <3> QED BY <1>1, <1>4, <2>1, <2>3, <3>1 DEF Lone
    <2> QED BY <2>2, <2>3
  <1>6. ASSUME ~torn, NEW i \in DOMAIN issued', NEW j \in DOMAIN issued', i # j,
               issued'[i].alone, issued'[j].alone
        PROVE  issued'[i].id # issued'[j].id
    <2>1. ASSUME c \in alone, NEW l \in DOMAIN issued, issued[l].alone
          PROVE  issued[l].id # last_id
      <3>1. issued[l].id \in Lone
        BY <2>1 DEF Lone
      <3>2. issued[l].id < last_id
        BY <1>6, <2>1, <3>1 DEF IdInv, Above
      <3>3. issued[l].id \in Nat /\ last_id \in Nat
        BY <3>1, LoneIsNat DEF IdInv, IdTypes
      <3> QED BY <3>2, <3>3
    <2>2. CASE i # k /\ j # k
      BY <1>4, <1>6, <2>2 DEF IdInv, SerialIdsUnique
    <2>3. CASE i = k
      BY <1>1, <1>4, <1>6, <2>1, <2>3
    <2>4. CASE j = k
      BY <1>1, <1>4, <1>6, <2>1, <2>4
    <2> QED BY <2>2, <2>3, <2>4
  <1> QED BY <1>4, <1>5, <1>6

LEMMA IdReturnKeeps ==
    ASSUME ThreadsInv, IdInv, NEW c \in Clients, IdReturn(c)
    PROVE  IdInv'
  <1>1. /\ thread[c].pc = "id_return" /\ last_id_file' = last_id_file
        /\ issued' = Append(issued, [id |-> last_id, alone |-> c \in alone])
    BY DEF IdReturn
  <1>2. PICK u : Moves(c, u) /\ u.pc \in {"token", "ended"}
    BY IdReturnMoves
  <1>3. IdTypes /\ issued' \in Seq(Issue) /\ last_id > 0 /\ last_id \in Nat
    BY <1>1, Returned DEF IdInv, IdTypes
  <1>4. Lone' = IF c \in alone THEN Lone \cup {last_id} ELSE Lone
    BY <1>1, Returned
  <1>5. ~torn => \A i, j \in DOMAIN issued' :
           i # j /\ issued'[i].alone /\ issued'[j].alone => issued'[i].id # issued'[j].id
    BY <1>1, Returned
  <1>6. c \in alone => last_id_file = last_id /\ \A d \in Clients \ {c} : ~InNewId(thread[d])
    BY <1>1 DEF IdInv, AloneInv
  <1>7. CASE AllLost
    <2>1. ~torn => \A n \in Lone' : n <= last_id_file
                                     \/ \E d \in Clients : thread[d].pc = "id_write"
      BY <1>3, <1>4, <1>6 DEF IdInv, Above
    <2> DEFINE new == issued'
    <2>2. /\ new \in Seq(Issue) /\ issued' = new
          /\ ~torn => \A i, j \in DOMAIN new :
                         i # j /\ new[i].alone /\ new[j].alone => new[i].id # new[j].id
      BY <1>3, <1>5
    <2> HIDE DEF new
    <2> QED BY <1>1, <1>3, <1>7, <2>1, <2>2, IdLost DEF AllLost
  <1>8. CASE ~AllLost
    <2>1. /\ thread' = [thread EXCEPT ![c] = u]
          /\ last_id' = last_id /\ torn' = torn /\ alone' = alone \ {c}
      BY <1>2, <1>8 DEF Moves
    <2>2. \A d \in Clients : thread'[d] = IF d = c THEN u ELSE thread[d]
      BY <2>1 DEF ThreadsInv
    <2>3. IdTypes'
      BY <1>1, <1>2, <1>3, <2>1, <2>2 DEF IdTypes
    <2>4. AloneInv'
      <3>1. ASSUME NEW d \in alone' PROVE d \in Clients /\ d # c /\ thread'[d] = thread[d]
        BY <2>1, <2>2, <3>1 DEF IdInv, AloneInv
      <3>2. ~InNewId(u)
        BY <1>2 DEF InNewId
      <3> QED BY <1>1, <2>1, <2>2, <3>1, <3>2 DEF IdInv, AloneInv
    <2>5. SerialIdsUnique'
      BY <1>5, <2>1 DEF SerialIdsUnique
    <2>6. ASSUME ~torn, NEW n \in Lone' PROVE Above(n)'
      <3>1. CASE n \in Lone
        <4>1. Above(n)
          BY <2>6, <3>1 DEF IdInv
        <4>2. \A d \in alone' : thread'[d] = thread[d] /\ d \in alone
          BY <2>1, <2>2 DEF IdInv, AloneInv
        <4> QED BY <1>1, <1>2, <2>1, <2>2, <4>1, <4>2 DEF Above
      <3>2. CASE n \notin Lone
        <4>1. c \in alone /\ n = last_id
          BY <1>4, <2>6, <3>2
        <4>2. alone' = {}
          BY <1>1, <2>1, <4>1 DEF IdInv, AloneInv, InNewId
        <4>3. \A d \in Clients : thread'[d].pc \notin {"id_add", "id_open", "id_write"}
          BY <1>2, <1>6, <2>2, <4>1 DEF InNewId
        <4> QED BY <1>1, <1>3, <1>6, <2>1, <4>1, <4>2, <4>3 DEF Above
      <3> QED BY <3>1, <3>2
    <2> QED BY <2>1, <2>3, <2>4, <2>5, <2>6 DEF IdInv
  <1> QED BY <1>7, <1>8

\* The steps of new_id.
LEMMA IdPlain ==
    ASSUME ThreadsInv, IdInv, NEW c \in Clients,
           IdRead(c) \/ IdIncrement(c) \/ IdOpen(c) \/ IdWrite(c)
    PROVE  IdInv'
  <1> DEFINE t == thread[c]
  <1>1. PICK u : /\ thread' = [thread EXCEPT ![c] = u]
                 /\ u.pc = NextPc(t.pc) /\ u.id \in NextIds(t)
    BY PlainMoves
  <1>2. \A d \in Clients : thread'[d] = IF d = c THEN u ELSE thread[d]
    BY <1>1 DEF ThreadsInv
  <1>3. issued' = issued /\ torn' = torn
    BY DEF IdRead, IdIncrement, IdOpen, IdWrite, ids
  <1>4. Lone' = Lone /\ (SerialIdsUnique' <=> SerialIdsUnique) /\ Lone \subseteq Nat
    BY <1>3, LoneIsNat DEF Lone, SerialIdsUnique, IdInv
  <1>5. IdTypes /\ AloneInv
    BY DEF IdInv
  <1>6. ASSUME IdTypes', AloneInv', ~torn => \A n \in Lone : Above(n)' PROVE IdInv'
    BY <1>3, <1>4, <1>6 DEF IdInv
  <1>7. ASSUME NEW n \in Lone, ~torn PROVE Above(n) /\ n \in Nat
    BY <1>4, <1>7 DEF IdInv
  <1>8. InNewId(t) => alone \subseteq {c}
    BY <1>5 DEF AloneInv
  <1> HIDE DEF t
  <1>9. CASE IdRead(c)
    <2>1. /\ t.pc = "id" /\ last_id' = last_id /\ last_id_file' = last_id_file
          /\ \/ alone' = {}
             \/ alone' = {c} /\ \A d \in Clients \ {c} : ~InNewId(thread[d])
      BY <1>9 DEF IdRead, ids, t
    <2>2. u.pc = "id_add" /\ u.id = IF last_id = 0 THEN last_id_file ELSE last_id
      BY <1>1, <2>1 DEF NextPc, NextIds
    <2>3. IdTypes'
      BY <1>2, <1>3, <1>5, <2>1, <2>2 DEF IdTypes
    <2>4. AloneInv'
      <3>1. InNewId(u) /\ u.pc \notin {"id_open", "id_write", "id_return"}
        BY <2>2 DEF InNewId
      <3> QED BY <1>2, <2>1, <3>1 DEF AloneInv
    <2>5. ASSUME NEW n \in Lone, ~torn PROVE Above(n)'
      <3>1. Above(n) /\ n \in Nat
        BY <1>7, <2>5
      <3>2. n <= u.id
        BY <1>5, <2>2, <3>1 DEF Above, IdTypes
      <3>3. (\E d \in Clients : thread[d].pc = "id_write")
              => \E d \in Clients : thread'[d].pc = "id_write"
        BY <1>2, <2>1 DEF t
      <3> QED BY <1>2, <2>1, <2>2, <3>1, <3>2, <3>3 DEF Above
    <2> QED BY <1>6, <2>3, <2>4, <2>5
  <1>10. CASE IdIncrement(c)
    <2>1. /\ t.pc = "id_add" /\ last_id' = t.id + 1 /\ last_id_file' = last_id_file
          /\ alone' = alone
      BY <1>10 DEF IdIncrement, ids, t
    <2>0. alone \subseteq {c}
      BY <1>8, <2>1 DEF InNewId
    <2>2. u.pc = "id_open" /\ u.id = t.id + 1 /\ t.id \in Nat
      BY <1>1, <1>5, <2>1 DEF NextPc, NextIds, IdTypes, t
    <2>3. IdTypes'
      BY <1>2, <1>3, <1>5, <2>1, <2>2 DEF IdTypes
    <2>4. AloneInv'
      BY <1>2, <1>5, <2>0, <2>1, <2>2 DEF AloneInv, InNewId
    <2>5. ASSUME NEW n \in Lone, ~torn PROVE Above(n)'
      <3>1. Above(n) /\ n \in Nat /\ n <= t.id
        BY <1>7, <2>1, <2>5 DEF Above, t
      <3>2. n < last_id' /\ n <= last_id' /\ n <= u.id
        BY <2>1, <2>2, <3>1
      <3>3. (\E d \in Clients : thread[d].pc = "id_write")
              => \E d \in Clients : thread'[d].pc = "id_write"
        BY <1>2, <2>1 DEF t
      <3> QED BY <1>2, <2>0, <2>1, <2>2, <3>1, <3>2, <3>3 DEF Above
    <2> QED BY <1>6, <2>3, <2>4, <2>5
  <1>11. CASE IdOpen(c)
    <2>1. /\ t.pc = "id_open" /\ last_id' = last_id /\ last_id_file' = 0
          /\ alone' = alone /\ alone \subseteq {c}
      BY <1>8, <1>11 DEF IdOpen, t, InNewId
    <2>2. u.pc = "id_write" /\ u.id \in {t.id, last_id} /\ t.id \in Nat /\ last_id > 0
      BY <1>1, <1>5, <2>1 DEF NextPc, NextIds, IdTypes, t
    <2>3. IdTypes'
      BY <1>2, <1>3, <1>5, <2>1, <2>2 DEF IdTypes
    <2>4. AloneInv'
      BY <1>2, <1>5, <2>1, <2>2 DEF AloneInv, InNewId, t
    <2>5. ASSUME NEW n \in Lone, ~torn PROVE Above(n)'
      <3>1. Above(n) /\ n <= t.id /\ n <= last_id
        BY <1>5, <1>7, <2>1, <2>2, <2>5 DEF Above, IdTypes, t
      <3>2. \E d \in Clients : thread'[d].pc = "id_write"
        BY <1>2, <2>2
      <3>3. n <= u.id
        BY <2>2, <3>1
      <3>4. \A d \in alone : n < last_id
        BY <2>1, <3>1 DEF Above, t
      <3> QED BY <1>2, <2>1, <2>2, <3>1, <3>2, <3>3, <3>4 DEF Above
    <2> QED BY <1>6, <2>3, <2>4, <2>5
  <1>12. CASE IdWrite(c)
    <2>1. /\ t.pc = "id_write" /\ last_id' = last_id /\ last_id_file' = t.id
          /\ alone' = alone /\ alone \subseteq {c}
      BY <1>8, <1>12 DEF IdWrite, t, InNewId
    <2>2. u.pc = "id_return" /\ t.id \in Nat /\ last_id > 0
      BY <1>1, <1>5, <2>1 DEF NextPc, IdTypes, t
    <2>3. IdTypes'
      BY <1>2, <1>3, <1>5, <2>1, <2>2 DEF IdTypes
    <2>4. AloneInv'
      BY <1>2, <1>5, <2>1, <2>2 DEF AloneInv, InNewId, t
    <2>5. ASSUME NEW n \in Lone, ~torn PROVE Above(n)'
      <3>1. Above(n) /\ n <= t.id /\ \A d \in alone : n < last_id
        BY <1>5, <1>7, <2>1, <2>2, <2>5 DEF Above, IdTypes, t
      <3> QED BY <1>2, <2>1, <2>2, <3>1 DEF Above
    <2> QED BY <1>6, <2>3, <2>4, <2>5
  <1> QED BY <1>9, <1>10, <1>11, <1>12

LEMMA IdStep ==
    ASSUME ThreadsInv, ClientsInv, IdInv, [Next]_vars
    PROVE  IdInv'
  <1> USE DEF serverVars, ids
  <1>1. ASSUME UNCHANGED <<thread, last_id, last_id_file, issued, alone, torn>> PROVE IdInv'
    BY <1>1, IdFrame
  <1>2. CASE ServerStep
    <2>1. CASE Tick \/ Restart
      BY <1>1, <2>1 DEF Tick, Restart
    <2>2. ASSUME NEW c \in Clients, Block(c) PROVE IdInv'
      <3>1. /\ thread[c].pc = "token"
            /\ UNCHANGED <<last_id, last_id_file, issued, alone, torn>>
        BY <2>2 DEF Block
      <3>2. \A d \in Clients : /\ thread'[d] = thread[d] \/ d = c
                               /\ thread'[c].pc = "blocked"
        <4>1. PICK u : thread' = [thread EXCEPT ![c] = u] /\ u.pc = "blocked"
          BY <2>2, <3>1, PlainMoves DEF NextPc
        <4> QED BY <4>1 DEF ThreadsInv
      <3> QED BY <3>1, <3>2, IdFrame
    <2>3. ASSUME NEW c \in Clients, Thread(c) PROVE IdInv'
      BY <2>2, <2>3, IdReadToken, IdReturnKeeps, IdPlain DEF Thread
    <2> QED BY <1>2, <2>1, <2>3 DEF ServerStep
  <1>3. ASSUME NEW c \in Clients, Connect(c) PROVE IdInv'
    <2> DEFINE u == Reading(Idle, "init")
    <2>1. /\ thread' = [thread EXCEPT ![c] = u] /\ thread[c] = Idle
          /\ UNCHANGED <<last_id, last_id_file, issued, alone, torn>>
      BY <1>3 DEF Connect, Accept, ClientsInv
    <2>2. u.pc = "token" /\ Idle.pc = "none"
      <3>1. IsThread(Idle) /\ Idle.pc = "none"
        BY DEF IsThread, Idle
      <3> QED BY <3>1, ReadingShape
    <2> HIDE DEF u
    <2>3. \A d \in Clients : thread'[d] = IF d = c THEN u ELSE thread[d]
      BY <2>1 DEF ThreadsInv
    <2> QED BY <2>1, <2>2, <2>3, IdFrame
  <1>4. ASSUME NEW c \in Clients, CannotConnect(c) \/ ClientReads(c) \/ Killed(c) PROVE IdInv'
    BY <1>1, <1>4 DEF CannotConnect, ClientReads, Killed
  <1>5. CASE UNCHANGED vars
    BY <1>1, <1>5 DEF vars
  <1> QED BY <1>2, <1>3, <1>4, <1>5 DEF Next, ClientStep

LEMMA IdInit ==
    ASSUME Init
    PROVE  IdInv
  <1>1. /\ last_id = 0 /\ last_id_file = 0 /\ issued = <<>> /\ alone = {}
        /\ thread = [c \in Clients |-> Idle]
    BY DEF Init, ServerInit
  <1>2. \A c \in Clients : thread[c].pc = "none"
    BY <1>1 DEF Idle
  <1>3. issued \in Seq(Issue) /\ DOMAIN issued = {} /\ Lone = {}
    BY <1>1 DEF Lone
  <1> QED BY <1>1, <1>2, <1>3 DEF IdInv, IdTypes, AloneInv, SerialIdsUnique

\* Calls of new_id that no other call overlapped return different identifiers,
\* though other calls may overlap, lose increments and write the file in any
\* order, and the process may die at any time but while the file is empty.
THEOREM SerialIdsUniqueThm == Spec => []SerialIdsUnique
  <1>1. Init => IdInv
    BY IdInit
  <1>2. ThreadsInv /\ ClientsInv /\ IdInv /\ [Next]_vars => IdInv'
    BY IdStep
  <1>3. IdInv => SerialIdsUnique
    BY DEF IdInv, SerialIdsUnique
  <1> QED BY <1>1, <1>2, <1>3, ThreadsInvariance, PTL DEF Spec
=============================================================================
