------------------------------- MODULE Matchup -------------------------------
(***************************************************************************)
(* The simulation harness: RunMatchup (mtg/sim/matchup.go) runs a batch of *)
(* games for every seat the tested agent can take; Run (mtg/sim/sim.go)    *)
(* plays a batch on a pool of workers fed from a channel and recovers the  *)
(* games that panic.                                                       *)
(*                                                                         *)
(* A game is one value: RunOne depends on nothing but the configuration    *)
(* and the index of the game, so how it ends is fixed from the start.  The *)
(* order of Failures is that of the indices; TestedWinsBySeat splits       *)
(* tested by rotation.                                                     *)
(***************************************************************************)
EXTENDS Integers, FiniteSets

CONSTANTS
  NumSeats,       \* game.NumPlayers; 4 in the program
  GamesPerSeat,   \* Matchup.GamesPerSeat
  MaxWorkers      \* bound: Config.Workers or GOMAXPROCS

ASSUME SizesAssumption ==
  /\ NumSeats \in Nat \ {0}
  /\ GamesPerSeat \in Nat
  /\ MaxWorkers \in Nat \ {0}

Seat   == 0 .. NumSeats - 1
Index  == 0 .. GamesPerSeat - 1
Worker == 1 .. MaxWorkers

\* How a game ends: it returns a result, or it panics.
Panics == {"workBudget", "unsupported", "bug"}
Ending == [how : {"win"}, winner : Seat]
            \union [how : {"draw", "turnBudget"} \union Panics]

VARIABLES
  ending,    \* how RunOne ends, per rotation and index
  workers,   \* workerCount
  seat,      \* testedSeat of the rotation; NumSeats after the last
  phase,     \* of RunMatchup and, inside a rotation, of Run
  next,      \* the index to send next
  job,       \* per worker, the index it received, in a set of at most one
  gone,      \* workers that found the channel closed and empty
  games,     \* result.Games of this rotation: what ended it and who won
  failed,    \* indices of result.Failures of this rotation
  tally      \* the MatchupResult

MUvars == <<ending, workers, seat, phase, next, job, gone, games, failed, tally>>

ZeroResult == [termination |-> "", winners |-> {}]
ZeroTally  == [total |-> 0, tested |-> 0, baseline |-> 0, draws |-> 0,
               failures |-> 0, budgetStops |-> 0]

\* The Termination foldFinalState, or the recover of runGameSafely, records.
Terminations == [win |-> "rules-win", draw |-> "rules-draw",
                 turnBudget |-> "turn-budget", workBudget |-> "work-budget",
                 unsupported |-> "unsupported-execution", bug |-> "invalid-execution"]

GameResult(e) == [termination |-> Terminations[e.how],
                  winners     |-> IF e.how = "win" THEN {e.winner} ELSE {}]

MUInit ==
  /\ ending \in [Seat -> [Index -> Ending]]
  /\ workers \in Worker
  /\ workers = 1 \/ workers <= GamesPerSeat
  /\ seat = 0
  /\ phase = IF GamesPerSeat = 0 THEN "done" ELSE "rotate"
  /\ next = 0
  /\ job = [w \in Worker |-> {}]
  /\ gone = Worker
  /\ games = [i \in Index |-> ZeroResult]
  /\ failed = {}
  /\ tally = ZeroTally

\* Run allocates the results and starts the workers; with one worker there are
\* none, and the caller plays the games.
StartBatch ==
  /\ phase = "rotate"
  /\ phase' = "send"
  /\ next' = 0
  /\ games' = [i \in Index |-> ZeroResult]
  /\ failed' = {}
  /\ gone' = IF workers = 1 THEN Worker ELSE Worker \ (1..workers)
  /\ UNCHANGED <<ending, workers, seat, job, tally>>

\* runGameSafely: the result goes to the slot of its index, and so does the
\* failure of a game that panicked.
RunGameSafely(i) ==
  /\ games' = [games EXCEPT ![i] = GameResult(ending[seat][i])]
  /\ failed' = IF ending[seat][i].how \in Panics THEN failed \union {i} ELSE failed

PlayInOrder ==
  /\ phase = "send" /\ workers = 1
  /\ \E i \in Index : i = next /\ RunGameSafely(i)
  /\ next' = next + 1
  /\ UNCHANGED <<ending, workers, seat, phase, job, gone, tally>>

Advance_Forgotten(i) == i
Advance(i) == i + 1

MoreGames == next < GamesPerSeat

\* jobs <- i: the channel has no buffer, so a waiting worker takes the index.
Send(w) ==
  /\ phase = "send" /\ workers > 1 /\ MoreGames
  /\ w \notin gone /\ job[w] = {}
  /\ job' = [job EXCEPT ![w] = {next}]
  /\ next' = Advance(next)
  /\ UNCHANGED <<ending, workers, seat, phase, gone, games, failed, tally>>

Play(w) ==
  /\ \E i \in job[w] : RunGameSafely(i)
  /\ job' = [job EXCEPT ![w] = {}]
  /\ UNCHANGED <<ending, workers, seat, phase, next, gone, tally>>

\* close(jobs): every index was sent.
CloseJobs ==
  /\ phase = "send" /\ next = GamesPerSeat
  /\ phase' = "wait"
  /\ UNCHANGED <<ending, workers, seat, next, job, gone, games, failed, tally>>

\* A worker that is done with its game finds the channel closed.
Leave(w) ==
  /\ phase = "wait" /\ w \notin gone /\ job[w] = {}
  /\ gone' = gone \union {w}
  /\ UNCHANGED <<ending, workers, seat, phase, next, job, games, failed, tally>>

\* What accumulateRotation takes game i for: the first case that fits.
BudgetStop(i) == games[i].termination \in {"turn-budget", "work-budget"}
Failure(i) ==
  /\ ~BudgetStop(i)
  /\ i \in failed \/ games[i].termination \notin {"rules-win", "rules-draw", "rules-loss"}
Finished(i) == ~BudgetStop(i) /\ ~Failure(i)

HowMany(Is(_)) == Cardinality({i \in Index : Is(i)})

Waited_NotForTheLast == Cardinality(Worker \ gone) <= 1
Waited == gone = Worker

\* wg.Wait, accumulateRotation, and the next rotation.
EndRotation ==
  /\ phase = "wait" /\ Waited
  /\ LET Draw(i)     == Finished(i) /\ games[i].winners = {}
         Tested(i)   == Finished(i) /\ seat \in games[i].winners
         Baseline(i) == Finished(i) /\ games[i].winners \ {seat} # {}
     IN tally' = [total       |-> tally.total + GamesPerSeat,
                  tested      |-> tally.tested + HowMany(Tested),
                  baseline    |-> tally.baseline + HowMany(Baseline),
                  draws       |-> tally.draws + HowMany(Draw),
                  failures    |-> tally.failures + HowMany(Failure),
                  budgetStops |-> tally.budgetStops + HowMany(BudgetStop)]
  /\ seat' = seat + 1
  /\ phase' = IF seat + 1 = NumSeats THEN "done" ELSE "rotate"
  /\ UNCHANGED <<ending, workers, next, job, gone, games, failed>>

Caller == StartBatch \/ PlayInOrder \/ CloseJobs \/ EndRotation

MUNext ==
  \/ Caller
  \/ \E w \in Worker : Send(w) \/ Play(w) \/ Leave(w)

\* Goroutines that can run do run; a game ends, by its own limits if need be.
MUSpec ==
  /\ MUInit /\ [][MUNext]_MUvars
  /\ WF_MUvars(Caller)
  /\ WF_MUvars(\E w \in Worker : Send(w))
  /\ \A w \in Worker : WF_MUvars(Play(w)) /\ WF_MUvars(Leave(w))

-------------------------------------------------------------------------------
Result ==
  [termination : {"", "rules-win", "rules-draw", "turn-budget", "work-budget",
                  "unsupported-execution", "invalid-execution"},
   winners : SUBSET Seat]

MUTypeOK ==
  /\ ending \in [Seat -> [Index -> Ending]]
  /\ workers \in Worker
  /\ seat \in 0..NumSeats
  /\ phase \in {"rotate", "send", "wait", "done"}
  /\ next \in 0..GamesPerSeat
  /\ job \in [Worker -> {{}} \union {{i} : i \in Index}]
  /\ gone \in SUBSET Worker
  /\ games \in [Index -> Result]
  /\ failed \in SUBSET Index

\* The games of the rotations before seat s that ended as Is says.
Counted(s, Is(_, _)) ==
  Cardinality({g \in (0..s - 1) \X Index : Is(ending[g[1]][g[2]], g[1])})

\* The tally is that of playing the games one after the other: it depends on how
\* the games ended and neither on the number of workers nor on their schedule.
CountsWhatWasPlayed ==
  LET Won(e, s)    == e.how = "win" /\ e.winner = s
      Lost(e, s)   == e.how = "win" /\ e.winner # s
      Drawn(e, s)  == e.how = "draw"
      Broken(e, s) == e.how \in {"unsupported", "bug"}
      Stopped(e, s) == e.how \in {"turnBudget", "workBudget"}
  IN tally = [total       |-> seat * GamesPerSeat,
              tested      |-> Counted(seat, Won),
              baseline    |-> Counted(seat, Lost),
              draws       |-> Counted(seat, Drawn),
              failures    |-> Counted(seat, Broken),
              budgetStops |-> Counted(seat, Stopped)]

\* Game i of this rotation has been played.
Played(i) ==
  /\ games[i] = GameResult(ending[seat][i])
  /\ i \in failed <=> ending[seat][i].how \in Panics

\* The inductive invariant of the proofs: an index that was sent has been played
\* or is with a worker, and a worker that has left holds none.
MUInv ==
  /\ MUTypeOK
  /\ CountsWhatWasPlayed
  /\ phase # "done" => seat < NumSeats
  /\ phase \in {"rotate", "done"} => gone = Worker
  /\ phase = "wait" => next = GamesPerSeat
  /\ \A w \in gone : job[w] = {}
  /\ phase \in {"send", "wait"} =>
       /\ \A i \in 0..(next - 1) : Played(i) \/ \E w \in Worker : i \in job[w]
       /\ \A i \in failed : ending[seat][i].how \in Panics

\* Every matchup comes to its end.
Finishes == <>(phase = "done")

\* The comment of MatchupResult: TestedWins plus BaselineWins plus Draws plus
\* Failures equals TotalGames.
DocumentedAccounting ==
  phase = "done" =>
    tally.tested + tally.baseline + tally.draws + tally.failures = tally.total

\* The comments of Run, runGameSafely and SimulationResult: the slot of a game
\* that panicked holds the zero result.
FailedSlotsHoldTheZeroResult == \A i \in failed : games[i] = ZeroResult
=============================================================================
