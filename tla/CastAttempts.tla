---------------------------- MODULE CastAttempts ----------------------------
(***************************************************************************)
(* A spell whose cost goes unpaid, or whose targets turn out illegal, is   *)
(* reversed and its player may redo it (CR 733.1-2).  castAttempts records *)
(* what was reversed, to withhold what has been shown to lead nowhere, so  *)
(* that a player who tries the same again and again moves on.              *)
(*                                                                         *)
(* A proposal is a route with a cost option and the way each of its        *)
(* Phyrexian symbols is paid.  What comes after proposal and targets, the  *)
(* mana abilities activated and the way additional costs are paid, is one  *)
(* later choice.  The game is the same whenever an attempt starts.         *)
(***************************************************************************)
EXTENDS Players, Integers, FiniteSets

CONSTANTS
  Cast,         \* castActionKey: casts, whatever their targets
  Announced,    \* those whose targets are chosen after the cost is proposed
  Proposals,    \* Proposals[c]
  Targets,      \* Targets[c]: the choices of targets, {} without
  NoTargets,    \* nil
  Sampled,      \* casts with too many choices of targets to list
  Unfiltered,   \* <<c, p>> with more Phyrexian symbols than are filtered
  Payable,      \* <<c, p, t>>: can be paid, mana abilities included
  Later,
  Completes,    \* <<c, p, t, l>>: attempts that succeed
  Activation,   \* abilities and special actions with a mana cost
  Pays,         \* <<a, l>>: activations that succeed
  Hands         \* what a player may hold: sets of casts and activations

ASSUME CastsAssumption ==
  /\ Sampled \subseteq Announced
  /\ \A c \in Cast : NoTargets \notin Targets[c]
  /\ \A x \in Completes : <<x[1], x[2], x[3]>> \in Payable
  /\ Cast \intersect Activation = {}
  /\ \A held \in Hands : held \subseteq Cast \union Activation

VARIABLES
  hand,      \* what may be cast and activated in this window
  holder,    \* who has priority, none once the window has moved on
  attempts,  \* castAttempts
  parity,    \* of the decisions so far: an attempt is a step although it leaves all else
  failed,    \* history: <<c, p, t, l>> of the attempts in the record
  whose,     \* history: the players who made them
  twice,     \* history: <<c, p, t>> reversed twice
  same       \* history: <<c, p, t>> reversed twice with the same later choice

CAvars == <<hand, holder, attempts, parity, failed, whose, twice, same>>

Nothing == [reversed |-> {}, withheld |-> {}, exhausted |-> {}, unpayable |-> {}, withheldProposals |-> {}]

CAInit ==
  /\ hand \in Hands
  /\ holder \in {{p} : p \in Player}
  /\ attempts = Nothing
  /\ parity = FALSE
  /\ failed = {} /\ whose = {} /\ twice = {} /\ same = {}

TargetChoices(c) == IF Targets[c] = {} THEN {NoTargets} ELSE Targets[c]

Withheld(c, p, t) ==
  \/ <<c, p>> \in attempts.withheldProposals
  \/ <<c, p, t>> \in attempts.withheld
  \/ <<c, p>> \in attempts.unpayable /\ t # NoTargets /\ <<c, p, t>> \notin Payable

\* proposalWithheld, among the choices of targets this attempt may be given.
ProposalWithheld(c, p, choices) ==
  \/ <<c, p>> \in attempts.withheldProposals
  \/ c \notin Sampled /\ \A t \in choices : Withheld(c, p, t)

Offered(c, choices) ==
  {p \in Proposals[c] : <<c, p>> \in Unfiltered \/ ~ProposalWithheld(c, p, choices)}

\* repeatWithheld
RepeatWithheld_NeverExhausts(a, c, p) == [a EXCEPT !.withheldProposals = @ \union {<<c, p>>}]
RepeatWithheld(a, c, p) ==
  IF <<c, p>> \in a.withheldProposals THEN [a EXCEPT !.exhausted = @ \union {c}]
  ELSE [a EXCEPT !.withheldProposals = @ \union {<<c, p>>}]

\* reverse, of an attempt that is <<c, p, t>>; `out` tells whether proposal and
\* targets are withheld.
Reverse_AtOnce(a, c, p, t, out) ==
  [a EXCEPT !.reversed = @ \union {<<c, p, t>>}, !.withheld = @ \union {<<c, p, t>>}]
Reverse_Forgets(a, c, p, t, out) ==
  [a EXCEPT !.reversed = @ \union {<<c, p, t>>}]
Reverse(a, c, p, t, out) ==
  IF <<c, p, t>> \notin a.reversed THEN [a EXCEPT !.reversed = @ \union {<<c, p, t>>}]
  ELSE IF out THEN RepeatWithheld(a, c, p)
  ELSE [a EXCEPT !.withheld = @ \union {<<c, p, t>>}]

\* reverseUnpayable
ReverseUnpayable(a, c, p, t) ==
  IF Withheld(c, p, t) THEN RepeatWithheld(a, c, p)
  ELSE Reverse([a EXCEPT !.withheld = @ \union {<<c, p, t>>},
                         !.unpayable = @ \union (IF t = NoTargets THEN {} ELSE {<<c, p>>})],
               c, p, t, TRUE)

\* The record of what the attempt is remembered by, and of its later choice.
Recorded(c, p, t, l) ==
  /\ failed' = failed \union {<<c, p, t, l>>}
  /\ whose' = whose \union holder
  /\ twice' = IF \E k \in Later \union {NoTargets} : <<c, p, t, k>> \in failed
              THEN twice \union {<<c, p, t>>} ELSE twice
  /\ same' = IF <<c, p, t, l>> \in failed THEN same \union {<<c, p, t>>} ELSE same
  /\ UNCHANGED holder

Applied ==
  /\ holder' = {}
  /\ attempts' = Nothing
  /\ failed' = {} /\ whose' = {} /\ twice' = {} /\ same' = {}

\* Proposal p is made with targets t, and l is what follows.
Propose(c, p, t, l) ==
  IF <<c, p, t, l>> \in Completes THEN Applied
  ELSE /\ attempts' = IF <<c, p, t>> \in Payable
                      THEN Reverse(attempts, c, p, t, Withheld(c, p, t))
                      ELSE ReverseUnpayable(attempts, c, p, t)
       /\ Recorded(c, p, t, l)

\* chooseAnnouncedSpellTargets finds that no choice of targets is open.
NoneOpen(c, p) ==
  LET closed == [attempts EXCEPT !.withheldProposals = @ \union {<<c, p>>}]
  IN /\ attempts' = Reverse(closed, c, p, NoTargets, TRUE)
     /\ Recorded(c, p, NoTargets, NoTargets)

\* attemptCastSpellWithChoices.  A cast in Announced is given targets that are
\* still open with its proposal; any other names its targets in the action, and
\* its proposals are filtered for those.
AttemptCast(c) ==
  /\ c \in hand /\ holder # {}
  /\ parity' = ~parity /\ UNCHANGED hand
  /\ c \notin attempts.exhausted
  /\ \E choices \in IF c \in Announced THEN {TargetChoices(c)} ELSE {{t} : t \in TargetChoices(c)} :
       \/ /\ Offered(c, choices) = {}
          /\ attempts' = [attempts EXCEPT !.exhausted = @ \union {c}]
          /\ UNCHANGED <<holder, failed, whose, twice, same>>
       \/ \E p \in Offered(c, choices) :
            LET open == {t \in choices : ~Withheld(c, p, t)}
            IN \/ open # {} /\ \E t \in open, l \in Later : Propose(c, p, t, l)
               \/ open = {} /\ c \in Announced /\ Targets[c] # {} /\ NoneOpen(c, p)
               \/ /\ open = {} /\ (c \notin Announced \/ Targets[c] = {})
                  /\ \E t \in choices, l \in Later : Propose(c, p, t, l)

\* activationAttemptKey, specialActionAttemptKey
Key(a) == <<a, NoTargets, NoTargets>>

\* reverseActivationAttempt, reverseSpecialActionAttempt
AttemptActivation(a) ==
  /\ a \in hand /\ holder # {}
  /\ parity' = ~parity /\ UNCHANGED hand
  /\ a \notin attempts.exhausted
  /\ \E l \in Later :
       IF <<a, l>> \in Pays THEN Applied
       ELSE /\ attempts' = IF Key(a) \in attempts.reversed
                           THEN [attempts EXCEPT !.exhausted = @ \union {a}]
                           ELSE [attempts EXCEPT !.reversed = @ \union {Key(a)}]
            /\ Recorded(a, NoTargets, NoTargets, l)

\* The player passes or takes an action that is not reversed.
TakeAnotherAction ==
  /\ holder # {}
  /\ parity' = ~parity /\ UNCHANGED hand
  /\ Applied

\* State-based actions find, after a reversed attempt, that the holder has lost:
\* what an irreversible mana ability did may do that.  Priority moves on.
HolderLeaves ==
  /\ failed # {}
  /\ holder # {} /\ holder' \in {{q} : q \in Player \ (whose \union holder)}
  /\ UNCHANGED <<hand, attempts, parity, failed, whose, twice, same>>

CANext ==
  \/ \E c \in Cast : AttemptCast(c)
  \/ \E a \in Activation : AttemptActivation(a)
  \/ TakeAnotherAction
  \/ HolderLeaves

CASpec == CAInit /\ [][CANext]_CAvars

\* The loop goes on as long as somebody has priority.
CAFairSpec == CASpec /\ WF_CAvars(CANext)

-------------------------------------------------------------------------------
AnyProposal == UNION {Proposals[c] : c \in Cast}
AnyTarget  == UNION {Targets[c] : c \in Cast}

Pairs   == Cast \X AnyProposal
Triples == (Cast \union Activation) \X (AnyProposal \union {NoTargets}) \X (AnyTarget \union {NoTargets})

CATypeOK ==
  /\ hand \in Hands /\ holder \in {{}} \union {{p} : p \in Player} /\ parity \in BOOLEAN
  /\ attempts \in [reversed : SUBSET Triples, withheld : SUBSET Triples,
                   exhausted : SUBSET (Cast \union Activation),
                   unpayable : SUBSET Pairs, withheldProposals : SUBSET Pairs]

\* CR 733.2: a proposal is withheld with targets it could be paid with only after
\* two attempts with just these have been reversed, whatever happened to others.
OnlyWhatFailedIsWithheld ==
  \A c \in Cast : \A p \in Proposals[c], t \in TargetChoices(c) :
    <<c, p>> \notin Unfiltered /\ Withheld(c, p, t) =>
      <<c, p, t>> \notin Payable \/ <<c, p, t>> \in twice

\* What is in the record has been attempted, and if it can never be paid it has
\* been withheld at once.
Remembered ==
  \A c \in Cast : \A p \in Proposals[c], t \in Targets[c] \union {NoTargets} :
    <<c, p, t>> \in attempts.reversed =>
      /\ \E l \in Later \union {NoTargets} : <<c, p, t, l>> \in failed
      /\ \/ <<c, p, t>> \in Payable \union attempts.withheld
         \/ <<c, p>> \in attempts.withheldProposals

\* The inductive invariant of the proofs.
CAInv == CATypeOK /\ Remembered /\ OnlyWhatFailedIsWithheld

\* Every reversal withholds something or is remembered: the record grows.
EveryReversalTeaches ==
  [][holder' # {} =>
       /\ \A part \in DOMAIN attempts : attempts[part] \subseteq attempts'[part]
       /\ attempts' # attempts \/ holder' # holder]_CAvars

\* Whatever a player tries, again and again, the window moves on: the budget of
\* decisions is not what ends it.
MovesOn == <>(holder = {})

\* What castAttempts says of itself: a cast is never withdrawn while a proposal
\* for it remains that has not been withheld.
NoCastIsWithdrawnTooSoon ==
  \A c \in Cast \intersect attempts.exhausted :
    \A p \in Proposals[c], t \in TargetChoices(c) : Withheld(c, p, t)

\* And that a proposal that could be paid is withheld once an attempt has
\* repeated it with the same choices.
WithheldOnceRepeated ==
  \A x \in attempts.withheld : x \in Payable => x \in same

\* What runPriorityLoop says of the record, that it is about the player who holds
\* priority.
TheRecordIsTheHolders == whose \subseteq holder
=============================================================================
