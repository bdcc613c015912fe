---------------------------- MODULE RulesProofs -----------------------------
(***************************************************************************)
(* Proofs about the rules engine: what is withheld after reversed attempts *)
(* to cast or activate, for any casts, proposals and targets; what undoing *)
(* mana abilities restores, for any sources and any number of activations; *)
(* what state-based actions leave behind, for any cards, players and       *)
(* grants of control.  The names of CastAttempts start with CA, those of   *)
(* PaymentRollback with PR, those of StateBasedActions with SB.            *)
(***************************************************************************)
EXTENDS CastAttempts, PaymentRollback, StateBasedActions,
        FiniteSetTheorems, WellFoundedInduction, SequenceTheorems, TLAPS

-----------------------------------------------------------------------------
(* Attempts that are reversed.                                             *)

\* At the beginning nothing is recorded.
LEMMA CAInvInit == ASSUME CAInit PROVE CAInv
  BY DEF CAInit, CAInv, CATypeOK, Nothing, Remembered, OnlyWhatFailedIsWithheld, Withheld

\* An attempt that succeeds, or another action, leaves nothing recorded.
LEMMA AppliedKeepsInv == ASSUME CAInv, Applied, UNCHANGED hand, parity' = ~parity PROVE CAInv'
  BY DEF Applied, CAInv, CATypeOK, Nothing, Remembered, OnlyWhatFailedIsWithheld, Withheld

\* What a reversed attempt may do to the record: it only adds to it, and what it
\* adds keeps the invariant if the attempt is among what is remembered, if what
\* is withheld cannot be paid or has failed twice, and if a proposal is withheld
\* with all its targets only where each of them is.
LEMMA AddingKeepsInv ==
  ASSUME CAInv, CATypeOK', holder' \in {{}} \union {{q} : q \in Player},
         failed \subseteq failed', twice \subseteq twice',
         \A part \in {"reversed", "withheld", "unpayable", "withheldProposals"} :
           attempts[part] \subseteq attempts'[part],
         NEW c \in Cast, NEW p \in Proposals[c],
         NEW t \in Targets[c] \union {NoTargets},
         attempts'.reversed \subseteq attempts.reversed \union {<<c, p, t>>},
         attempts'.withheld \subseteq attempts.withheld \union {<<c, p, t>>},
         attempts'.unpayable \subseteq attempts.unpayable \union {<<c, p>>},
         attempts'.withheldProposals \subseteq attempts.withheldProposals \union {<<c, p>>},
         <<c, p, t>> \in attempts'.reversed =>
           /\ \E l \in Later \union {NoTargets} : <<c, p, t, l>> \in failed'
           /\ \/ <<c, p, t>> \in Payable \union attempts'.withheld
              \/ <<c, p>> \in attempts'.withheldProposals,
         <<c, p, t>> \in attempts'.withheld =>
           <<c, p, t>> \in attempts.withheld \/ <<c, p, t>> \notin Payable \/ <<c, p, t>> \in twice',
         <<c, p>> \in attempts'.withheldProposals =>
           \/ <<c, p>> \in attempts.withheldProposals \union Unfiltered
           \/ \A u \in TargetChoices(c) : Withheld(c, p, u) \/ (u = t /\ <<c, p, t>> \notin Payable)
  PROVE  CAInv'
  <1>1. Remembered'
    <2> SUFFICES ASSUME NEW d \in Cast, NEW q \in Proposals[d], NEW u \in Targets[d] \union {NoTargets},
                        <<d, q, u>> \in attempts'.reversed
                 PROVE  /\ \E l \in Later \union {NoTargets} : <<d, q, u, l>> \in failed'
                        /\ \/ <<d, q, u>> \in Payable \union attempts'.withheld
                           \/ <<d, q>> \in attempts'.withheldProposals
      BY DEF Remembered
    <2>1. CASE <<d, q, u>> = <<c, p, t>>
      BY <2>1
    <2>2. CASE <<d, q, u>> \in attempts.reversed
      BY <2>2 DEF CAInv, Remembered
    <2> QED BY <2>1, <2>2
  <1>2. OnlyWhatFailedIsWithheld'
    <2> SUFFICES ASSUME NEW d \in Cast, NEW q \in Proposals[d], NEW u \in TargetChoices(d),
                        <<d, q>> \notin Unfiltered, Withheld(d, q, u)', <<d, q, u>> \in Payable
                 PROVE  <<d, q, u>> \in twice'
      BY DEF OnlyWhatFailedIsWithheld, TargetChoices
    <2>1. Withheld(d, q, u) => <<d, q, u>> \in twice'
      BY DEF CAInv, OnlyWhatFailedIsWithheld
    <2>2. CASE <<d, q>> \in attempts'.withheldProposals
      <3>1. CASE <<d, q>> \in attempts.withheldProposals
        BY <2>1, <3>1 DEF Withheld
      <3>2. CASE <<d, q>> \notin attempts.withheldProposals
        <4>1. d = c /\ q = p
          BY <2>2, <3>2
        <4> QED BY <2>1, <2>2, <3>2, <4>1
      <3> QED BY <3>1, <3>2
    <2>3. CASE <<d, q, u>> \in attempts'.withheld
      BY <2>1, <2>3 DEF Withheld
    <2> QED BY <2>2, <2>3 DEF Withheld
  <1> QED BY <1>1, <1>2 DEF CAInv

\* Attempts are of the casts, proposals and targets there are.
LEMMA AttemptTyped ==
  ASSUME NEW c \in Cast, NEW p \in Proposals[c], NEW t \in Targets[c] \union {NoTargets}
  PROVE  <<c, p>> \in Pairs /\ <<c, p, t>> \in Triples
  <1>1. p \in AnyProposal /\ t \in AnyTarget \union {NoTargets}
    BY DEF AnyProposal, AnyTarget
  <1> QED BY <1>1 DEF Pairs, Triples

\* A proposal that goes unpaid: with targets that were open or, where the filter
\* lets it pass, the only choice there is.
LEMMA ProposeKeepsInv ==
  ASSUME CAInv, UNCHANGED hand, parity' = ~parity,
         NEW c \in Cast, NEW p \in Proposals[c], NEW t \in TargetChoices(c), NEW l \in Later,
         Propose(c, p, t, l),
         \/ ~Withheld(c, p, t)
         \/ <<c, p>> \in Unfiltered
         \/ \A u \in TargetChoices(c) : Withheld(c, p, u)
  PROVE  CAInv'
  <1>1. CASE <<c, p, t, l>> \in Completes
    BY <1>1, AppliedKeepsInv DEF Propose
  <1>2. CASE <<c, p, t, l>> \notin Completes
    <2>1. t \in Targets[c] \union {NoTargets}
      BY DEF TargetChoices
    <2>2. <<c, p>> \in Pairs /\ <<c, p, t>> \in Triples
      BY <2>1, AttemptTyped
    <2>3. Recorded(c, p, t, l)
      BY <1>2 DEF Propose
    <2>4. /\ <<c, p, t, l>> \in failed' /\ failed \subseteq failed' /\ twice \subseteq twice'
          /\ holder' \in {{}} \union {{q} : q \in Player}
          /\ (\E k \in Later \union {NoTargets} : <<c, p, t, k>> \in failed) => <<c, p, t>> \in twice'
      BY <2>3 DEF Recorded, CAInv, CATypeOK
    <2>5. <<c, p, t>> \in attempts.reversed =>
            /\ <<c, p, t>> \in twice'
            /\ \/ <<c, p, t>> \in Payable \union attempts.withheld
               \/ <<c, p>> \in attempts.withheldProposals
      BY <2>1, <2>4 DEF CAInv, Remembered
    <2>6. attempts' = IF <<c, p, t>> \in Payable
                      THEN Reverse(attempts, c, p, t, Withheld(c, p, t))
                      ELSE ReverseUnpayable(attempts, c, p, t)
      BY <1>2 DEF Propose
    <2>7. CATypeOK'
      BY <2>2, <2>4, <2>6 DEF CAInv, CATypeOK, Reverse, ReverseUnpayable, RepeatWithheld
    <2>8. CASE <<c, p, t>> \in Payable
      <3>1. attempts' = Reverse(attempts, c, p, t, Withheld(c, p, t))
        BY <2>6, <2>8
      <3>2. CASE <<c, p, t>> \notin attempts.reversed
        <4>1. attempts' = [attempts EXCEPT !.reversed = @ \union {<<c, p, t>>}]
          BY <3>1, <3>2 DEF Reverse
        <4>2. /\ attempts'.reversed = attempts.reversed \union {<<c, p, t>>}
              /\ attempts'.withheld = attempts.withheld /\ attempts'.unpayable = attempts.unpayable
              /\ attempts'.withheldProposals = attempts.withheldProposals
          BY <4>1 DEF CAInv, CATypeOK
        <4> QED BY <2>1, <2>4, <2>7, <2>8, <4>2, AddingKeepsInv
      <3>3. CASE <<c, p, t>> \in attempts.reversed /\ Withheld(c, p, t)
        <4>1. attempts' = RepeatWithheld(attempts, c, p)
          BY <3>1, <3>3 DEF Reverse
        <4>2. /\ attempts'.reversed = attempts.reversed /\ attempts'.withheld = attempts.withheld
              /\ attempts'.unpayable = attempts.unpayable
              /\ attempts'.withheldProposals = attempts.withheldProposals \union {<<c, p>>}
          BY <4>1 DEF CAInv, CATypeOK, RepeatWithheld
        <4>3. \/ <<c, p>> \in Unfiltered
              \/ \A u \in TargetChoices(c) :
                   Withheld(c, p, u) \/ (u = t /\ <<c, p, t>> \notin Payable)
          BY <3>3
        <4>4. \A part \in {"reversed", "withheld", "unpayable", "withheldProposals"} :
                attempts[part] \subseteq attempts'[part]
          BY <4>2
        <4>5. <<c, p, t>> \in attempts'.reversed =>
                \E k \in Later \union {NoTargets} : <<c, p, t, k>> \in failed'
          BY <2>4
        <4> QED BY <2>1, <2>4, <2>7, <2>8, <4>2, <4>3, <4>4, <4>5, AddingKeepsInv
      <3>4. CASE <<c, p, t>> \in attempts.reversed /\ ~Withheld(c, p, t)
        <4>1. attempts' = [attempts EXCEPT !.withheld = @ \union {<<c, p, t>>}]
          BY <3>1, <3>4 DEF Reverse
        <4>2. /\ attempts'.reversed = attempts.reversed
              /\ attempts'.withheld = attempts.withheld \union {<<c, p, t>>}
              /\ attempts'.unpayable = attempts.unpayable
              /\ attempts'.withheldProposals = attempts.withheldProposals
          BY <4>1 DEF CAInv, CATypeOK
        <4> QED BY <2>1, <2>4, <2>5, <2>7, <2>8, <3>4, <4>2, AddingKeepsInv
      <3> QED BY <3>2, <3>3, <3>4
    <2>9. CASE <<c, p, t>> \notin Payable
      <3>1. attempts' = ReverseUnpayable(attempts, c, p, t)
        BY <2>6, <2>9
      <3>2. CASE Withheld(c, p, t)
        <4>1. attempts' = RepeatWithheld(attempts, c, p)
          BY <3>1, <3>2 DEF ReverseUnpayable
        <4>2. /\ attempts'.reversed = attempts.reversed /\ attempts'.withheld = attempts.withheld
              /\ attempts'.unpayable = attempts.unpayable
              /\ attempts'.withheldProposals = attempts.withheldProposals \union {<<c, p>>}
          BY <4>1 DEF CAInv, CATypeOK, RepeatWithheld
        <4>3. <<c, p, t>> \in attempts'.reversed =>
                \E k \in Later \union {NoTargets} : <<c, p, t, k>> \in failed'
          BY <2>4
        <4> QED BY <2>1, <2>4, <2>7, <2>9, <3>2, <4>2, <4>3, AddingKeepsInv
      <3>3. CASE ~Withheld(c, p, t)
        <4>1. <<c, p, t>> \notin attempts.reversed
          BY <2>5, <2>9, <3>3 DEF Withheld
        <4>2. /\ attempts'.reversed = attempts.reversed \union {<<c, p, t>>}
              /\ attempts'.withheld = attempts.withheld \union {<<c, p, t>>}
              /\ attempts'.unpayable \in {attempts.unpayable, attempts.unpayable \union {<<c, p>>}}
              /\ attempts'.withheldProposals = attempts.withheldProposals
          BY <3>1, <3>3, <4>1 DEF CAInv, CATypeOK, ReverseUnpayable, Reverse
        <4> QED BY <2>1, <2>4, <2>7, <2>9, <4>2, AddingKeepsInv
      <3> QED BY <3>2, <3>3
    <2> QED BY <2>8, <2>9
  <1> QED BY <1>1, <1>2

\* All choices of targets have been withheld, and with them the proposal is.
LEMMA NoneOpenKeepsInv ==
  ASSUME CAInv, UNCHANGED hand, parity' = ~parity,
         NEW c \in Cast, NEW p \in Proposals[c], NoneOpen(c, p),
         \A u \in TargetChoices(c) : Withheld(c, p, u)
  PROVE  CAInv'
  <1>1. <<c, p>> \in Pairs /\ <<c, p, NoTargets>> \in Triples
    BY AttemptTyped
  <1>2. /\ <<c, p, NoTargets, NoTargets>> \in failed' /\ failed \subseteq failed' /\ twice \subseteq twice'
        /\ holder' \in {{}} \union {{q} : q \in Player}
    BY DEF NoneOpen, Recorded, CAInv, CATypeOK
  <1>3. CATypeOK'
    BY <1>1, <1>2 DEF NoneOpen, CAInv, CATypeOK, Reverse, RepeatWithheld
  <1>4. /\ attempts'.reversed = attempts.reversed \union {<<c, p, NoTargets>>}
        /\ attempts'.withheld = attempts.withheld /\ attempts'.unpayable = attempts.unpayable
        /\ attempts'.withheldProposals = attempts.withheldProposals \union {<<c, p>>}
    BY DEF NoneOpen, CAInv, CATypeOK, Reverse, RepeatWithheld
  <1>5. \E l \in Later \union {NoTargets} : <<c, p, NoTargets, l>> \in failed'
    BY <1>2
  <1>6. \A part \in {"reversed", "withheld", "unpayable", "withheldProposals"} :
          attempts[part] \subseteq attempts'[part]
    BY <1>4
  <1>7. \A u \in TargetChoices(c) :
          Withheld(c, p, u) \/ (u = NoTargets /\ <<c, p, NoTargets>> \notin Payable)
    OBVIOUS
  <1> QED BY <1>2, <1>3, <1>4, <1>5, <1>6, <1>7, AddingKeepsInv

\* What is withdrawn or activated is none of the casts that are remembered.
LEMMA OthersKeepInv ==
  ASSUME CAInv, CATypeOK', holder' \in {{}} \union {{q} : q \in Player},
         failed \subseteq failed', twice \subseteq twice',
         \A part \in {"withheld", "unpayable", "withheldProposals"} : attempts'[part] = attempts[part],
         NEW S \in SUBSET Activation,
         attempts'.reversed \subseteq attempts.reversed \union {Key(a) : a \in S}
  PROVE  CAInv'
  <1>1. \A c \in Cast : \A p, t : <<c, p, t>> \in attempts'.reversed => <<c, p, t>> \in attempts.reversed
    BY CastsAssumption DEF Key
  <1>2. Remembered'
    BY <1>1 DEF CAInv, Remembered
  <1>3. OnlyWhatFailedIsWithheld'
    BY DEF CAInv, OnlyWhatFailedIsWithheld, Withheld, TargetChoices
  <1> QED BY <1>2, <1>3 DEF CAInv

\* Every way an attempt to cast can end.
LEMMA AttemptCastKeepsInv ==
  ASSUME CAInv, NEW c \in Cast, AttemptCast(c)
  PROVE  CAInv'
  <1>1. PICK choices \in IF c \in Announced THEN {TargetChoices(c)} ELSE {{t} : t \in TargetChoices(c)} :
          \/ /\ Offered(c, choices) = {}
             /\ attempts' = [attempts EXCEPT !.exhausted = @ \union {c}]
             /\ UNCHANGED <<holder, failed, whose, twice, same>>
          \/ \E p \in Offered(c, choices) :
               LET open == {t \in choices : ~Withheld(c, p, t)}
               IN \/ open # {} /\ \E t \in open, l \in Later : Propose(c, p, t, l)
                  \/ open = {} /\ c \in Announced /\ Targets[c] # {} /\ NoneOpen(c, p)
                  \/ /\ open = {} /\ (c \notin Announced \/ Targets[c] = {})
                     /\ \E t \in choices, l \in Later : Propose(c, p, t, l)
    BY DEF AttemptCast
  <1>2. choices \subseteq TargetChoices(c) /\ (c \in Announced => choices = TargetChoices(c))
    BY <1>1
  <1>3. UNCHANGED hand /\ parity' = ~parity
    BY DEF AttemptCast
  <1>4. CASE /\ attempts' = [attempts EXCEPT !.exhausted = @ \union {c}]
             /\ UNCHANGED <<holder, failed, whose, twice, same>>
    <2>1. CATypeOK' /\ \A part \in {"reversed", "withheld", "unpayable", "withheldProposals"} :
                         attempts'[part] = attempts[part]
      BY <1>3, <1>4 DEF CAInv, CATypeOK
    <2>2. holder' \in {{}} \union {{q} : q \in Player}
      BY <2>1 DEF CATypeOK
    <2>3. {} \in SUBSET Activation /\ {Key(a) : a \in {}} = {}
      OBVIOUS
    <2> QED BY <1>4, <2>1, <2>2, <2>3, OthersKeepInv
  <1>5. ASSUME NEW p \in Offered(c, choices), NEW t \in choices, ~Withheld(c, p, t),
               NEW l \in Later, Propose(c, p, t, l)
        PROVE  CAInv'
    BY <1>2, <1>3, <1>5, ProposeKeepsInv DEF Offered
  <1>6. ASSUME NEW p \in Offered(c, choices), \A t \in choices : Withheld(c, p, t),
               c \in Announced, NoneOpen(c, p)
        PROVE  CAInv'
    BY <1>2, <1>3, <1>6, NoneOpenKeepsInv DEF Offered
  <1>7. ASSUME NEW p \in Offered(c, choices), \A t \in choices : Withheld(c, p, t),
               c \notin Announced \/ Targets[c] = {},
               NEW t \in choices, NEW l \in Later, Propose(c, p, t, l)
        PROVE  CAInv'
    <2>1. p \in Proposals[c] /\ (<<c, p>> \in Unfiltered \/ ~ProposalWithheld(c, p, choices))
      BY DEF Offered
    <2>2. ~ProposalWithheld(c, p, choices) => c \in Sampled
      BY <1>7 DEF ProposalWithheld
    <2>3. c \in Sampled => \A u \in TargetChoices(c) : Withheld(c, p, u)
      BY <1>2, <1>7, CastsAssumption
    <2> QED BY <1>2, <1>3, <1>7, <2>1, <2>2, <2>3, ProposeKeepsInv
  <1>8. ASSUME NEW p \in Offered(c, choices),
               LET open == {t \in choices : ~Withheld(c, p, t)}
               IN \/ open # {} /\ \E t \in open, l \in Later : Propose(c, p, t, l)
                  \/ open = {} /\ c \in Announced /\ Targets[c] # {} /\ NoneOpen(c, p)
                  \/ /\ open = {} /\ (c \notin Announced \/ Targets[c] = {})
                     /\ \E t \in choices, l \in Later : Propose(c, p, t, l)
        PROVE  CAInv'
    BY <1>5, <1>6, <1>7, <1>8
  <1> QED BY <1>1, <1>4, <1>8

LEMMA CAInvStep == ASSUME CAInv, [CANext]_CAvars PROVE CAInv'
  <1>1. ASSUME NEW c \in Cast, AttemptCast(c) PROVE CAInv'
    BY <1>1, AttemptCastKeepsInv
  <1>2. ASSUME NEW a \in Activation, AttemptActivation(a) PROVE CAInv'
    <2>1. PICK l \in Later :
            IF <<a, l>> \in Pays THEN Applied
            ELSE /\ attempts' = IF Key(a) \in attempts.reversed
                                THEN [attempts EXCEPT !.exhausted = @ \union {a}]
                                ELSE [attempts EXCEPT !.reversed = @ \union {Key(a)}]
                 /\ Recorded(a, NoTargets, NoTargets, l)
      BY <1>2 DEF AttemptActivation
    <2>2. UNCHANGED hand /\ parity' = ~parity
      BY <1>2 DEF AttemptActivation
    <2>3. CASE <<a, l>> \in Pays
      BY <2>1, <2>2, <2>3, AppliedKeepsInv
    <2>4. CASE <<a, l>> \notin Pays
      <3>1. Key(a) \in Triples
        BY DEF Key, Triples
      <3>2. /\ attempts' = IF Key(a) \in attempts.reversed
                           THEN [attempts EXCEPT !.exhausted = @ \union {a}]
                           ELSE [attempts EXCEPT !.reversed = @ \union {Key(a)}]
            /\ UNCHANGED holder /\ failed \subseteq failed' /\ twice \subseteq twice'
        BY <2>1, <2>4 DEF Recorded
      <3>3. CATypeOK'
        BY <2>2, <3>1, <3>2 DEF CAInv, CATypeOK
      <3>4. /\ \A part \in {"withheld", "unpayable", "withheldProposals"} : attempts'[part] = attempts[part]
            /\ attempts'.reversed \subseteq attempts.reversed \union {Key(a)}
            /\ holder' \in {{}} \union {{q} : q \in Player}
        BY <3>2 DEF CAInv, CATypeOK
      <3>5. {a} \in SUBSET Activation /\ {Key(b) : b \in {a}} = {Key(a)}
        OBVIOUS
      <3> QED BY <3>2, <3>3, <3>4, <3>5, OthersKeepInv
    <2> QED BY <2>3, <2>4
  <1>3. CASE TakeAnotherAction
    BY <1>3, AppliedKeepsInv DEF TakeAnotherAction
  <1>4. CASE HolderLeaves
    BY <1>4 DEF HolderLeaves, CAInv, CATypeOK, Remembered, OnlyWhatFailedIsWithheld, Withheld, TargetChoices
  <1>5. CASE UNCHANGED CAvars
    BY <1>5 DEF CAvars, CAInv, CATypeOK, Remembered, OnlyWhatFailedIsWithheld, Withheld, TargetChoices
  <1> QED BY <1>1, <1>2, <1>3, <1>4, <1>5 DEF CANext

\* What is withheld has failed: a proposal that could be paid, with the targets it
\* could be paid with, only after two attempts with just these were reversed.
THEOREM WithheldHasFailed == CASpec => []OnlyWhatFailedIsWithheld
  <1>1. CAInv => OnlyWhatFailedIsWithheld
    BY DEF CAInv
  <1> QED BY <1>1, CAInvInit, CAInvStep, PTL DEF CASpec

\* The record has grown: every part of it, and one of them properly.
Grown ==
  /\ \A part \in DOMAIN attempts : attempts[part] \subseteq attempts'[part]
  /\ attempts' # attempts

LEMMA PartsOfTheRecord ==
  ASSUME CATypeOK
  PROVE  DOMAIN attempts = {"reversed", "withheld", "exhausted", "unpayable", "withheldProposals"}
  BY DEF CATypeOK

LEMMA ProposeTeaches ==
  ASSUME CAInv, NEW c \in Cast, c \notin attempts.exhausted, NEW p, NEW t, NEW l,
         Propose(c, p, t, l), holder' # {}
  PROVE  Grown
  <1>1. attempts' = IF <<c, p, t>> \in Payable
                    THEN Reverse(attempts, c, p, t, Withheld(c, p, t))
                    ELSE ReverseUnpayable(attempts, c, p, t)
    BY DEF Propose, Applied
  <1>2. CATypeOK /\ DOMAIN attempts = {"reversed", "withheld", "exhausted", "unpayable", "withheldProposals"}
    BY PartsOfTheRecord DEF CAInv
  <1>3. ASSUME attempts' = RepeatWithheld(attempts, c, p) PROVE Grown
    <2>1. CASE <<c, p>> \in attempts.withheldProposals
      BY <1>2, <1>3, <2>1 DEF RepeatWithheld, Grown, CATypeOK
    <2>2. CASE <<c, p>> \notin attempts.withheldProposals
      BY <1>2, <1>3, <2>2 DEF RepeatWithheld, Grown, CATypeOK
    <2> QED BY <2>1, <2>2
  <1>4. CASE <<c, p, t>> \in Payable
    <2>1. CASE <<c, p, t>> \notin attempts.reversed
      BY <1>1, <1>2, <1>4, <2>1 DEF Reverse, Grown, CATypeOK
    <2>2. CASE <<c, p, t>> \in attempts.reversed /\ Withheld(c, p, t)
      BY <1>1, <1>3, <1>4, <2>2 DEF Reverse
    <2>3. CASE <<c, p, t>> \in attempts.reversed /\ ~Withheld(c, p, t)
      <3>1. <<c, p, t>> \notin attempts.withheld
        BY <2>3 DEF Withheld
      <3> QED BY <1>1, <1>2, <1>4, <2>3, <3>1 DEF Reverse, Grown, CATypeOK
    <2> QED BY <2>1, <2>2, <2>3
  <1>5. CASE <<c, p, t>> \notin Payable
    <2>1. CASE Withheld(c, p, t)
      BY <1>1, <1>3, <1>5, <2>1 DEF ReverseUnpayable
    <2>2. CASE ~Withheld(c, p, t)
      <3> DEFINE b == [attempts EXCEPT !.withheld = @ \union {<<c, p, t>>},
                         !.unpayable = @ \union (IF t = NoTargets THEN {} ELSE {<<c, p>>})]
      <3>1. <<c, p, t>> \notin attempts.withheld
        BY <2>2 DEF Withheld
      <3>2. attempts' = Reverse(b, c, p, t, TRUE)
        BY <1>1, <1>5, <2>2 DEF ReverseUnpayable
      <3>3. /\ attempts.reversed \subseteq b.reversed /\ attempts.exhausted \subseteq b.exhausted
            /\ attempts.unpayable \subseteq b.unpayable
            /\ attempts.withheldProposals \subseteq b.withheldProposals
            /\ b.withheld = attempts.withheld \union {<<c, p, t>>}
        BY <1>2 DEF CATypeOK
      <3>5. b \in [reversed : SUBSET Triples, withheld : SUBSET (Triples \union {<<c, p, t>>}),
                   exhausted : SUBSET (Cast \union Activation),
                   unpayable : SUBSET (Pairs \union {<<c, p>>}), withheldProposals : SUBSET Pairs]
        BY <1>2 DEF CATypeOK
      <3> HIDE DEF b
      <3>4. /\ b.reversed \subseteq attempts'.reversed /\ b.exhausted \subseteq attempts'.exhausted
            /\ b.unpayable \subseteq attempts'.unpayable
            /\ b.withheldProposals \subseteq attempts'.withheldProposals
            /\ b.withheld = attempts'.withheld
        BY <3>2, <3>5 DEF Reverse, RepeatWithheld
      <3> QED BY <1>2, <3>1, <3>3, <3>4 DEF Grown
    <2> QED BY <2>1, <2>2
  <1> QED BY <1>4, <1>5

LEMMA NoneOpenTeaches ==
  ASSUME CAInv, NEW c \in Cast, c \notin attempts.exhausted, NEW p \in Proposals[c], NoneOpen(c, p)
  PROVE  Grown
  <1> DEFINE b == [attempts EXCEPT !.withheldProposals = @ \union {<<c, p>>}]
  <1>1. CATypeOK /\ DOMAIN attempts = {"reversed", "withheld", "exhausted", "unpayable", "withheldProposals"}
    BY PartsOfTheRecord DEF CAInv
  <1>2. attempts' = Reverse(b, c, p, NoTargets, TRUE)
    BY DEF NoneOpen
  <1>3. /\ b.reversed = attempts.reversed /\ b.exhausted = attempts.exhausted
        /\ b.unpayable = attempts.unpayable /\ b.withheld = attempts.withheld
        /\ b.withheldProposals = attempts.withheldProposals \union {<<c, p>>}
    BY <1>1 DEF CATypeOK
  <1>6. b \in [reversed : SUBSET Triples, withheld : SUBSET Triples,
               exhausted : SUBSET (Cast \union Activation),
               unpayable : SUBSET Pairs, withheldProposals : SUBSET (Pairs \union {<<c, p>>})]
    BY <1>1 DEF CATypeOK
  <1> HIDE DEF b
  <1>4. CASE <<c, p, NoTargets>> \notin b.reversed
    BY <1>1, <1>2, <1>3, <1>4, <1>6 DEF Reverse, Grown
  <1>5. CASE <<c, p, NoTargets>> \in b.reversed
    <2>1. attempts' = [b EXCEPT !.exhausted = @ \union {c}]
      BY <1>2, <1>3, <1>5 DEF Reverse, RepeatWithheld
    <2> QED BY <1>1, <1>3, <1>6, <2>1 DEF Grown
  <1> QED BY <1>4, <1>5

LEMMA StepTeaches ==
  ASSUME CAInv, CANext, holder' # {}
  PROVE  /\ \A part \in DOMAIN attempts : attempts[part] \subseteq attempts'[part]
         /\ attempts' # attempts \/ holder' # holder
  <1>1. CATypeOK /\ DOMAIN attempts = {"reversed", "withheld", "exhausted", "unpayable", "withheldProposals"}
    BY PartsOfTheRecord DEF CAInv
  <1>2. ASSUME NEW c \in Cast, AttemptCast(c) PROVE Grown
    <2>1. c \notin attempts.exhausted
      BY <1>2 DEF AttemptCast
    <2>2. \/ attempts' = [attempts EXCEPT !.exhausted = @ \union {c}]
          \/ \E p, t, l : Propose(c, p, t, l)
          \/ \E p \in Proposals[c] : NoneOpen(c, p)
      BY <1>2 DEF AttemptCast, Offered
    <2>3. CASE attempts' = [attempts EXCEPT !.exhausted = @ \union {c}]
      BY <1>1, <2>1, <2>3 DEF Grown, CATypeOK
    <2> QED BY <2>1, <2>2, <2>3, ProposeTeaches, NoneOpenTeaches
  <1>3. ASSUME NEW a \in Activation, AttemptActivation(a) PROVE Grown
    <2>1. /\ a \notin attempts.exhausted
          /\ attempts' = IF Key(a) \in attempts.reversed
                         THEN [attempts EXCEPT !.exhausted = @ \union {a}]
                         ELSE [attempts EXCEPT !.reversed = @ \union {Key(a)}]
      BY <1>3 DEF AttemptActivation, Applied
    <2>2. CASE Key(a) \in attempts.reversed
      BY <1>1, <2>1, <2>2 DEF Grown, CATypeOK
    <2>3. CASE Key(a) \notin attempts.reversed
      BY <1>1, <2>1, <2>3 DEF Grown, CATypeOK
    <2> QED BY <2>2, <2>3
  <1>4. ~TakeAnotherAction
    BY DEF TakeAnotherAction, Applied
  <1>5. CASE HolderLeaves
    <2>1. attempts' = attempts /\ holder' # holder
      BY <1>1, <1>5 DEF HolderLeaves, CATypeOK
    <2> QED BY <2>1
  <1> QED BY <1>2, <1>3, <1>4, <1>5 DEF CANext, Grown

\* No attempt is reversed in vain: as long as the window stays with a player every
\* step adds to the record and takes nothing from it, or priority goes to another.
THEOREM ReversalsTeach == CASpec => EveryReversalTeaches
  <1>1. ASSUME CAInv, [CANext]_CAvars
        PROVE  [holder' # {} =>
                 /\ \A part \in DOMAIN attempts : attempts[part] \subseteq attempts'[part]
                 /\ attempts' # attempts \/ holder' # holder]_CAvars
    BY <1>1, StepTeaches
  <1> QED BY <1>1, CAInvInit, CAInvStep, PTL DEF CASpec, EveryReversalTeaches

-----------------------------------------------------------------------------
(* Undoing what was activated for a payment.                               *)

\* A set of natural numbers that holds 0, and what follows a number it holds, up
\* to n holds all of them.
LEMMA UpTo ==
  ASSUME NEW n \in Nat, NEW S, 0 \in S, \A k \in 1..n : k - 1 \in S => k \in S
  PROVE  0..n \subseteq S
  <1> SUFFICES ASSUME (0..n) \ S # {} PROVE FALSE
    OBVIOUS
  <1> DEFINE R == OpToRel(<, Nat)
  <1>1. (0..n) \ S \in SUBSET Nat
    OBVIOUS
  <1>2. \A j, k \in Nat : j < k => <<j, k>> \in R
    BY DEF OpToRel
  <1>3. IsWellFoundedOn(R, Nat)
    BY NatLessThanWellFounded
  <1> HIDE DEF R
  <1>4. PICK k \in (0..n) \ S : \A j \in (0..n) \ S : <<j, k>> \notin R
    BY <1>1, <1>3, WFMin
  <1>5. k \in 1..n /\ k - 1 \in Nat /\ k - 1 < k /\ k - 1 \in 0..n
    BY <1>4
  <1>6. k - 1 \in S
    <2>1. <<k - 1, k>> \in R
      BY <1>2, <1>5
    <2> QED BY <1>4, <1>5, <2>1
  <1> QED BY <1>4, <1>5, <1>6

\* From x, in n steps, a function can be computed: step k is F[<<k, what it was>>].
Computed(n, X, x, F) ==
  \E f \in [0..n -> X] : f[0] = x /\ \A k \in 1..n : f[k] = F[<<k, f[k - 1]>>]

LEMMA StepByStep ==
  ASSUME NEW n \in Nat, NEW X, NEW x \in X, NEW F \in [(1..n) \X X -> X]
  PROVE  Computed(n, X, x, F)
  <1> DEFINE Upto(m) == {f \in [0..m -> X] : f[0] = x /\ \A k \in 1..m : f[k] = F[<<k, f[k - 1]>>]}
             S == {m \in 0..n : Upto(m) # {}}
  <1>1. 0 \in S
    <2>1. [k \in 0..0 |-> x] \in Upto(0)
      OBVIOUS
    <2> QED BY <2>1
  <1>2. ASSUME NEW m \in 1..n, m - 1 \in S PROVE m \in S
    <2>1. PICK f \in [0..(m - 1) -> X] :
            f[0] = x /\ \A k \in 1..(m - 1) : f[k] = F[<<k, f[k - 1]>>]
      BY <1>2
    <2> DEFINE g == [k \in 0..m |-> IF k < m THEN f[k] ELSE F[<<m, f[m - 1]>>]]
    <2>2. g \in [0..m -> X]
      <3>1. F[<<m, f[m - 1]>>] \in X
        BY <2>1
      <3> QED BY <2>1, <3>1
    <2>3. /\ \A k \in 0..(m - 1) : g[k] = f[k]
          /\ g[m] = F[<<m, f[m - 1]>>]
      OBVIOUS
    <2> HIDE DEF g
    <2>4. g[0] = x
      BY <2>1, <2>3
    <2>5. ASSUME NEW k \in 1..m PROVE g[k] = F[<<k, g[k - 1]>>]
      <3>1. k - 1 \in 0..(m - 1) /\ g[k - 1] = f[k - 1]
        BY <2>3
      <3>2. CASE k = m
        BY <2>3, <3>1, <3>2
      <3>3. CASE k \in 1..(m - 1)
        BY <2>1, <2>3, <3>1, <3>3
      <3> QED BY <3>2, <3>3
    <2>6. g \in Upto(m)
      BY <2>2, <2>4, <2>5
    <2> QED BY <2>6
  <1> HIDE DEF S
  <1>3. n \in S
    BY <1>1, <1>2, UpTo
  <1> QED BY <1>3 DEF S, Computed

\* A nonempty set of numbers up to n has a greatest element and a least.
LEMMA Extremes ==
  ASSUME NEW n \in Nat, NEW S \in SUBSET (0..n), S # {}
  PROVE  /\ Max(S) \in S /\ \A j \in S : j <= Max(S)
         /\ Min(S) \in S /\ \A j \in S : Min(S) <= j
  <1>1. \E i \in S : \A j \in S : j <= i
    <2> SUFFICES ASSUME \A i \in S : \E j \in S : j > i PROVE FALSE
      OBVIOUS
    <2> DEFINE U == {k \in 0..n : \E j \in S : j >= k}
    <2>1. 0 \in U
      <3>1. PICK j \in S : j \in 0..n
        OBVIOUS
      <3> QED BY <3>1
    <2>2. ASSUME NEW k \in 1..n, k - 1 \in U PROVE k \in U
      BY <2>2
    <2>3. n \in U
      <3> HIDE DEF U
      <3> QED BY <2>1, <2>2, UpTo
    <2> QED BY <2>3
  <1>2. \E i \in S : \A j \in S : i <= j
    <2> SUFFICES ASSUME \A i \in S : \E j \in S : j < i PROVE FALSE
      OBVIOUS
    <2> DEFINE U == {k \in 0..n : \E j \in S : j <= n - k}
    <2>1. 0 \in U
      <3>1. PICK j \in S : j \in 0..n
        OBVIOUS
      <3> QED BY <3>1
    <2>2. ASSUME NEW k \in 1..n, k - 1 \in U PROVE k \in U
      BY <2>2
    <2>3. n \in U
      <3> HIDE DEF U
      <3> QED BY <2>1, <2>2, UpTo
    <2> QED BY <2>3
  <1>3. /\ Max(S) = CHOOSE i \in S : \A j \in S : i >= j
        /\ Min(S) = CHOOSE i \in S : \A j \in S : i <= j
    BY DEF Max, Min
  <1>4. \E i \in S : \A j \in S : i >= j
    BY <1>1
  <1> QED BY <1>2, <1>3, <1>4

\* What an activation makes of a game.
LEMMA ActivatedIs ==
  ASSUME NEW g \in Games, NEW s \in Source, Legal(g, s), NEW r \in Activated(g, s)
  PROVE  /\ r \in Games /\ Amount(g, s) \in Nat
         /\ r.used = g.used \union {s}
         /\ r.pool = g.pool - Cost[s] + Amount(g, s)
         /\ Reversible(g, s) => r.library = g.library
         /\ Events(g, s) \in [source : Source, amount : Nat, moved : Seq(Cards)]
         /\ Events(g, s).amount = Amount(g, s)
  <1>1. Amount(g, s) \in Nat
    <2>1. IsFiniteSet(g.used \intersect Boosts)
      BY SourcesAssumption, FS_Subset
    <2>2. Cardinality(g.used \intersect Boosts) \in Nat
      BY <2>1, FS_CardinalityType
    <2> QED BY <2>2, SourcesAssumption DEF Amount
  <1>2. PICK l \in CASE Moves[s] = "shuffle" -> Shuffled(g.library)
                     [] Moves[s] = "mill" /\ g.library # <<>> -> {Tail(g.library)}
                     [] OTHER -> {g.library} :
          r = [used |-> g.used \union {s}, pool |-> g.pool - Cost[s] + Amount(g, s), library |-> l]
    BY DEF Activated
  <1>3. g.library \in Seq(Cards) /\ g.pool \in Nat /\ g.used \subseteq Source
    BY DEF Games
  <1>4. /\ r.used = g.used \union {s} /\ r.pool = g.pool - Cost[s] + Amount(g, s)
        /\ r.library = l
    BY <1>2
  <1>5. l \in Seq(Cards)
    <2>1. CASE Moves[s] = "shuffle"
      <3>1. l \in [DOMAIN g.library -> {g.library[i] : i \in DOMAIN g.library}]
        BY <1>2, <2>1 DEF Shuffled
      <3>2. DOMAIN g.library = 1..Len(g.library) /\ Len(g.library) \in Nat
        BY <1>3
      <3>3. {g.library[i] : i \in DOMAIN g.library} \subseteq Cards
        BY <1>3, <3>2
      <3>4. l \in [1..Len(g.library) -> Cards]
        BY <3>1, <3>2, <3>3
      <3> QED BY <3>2, <3>4
    <2>2. CASE Moves[s] = "mill" /\ g.library # <<>>
      BY <1>2, <1>3, <2>2
    <2>3. CASE Moves[s] # "shuffle" /\ ~(Moves[s] = "mill" /\ g.library # <<>>)
      BY <1>2, <1>3, <2>3
    <2> QED BY <2>1, <2>2, <2>3
  <1>6. r \in Games
    <2>1. g.pool - Cost[s] + Amount(g, s) \in Nat
      BY <1>1, <1>3, SourcesAssumption DEF Legal
    <2> QED BY <1>2, <1>3, <1>5, <2>1 DEF Games
  <1>7. Reversible(g, s) => l = g.library
    BY <1>2 DEF Reversible
  <1>8. Events(g, s) \in [source : Source, amount : Nat, moved : Seq(Cards)]
    <2>1. g.library # <<>> => Head(g.library) \in Cards
      BY <1>3
    <2> QED BY <1>1, <1>3, <2>1 DEF Events
  <1>9. Events(g, s).amount = Amount(g, s)
    BY DEF Events
  <1> QED BY <1>1, <1>4, <1>6, <1>7, <1>8, <1>9

LEMMA PRInvInit == ASSUME PRInit PROVE PRInv
  <1>1. Cardinality(Cards) \in Nat
    BY SourcesAssumption, FS_CardinalityType
  <1>2. Orders \subseteq Seq(Cards)
    BY <1>1 DEF Orders
  <1>3. game \in Games /\ game.used = {}
    BY <1>2, SourcesAssumption DEF PRInit, Games
  <1>4. PRTypeOK
    BY <1>3 DEF PRInit, PRTypeOK
  <1>5. Chained
    BY <1>3 DEF PRInit, Chained, GameAt
  <1> QED BY <1>4, <1>5 DEF PRInv, PoolBalances, ReversibleIsUndone, PRInit

\* An activation adds itself to the chain.
LEMMA ActivationKeepsChain ==
  ASSUME PRTypeOK, Chained, NEW s \in Source, ActivateManaAbility(s)
  PROVE  PRTypeOK' /\ Chained'
  <1> DEFINE n == Len(steps)
             latest == [before |-> game, source |-> s, reversible |-> Reversible(game, s),
                        spentMana |-> Cost[s] > 0, events |-> Events(game, s)]
  <1>1. /\ Legal(game, s) /\ game' \in Activated(game, s)
        /\ steps' = Append(steps, latest) /\ UNCHANGED <<stage, start>>
    BY DEF ActivateManaAbility
  <1>2. game \in Games /\ n \in Nat /\ DOMAIN steps = 1..n
    BY DEF PRTypeOK
  <1>3. /\ game' \in Games
        /\ game'.used = game.used \union {s}
        /\ Reversible(game, s) => game'.library = game.library
        /\ Events(game, s) \in [source : Source, amount : Nat, moved : Seq(Cards)]
    BY <1>1, <1>2, ActivatedIs
  <1>4. latest \in PaymentStep
    BY <1>2, <1>3, SourcesAssumption DEF Reversible, PaymentStep
  <1>5. PRTypeOK'
    BY <1>1, <1>3, <1>4 DEF PRTypeOK
  <1>6. /\ Len(steps') = n + 1 /\ DOMAIN steps' = 1..(n + 1)
        /\ \A k \in 1..n : steps'[k] = steps[k]
        /\ steps'[n + 1] = latest
    BY <1>1, <1>4 DEF PRTypeOK
  <1>7. /\ \A k \in 1..(n + 1) : GameAt(k)' = GameAt(k)
        /\ GameAt(n + 1) = game /\ GameAt(n + 2)' = game'
    BY <1>2, <1>6 DEF GameAt
  <1>8. GameAt(1)' = start'
    BY <1>1, <1>2, <1>7 DEF Chained
  <1>9. ASSUME NEW k \in 1..(n + 1)
        PROVE  /\ Legal(GameAt(k)', steps'[k].source)
               /\ GameAt(k + 1)' \in Activated(GameAt(k)', steps'[k].source)
               /\ steps'[k].reversible = Reversible(GameAt(k)', steps'[k].source)
               /\ steps'[k].spentMana = (Cost[steps'[k].source] > 0)
               /\ steps'[k].events = Events(GameAt(k)', steps'[k].source)
    <2>1. CASE k \in 1..n
      <3>1. k + 1 \in 1..(n + 1) /\ k \in DOMAIN steps
        BY <1>2, <2>1
      <3> QED BY <1>6, <1>7, <2>1, <3>1 DEF Chained
    <2>2. CASE k = n + 1
      <3>1. k + 1 = n + 2
        BY <1>2, <2>2
      <3>2. steps'[k] = latest /\ GameAt(k)' = game /\ GameAt(k + 1)' = game'
        BY <1>2, <1>6, <2>2, <3>1 DEF GameAt
      <3>3. /\ latest.source = s /\ latest.reversible = Reversible(game, s)
            /\ latest.spentMana = (Cost[s] > 0) /\ latest.events = Events(game, s)
        OBVIOUS
      <3> HIDE DEF latest
      <3> QED BY <1>1, <3>2, <3>3, Zenon
    <2> QED BY <1>2, <2>1, <2>2
  <1>10. ASSUME NEW k \in 1..(n + 2)
         PROVE  /\ GameAt(k)'.used = {steps'[i].source : i \in 1..(k - 1)}
                /\ (\A i \in k..(n + 1) : steps'[i].reversible) => GameAt(k)'.library = game'.library
    <2>1. CASE k \in 1..(n + 1)
      <3>1. /\ GameAt(k).used = {steps[i].source : i \in 1..(k - 1)}
            /\ (\A i \in k..n : steps[i].reversible) => GameAt(k).library = game.library
        BY <2>1 DEF Chained
      <3>2. {steps[i].source : i \in 1..(k - 1)} = {steps'[i].source : i \in 1..(k - 1)}
        BY <1>2, <1>6, <2>1
      <3>3. ASSUME \A i \in k..(n + 1) : steps'[i].reversible
            PROVE  GameAt(k).library = game'.library
        <4>1. \A i \in k..n : steps[i].reversible
          BY <1>2, <1>6, <2>1, <3>3
        <4>2. latest.reversible
          BY <1>2, <1>6, <2>1, <3>3
        <4> QED BY <1>3, <3>1, <4>1, <4>2
      <3> QED BY <1>7, <2>1, <3>1, <3>2, <3>3
    <2>2. CASE k = n + 2
      <3>1. game.used = {steps[i].source : i \in 1..n}
        <4>1. n + 1 \in 1..(n + 1)
          BY <1>2
        <4>2. GameAt(n + 1).used = {steps[i].source : i \in 1..((n + 1) - 1)}
          BY <4>1 DEF Chained
        <4>3. (n + 1) - 1 = n
          BY <1>2
        <4> QED BY <1>7, <4>2, <4>3
      <3>2. {steps'[i].source : i \in 1..(n + 1)} = {steps[i].source : i \in 1..n} \union {s}
        BY <1>2, <1>6
      <3>3. k - 1 = n + 1
        BY <1>2, <2>2
      <3>4. GameAt(k)' = game'
        BY <1>2, <1>6, <2>2 DEF GameAt
      <3>5. game'.used = {steps'[i].source : i \in 1..(n + 1)}
        BY <1>3, <3>1, <3>2
      <3> QED BY <3>3, <3>4, <3>5
    <2> QED BY <1>2, <2>1, <2>2
  <1>11. Len(steps') + 1 = n + 2
    BY <1>2, <1>6
  <1> HIDE DEF latest
  <1>12. Chained'
    BY <1>6, <1>8, <1>9, <1>10, <1>11 DEF Chained
  <1> QED BY <1>5, <1>12

LEMMA StepTyped ==
  ASSUME PRTypeOK, NEW k \in 1..Len(steps)
  PROVE  /\ k \in DOMAIN steps /\ steps[k].before \in Games /\ steps[k].source \in Source
         /\ steps[k].reversible \in BOOLEAN
         /\ steps[k].events.amount \in Nat /\ Cost[steps[k].source] \in Nat
  <1>1. k \in DOMAIN steps /\ steps[k] \in PaymentStep
    BY DEF PRTypeOK
  <1> HIDE DEF Games
  <1> QED BY <1>1, SourcesAssumption DEF PaymentStep

\* The activations that can't be reversed, those that pin others, and the first
\* that is reversed.
LEMMA Marks ==
  ASSUME PRTypeOK
  PROVE  /\ Len(steps) \in Nat /\ DOMAIN steps = 1..Len(steps)
         /\ Last \in 0..Len(steps) /\ Last \in Irreversible \union {0}
         /\ \A i \in Irreversible : i <= Last
         /\ Pinned \in 0..Last
         /\ \A i \in Irreversible : steps[i].spentMana => i <= Pinned
         /\ First \in (Pinned + 1)..(Len(steps) + 1)
         /\ \A i \in DOMAIN steps : i > Pinned /\ i < First => ~steps[i].reversible
  <1> DEFINE n == Len(steps)
             spent == {i \in Irreversible : steps[i].spentMana}
             later == {i \in DOMAIN steps : i > Pinned /\ steps[i].reversible}
  <1>1. n \in Nat /\ DOMAIN steps = 1..n
    BY DEF PRTypeOK
  <1>2. Irreversible \union {0} \in SUBSET (0..n) /\ spent \union {0} \in SUBSET (0..n)
    BY <1>1 DEF Irreversible
  <1>3. Last \in Irreversible \union {0} /\ \A i \in Irreversible : i <= Last
    <2>1. Irreversible \union {0} # {}
      OBVIOUS
    <2> QED BY <1>1, <1>2, <2>1, Extremes DEF Last
  <1>4. Pinned \in spent \union {0} /\ \A i \in spent : i <= Pinned
    <2>1. spent \union {0} # {}
      OBVIOUS
    <2> QED BY <1>1, <1>2, <2>1, Extremes DEF Pinned
  <1>5. Last \in 0..n /\ Pinned \in 0..Last
    BY <1>1, <1>2, <1>3, <1>4
  <1>6. later \union {n + 1} \in SUBSET (0..(n + 1)) /\ later \union {n + 1} # {} /\ n + 1 \in Nat
    BY <1>1
  <1>7. First \in later \union {n + 1} /\ \A i \in later : First <= i
    <2>1. First = Min(later \union {n + 1})
      BY DEF First
    <2> HIDE DEF later
    <2> QED BY <1>6, <2>1, Extremes
  <1>8. First \in (Pinned + 1)..(n + 1)
    BY <1>1, <1>5, <1>7
  <1>9. \A i \in DOMAIN steps : i > Pinned /\ i < First => ~steps[i].reversible
    BY <1>1, <1>5, <1>7, <1>8
  <1> QED BY <1>1, <1>3, <1>4, <1>5, <1>8, <1>9

\* No source is activated twice.
LEMMA SourcesDiffer ==
  ASSUME PRTypeOK, Chained
  PROVE  \A i, j \in DOMAIN steps : steps[i].source = steps[j].source => i = j
  <1>1. Len(steps) \in Nat /\ DOMAIN steps = 1..Len(steps)
    BY DEF PRTypeOK
  <1>2. ASSUME NEW i \in DOMAIN steps, NEW j \in DOMAIN steps, i < j
        PROVE  steps[i].source # steps[j].source
    <2>1. j \in 1..(Len(steps) + 1) /\ i \in 1..(j - 1)
      BY <1>1, <1>2
    <2>2. GameAt(j).used = {steps[k].source : k \in 1..(j - 1)}
      BY <2>1 DEF Chained
    <2>3. steps[j].source \notin GameAt(j).used
      BY DEF Chained, Legal
    <2> QED BY <2>1, <2>2, <2>3
  <1> QED BY <1>1, <1>2

\* Every checkpoint of a window is a game, and how the next one comes about.
LEMMA Checkpoints ==
  ASSUME PRTypeOK, Chained, NEW k \in 1..(Len(steps) + 1)
  PROVE  /\ GameAt(k) \in Games
         /\ k <= Len(steps) =>
              GameAt(k + 1).pool = GameAt(k).pool + steps[k].events.amount - Cost[steps[k].source]
  <1>1. Len(steps) \in Nat /\ DOMAIN steps = 1..Len(steps)
    BY DEF PRTypeOK
  <1>2. GameAt(k) \in Games
    BY <1>1, StepTyped DEF PRTypeOK, GameAt
  <1>3. ASSUME k <= Len(steps)
        PROVE  GameAt(k + 1).pool = GameAt(k).pool + steps[k].events.amount - Cost[steps[k].source]
    <2> DEFINE s == steps[k].source
    <2>1. k \in DOMAIN steps /\ s \in Source
      BY <1>1, <1>3, StepTyped
    <2>2. /\ Legal(GameAt(k), s) /\ GameAt(k + 1) \in Activated(GameAt(k), s)
          /\ steps[k].events = Events(GameAt(k), s)
      BY <2>1 DEF Chained
    <2> HIDE DEF s
    <2>3. /\ GameAt(k + 1).pool = GameAt(k).pool - Cost[s] + Amount(GameAt(k), s)
          /\ Amount(GameAt(k), s) \in Nat /\ steps[k].events.amount = Amount(GameAt(k), s)
      BY <1>2, <2>1, <2>2, ActivatedIs
    <2>4. GameAt(k).pool \in Nat /\ Cost[s] \in Nat
      BY <1>2, <2>1, SourcesAssumption DEF Games
    <2> QED BY <2>3, <2>4 DEF s
  <1> QED BY <1>2, <1>3

\* after is what Balance computes step by step.
Balances(after, pool, made, kept) ==
  after = [k \in 0..Len(made) |->
             IF k = 0 THEN pool
             ELSE after[k - 1] + (IF k \in kept THEN made[k].events.amount - Cost[made[k].source] ELSE 0)]

LEMMA BalanceIsComputed ==
  ASSUME PRTypeOK, NEW kept
  PROVE  \E f \in [0..Len(steps) -> Int] :
           /\ f[0] = start.pool
           /\ \A k \in 1..Len(steps) :
                f[k] = f[k - 1] + (IF k \in kept THEN steps[k].events.amount - Cost[steps[k].source] ELSE 0)
           /\ Balance(start.pool, steps, kept) = f[Len(steps)]
  <1> DEFINE n == Len(steps)
             gain == [k \in 1..n |-> IF k \in kept THEN steps[k].events.amount - Cost[steps[k].source] ELSE 0]
             F == [x \in (1..n) \X Int |-> x[2] + gain[x[1]]]
  <1>1. n \in Nat /\ start.pool \in Int
    BY DEF PRTypeOK, Games
  <1>2. gain \in [1..n -> Int]
    <2>1. ASSUME NEW k \in 1..n PROVE steps[k].events.amount \in Int /\ Cost[steps[k].source] \in Int
      BY StepTyped
    <2> QED BY <2>1
  <1>3. F \in [(1..n) \X Int -> Int]
    <2> HIDE DEF gain
    <2> QED BY <1>2
  <1>4. \A k \in 1..n, z \in Int : F[<<k, z>>] = z + gain[k]
    OBVIOUS
  <1> HIDE DEF F
  <1>5. PICK f \in [0..n -> Int] : f[0] = start.pool /\ \A k \in 1..n : f[k] = F[<<k, f[k - 1]>>]
    <2>1. Computed(n, Int, start.pool, F)
      BY <1>1, <1>3, StepByStep
    <2> QED BY <2>1 DEF Computed
  <1>6. \A k \in 1..n : f[k] = f[k - 1] + gain[k]
    <2> SUFFICES ASSUME NEW k \in 1..n PROVE f[k] = f[k - 1] + gain[k]
      OBVIOUS
    <2>1. f[k - 1] \in Int
      BY <1>1, <1>5
    <2> QED BY <1>4, <1>5, <2>1
  <1>7. Balances(f, start.pool, steps, kept)
    BY <1>1, <1>5, <1>6 DEF Balances
  <1> DEFINE after == CHOOSE a : Balances(a, start.pool, steps, kept)
  <1>8. Balances(after, start.pool, steps, kept)
    BY <1>7
  <1>9. Balance(start.pool, steps, kept) = after[n]
    BY DEF Balance, Balances
  <1> HIDE DEF after
  <1>10. after = [k \in 0..n |->
                    IF k = 0 THEN start.pool ELSE after[k - 1] + (IF k \in kept THEN steps[k].events.amount - Cost[steps[k].source] ELSE 0)]
    BY <1>8 DEF Balances
  <1>11. DOMAIN after = 0..n /\ after[0] = start.pool
         /\ \A k \in 1..n : after[k] = after[k - 1] + gain[k]
    BY <1>1, <1>10
  <1>12. \A k \in 0..n : after[k] = f[k]
    <2> DEFINE S == {k \in 0..n : after[k] = f[k]}
    <2>1. 0 \in S
      BY <1>1, <1>5, <1>11
    <2>2. ASSUME NEW k \in 1..n, k - 1 \in S PROVE k \in S
      BY <1>6, <1>11, <2>2
    <2> HIDE DEF S
    <2>3. 0..n \subseteq S
      BY <1>1, <2>1, <2>2, UpTo
    <2> QED BY <2>3 DEF S
  <1> QED BY <1>1, <1>5, <1>6, <1>9, <1>12

\* Going back to the checkpoint after m activations, the pool holds their balance.
LEMMA PrefixBalance ==
  ASSUME PRTypeOK, Chained, NEW m \in 0..Len(steps)
  PROVE  Balance(start.pool, steps, 1..m) = GameAt(m + 1).pool
  <1> DEFINE n == Len(steps)
             gain(k) == steps[k].events.amount - Cost[steps[k].source]
             at(k) == GameAt(IF k < m THEN k + 1 ELSE m + 1).pool
  <1>1. n \in Nat /\ m \in Nat /\ m <= n
    BY DEF PRTypeOK
  <1>2. PICK f \in [0..n -> Int] :
          /\ f[0] = start.pool
          /\ \A k \in 1..n : f[k] = f[k - 1] + (IF k \in 1..m THEN gain(k) ELSE 0)
          /\ Balance(start.pool, steps, 1..m) = f[n]
    BY BalanceIsComputed
  <1> DEFINE S == {k \in 0..n : f[k] = at(k)}
  <1>3. 0 \in S
    <2>1. (IF 0 < m THEN 0 + 1 ELSE m + 1) = 1
      BY <1>1
    <2> QED BY <1>1, <1>2, <2>1 DEF Chained
  <1>4. ASSUME NEW k \in 1..n, k - 1 \in S PROVE k \in S
    <2>1. f[k - 1] = at(k - 1) /\ k - 1 \in 0..n
      BY <1>4
    <2>2. CASE k <= m
      <3>1. at(k - 1) = GameAt(k).pool /\ at(k) = GameAt(k + 1).pool
        <4>1. /\ (IF k - 1 < m THEN (k - 1) + 1 ELSE m + 1) = k
              /\ (IF k < m THEN k + 1 ELSE m + 1) = k + 1
          BY <1>1, <2>2
        <4> QED BY <4>1
      <3>2. /\ GameAt(k + 1).pool = GameAt(k).pool + steps[k].events.amount - Cost[steps[k].source]
            /\ GameAt(k).pool \in Nat
        <4>1. k \in 1..(n + 1) /\ k <= n
          BY <1>1
        <4> QED BY <4>1, Checkpoints DEF Games
      <3>3. steps[k].events.amount \in Nat /\ Cost[steps[k].source] \in Nat
        BY StepTyped
      <3>4. f[k] = f[k - 1] + gain(k)
        BY <1>1, <1>2, <2>2
      <3> HIDE DEF at
      <3>5. f[k] = at(k)
        BY <2>1, <3>1, <3>2, <3>3, <3>4
      <3> QED BY <3>5
    <2>3. CASE k > m
      <3>1. at(k - 1) = GameAt(m + 1).pool /\ at(k) = GameAt(m + 1).pool
        <4>1. /\ (IF k - 1 < m THEN (k - 1) + 1 ELSE m + 1) = m + 1
              /\ (IF k < m THEN k + 1 ELSE m + 1) = m + 1
          BY <1>1, <2>3
        <4> QED BY <4>1
      <3>2. f[k] = f[k - 1]
        <4>1. f[k - 1] \in Int
          BY <1>1, <1>2
        <4> QED BY <1>1, <1>2, <2>3, <4>1
      <3> HIDE DEF at
      <3>3. f[k] = at(k)
        BY <2>1, <3>1, <3>2
      <3> QED BY <3>3
    <2> QED BY <1>1, <2>2, <2>3
  <1>5. n \in S
    <2> HIDE DEF S
    <2>1. 0..n \subseteq S
      BY <1>1, <1>3, <1>4, UpTo
    <2> QED BY <1>1, <2>1
  <1>6. at(n) = GameAt(m + 1).pool
    <2>1. (IF n < m THEN n + 1 ELSE m + 1) = m + 1
      BY <1>1
    <2> QED BY <2>1
  <1> QED BY <1>2, <1>5, <1>6

\* What the games before step k become when it is repeated, if it is to be.
AfterRepeat(k, games) ==
  IF k < First THEN {steps[First].before}
  ELSE IF steps[k].reversible THEN games
  ELSE UNION {Activated(g, steps[k].source) : g \in {h \in games : Repeats(h, k)}}

\* after is what Repeated computes step by step.
RepeatsStepByStep(after) ==
  after = [k \in 0..Last |->
             IF k < First THEN {steps[First].before}
             ELSE IF steps[k].reversible THEN after[k - 1]
             ELSE UNION {Activated(g, steps[k].source) : g \in {h \in after[k - 1] : Repeats(h, k)}}]

LEMMA RepeatedIsComputed ==
  ASSUME PRTypeOK, First <= Len(steps), First < Last
  PROVE  /\ Repeated \in [0..Last -> SUBSET Games]
         /\ Repeated[0] = {steps[First].before}
         /\ \A k \in 1..Last : Repeated[k] = AfterRepeat(k, Repeated[k - 1])
  <1> DEFINE F == [x \in (1..Last) \X SUBSET Games |-> AfterRepeat(x[1], x[2])]
  <1>1. /\ Last \in Nat /\ Last <= Len(steps) /\ First \in 1..Len(steps) /\ Len(steps) \in Nat
    BY Marks
  <1>2. {steps[First].before} \in SUBSET Games
    BY <1>1, StepTyped
  <1>3. ASSUME NEW k \in 1..Last, NEW G \in SUBSET Games
        PROVE  AfterRepeat(k, G) \in SUBSET Games
    <2>1. steps[k].source \in Source
      BY <1>1, StepTyped
    <2>2. ASSUME NEW g \in G, Repeats(g, k) PROVE Activated(g, steps[k].source) \subseteq Games
      <3>1. Legal(g, steps[k].source)
        BY <2>2 DEF Repeats
      <3> QED BY <2>1, <3>1, ActivatedIs
    <2>3. UNION {Activated(g, steps[k].source) : g \in {h \in G : Repeats(h, k)}} \in SUBSET Games
      BY <2>2
    <2> QED BY <1>2, <2>3 DEF AfterRepeat
  <1>4. F \in [(1..Last) \X SUBSET Games -> SUBSET Games]
    BY <1>3
  <1>5. PICK f \in [0..Last -> SUBSET Games] :
          f[0] = {steps[First].before} /\ \A k \in 1..Last : f[k] = F[<<k, f[k - 1]>>]
    <2> HIDE DEF F
    <2>1. Computed(Last, SUBSET Games, {steps[First].before}, F)
      BY <1>1, <1>2, <1>4, StepByStep
    <2> QED BY <2>1 DEF Computed
  <1>6. \A k \in 1..Last : f[k] = AfterRepeat(k, f[k - 1])
    <2> SUFFICES ASSUME NEW k \in 1..Last PROVE f[k] = AfterRepeat(k, f[k - 1])
      OBVIOUS
    <2>1. f[k - 1] \in SUBSET Games /\ <<k, f[k - 1]>> \in (1..Last) \X SUBSET Games
      BY <1>1, <1>5
    <2> QED BY <1>5, <2>1
  <1>7. RepeatsStepByStep(f)
    <2>1. \A k \in 0..Last :
            f[k] = IF k < First THEN {steps[First].before}
                   ELSE IF steps[k].reversible THEN f[k - 1]
                   ELSE UNION {Activated(g, steps[k].source) : g \in {h \in f[k - 1] : Repeats(h, k)}}
      <3> SUFFICES ASSUME NEW k \in 0..Last
                   PROVE  f[k] = IF k < First THEN {steps[First].before}
                                 ELSE IF steps[k].reversible THEN f[k - 1]
                                 ELSE UNION {Activated(g, steps[k].source) :
                                               g \in {h \in f[k - 1] : Repeats(h, k)}}
        OBVIOUS
      <3>1. CASE k = 0
        BY <1>1, <1>5, <3>1
      <3>2. CASE k \in 1..Last
        <4>1. f[k] = AfterRepeat(k, f[k - 1])
          BY <1>6, <3>2
        <4> QED BY <4>1 DEF AfterRepeat
      <3> QED BY <1>1, <3>1, <3>2
    <2> QED BY <1>5, <2>1, Zenon DEF RepeatsStepByStep
  <1> DEFINE after == CHOOSE a : RepeatsStepByStep(a)
  <1>8. RepeatsStepByStep(after)
    BY <1>7
  <1>9. Repeated = after
    BY DEF Repeated, RepeatsStepByStep
  <1> HIDE DEF after
  <1>10. DOMAIN after = 0..Last /\ after = [k \in 0..Last |-> after[k]]
    BY <1>8 DEF RepeatsStepByStep
  <1>11. after[0] = {steps[First].before} /\ \A k \in 1..Last : after[k] = AfterRepeat(k, after[k - 1])
    <2>1. after[0] = {steps[First].before}
      BY <1>1, <1>8 DEF RepeatsStepByStep
    <2>2. ASSUME NEW k \in 1..Last PROVE after[k] = AfterRepeat(k, after[k - 1])
      <3>1. k \in 0..Last
        BY <1>1
      <3>2. after[k] = IF k < First THEN {steps[First].before}
                       ELSE IF steps[k].reversible THEN after[k - 1]
                       ELSE UNION {Activated(g, steps[k].source) :
                                     g \in {h \in after[k - 1] : Repeats(h, k)}}
        BY <1>8, <3>1 DEF RepeatsStepByStep
      <3> QED BY <3>2 DEF AfterRepeat
    <2> QED BY <2>1, <2>2
  <1>12. after \in [0..Last -> SUBSET Games]
    <2> DEFINE S == {k \in 0..Last : after[k] \in SUBSET Games}
    <2>1. 0 \in S
      BY <1>1, <1>2, <1>11
    <2>2. ASSUME NEW k \in 1..Last, k - 1 \in S PROVE k \in S
      BY <1>1, <1>3, <1>11, <2>2
    <2>3. 0..Last \subseteq S
      <3> HIDE DEF S
      <3> QED BY <1>1, <2>1, <2>2, UpTo
    <2> QED BY <1>10, <2>3
  <1> QED BY <1>9, <1>11, <1>12

\* What stays when reversible activations are reversed and the others repeated.
Stays == {i \in DOMAIN steps : i < First \/ i \in Irreversible}

\* A game in which the irreversible activations have been repeated has used what
\* they used, and its pool is their balance.
LEMMA RepeatedBalance ==
  ASSUME PRTypeOK, Chained, First <= Len(steps), First < Last, NEW r \in Repeated[Last]
  PROVE  /\ r.used = {steps[i].source : i \in Stays}
         /\ r.pool = Balance(start.pool, steps, Stays)
  <1> DEFINE n == Len(steps)
             gain(k) == steps[k].events.amount - Cost[steps[k].source]
             sofar(k) == {steps[i].source : i \in {j \in Stays : j < First \/ j <= k}}
             of(k) == IF k < First THEN First - 1 ELSE k
  <1>1. /\ Last \in Nat /\ Last <= n /\ First \in 1..n /\ n \in Nat /\ DOMAIN steps = 1..n
        /\ \A i \in Irreversible : i <= Last
    BY Marks
  <1>2. PICK f \in [0..n -> Int] :
          /\ f[0] = start.pool
          /\ \A k \in 1..n : f[k] = f[k - 1] + (IF k \in Stays THEN gain(k) ELSE 0)
          /\ Balance(start.pool, steps, Stays) = f[n]
    BY BalanceIsComputed
  <1>3. f[First - 1] = GameAt(First).pool
    <2> DEFINE S == {k \in 0..(First - 1) : f[k] = GameAt(k + 1).pool}
    <2>1. 0 \in S
      BY <1>1, <1>2 DEF Chained
    <2>2. ASSUME NEW k \in 1..(First - 1), k - 1 \in S PROVE k \in S
      <3>1. f[k - 1] = GameAt(k).pool
        <4>1. (k - 1) + 1 = k
          BY <1>1
        <4> QED BY <2>2, <4>1
      <3>2. /\ GameAt(k + 1).pool = GameAt(k).pool + steps[k].events.amount - Cost[steps[k].source]
            /\ GameAt(k).pool \in Nat
        <4>1. k \in 1..(n + 1) /\ k <= n
          BY <1>1
        <4> QED BY <4>1, Checkpoints DEF Games
      <3>3. steps[k].events.amount \in Nat /\ Cost[steps[k].source] \in Nat
        BY <1>1, StepTyped
      <3>4. f[k] = f[k - 1] + gain(k)
        BY <1>1, <1>2 DEF Stays
      <3> QED BY <1>1, <3>1, <3>2, <3>3, <3>4
    <2>3. First - 1 \in S
      <3> HIDE DEF S
      <3>1. First - 1 \in Nat
        BY <1>1
      <3>2. 0..(First - 1) \subseteq S
        BY <2>1, <2>2, <3>1, UpTo
      <3> QED BY <3>1, <3>2
    <2>4. (First - 1) + 1 = First
      BY <1>1
    <2> QED BY <2>3, <2>4
  <1>4. /\ Repeated \in [0..Last -> SUBSET Games]
        /\ Repeated[0] = {steps[First].before}
        /\ \A k \in 1..Last : Repeated[k] = AfterRepeat(k, Repeated[k - 1])
    BY RepeatedIsComputed
  <1> DEFINE Good(k, g) == g.used = sofar(k) /\ g.pool = f[of(k)]
             S == {k \in 0..Last : \A g \in Repeated[k] : Good(k, g)}
  <1>5. ASSUME NEW k \in 0..Last, k < First PROVE Good(k, steps[First].before)
    <2>1. GameAt(First) = steps[First].before
      BY <1>1 DEF GameAt
    <2>2. GameAt(First).used = {steps[i].source : i \in 1..(First - 1)}
      BY <1>1 DEF Chained
    <2>3. {j \in Stays : j < First \/ j <= k} = 1..(First - 1)
      BY <1>1, <1>5 DEF Stays
    <2>4. sofar(k) = {steps[i].source : i \in 1..(First - 1)}
      BY <2>3
    <2> QED BY <1>3, <1>5, <2>1, <2>2, <2>4
  <1>6. 0 \in S
    BY <1>1, <1>4, <1>5
  <1>7. ASSUME NEW k \in 1..Last, k - 1 \in S PROVE k \in S
    <2> SUFFICES ASSUME NEW g \in Repeated[k] PROVE Good(k, g)
      OBVIOUS
    <2>1. g \in AfterRepeat(k, Repeated[k - 1]) /\ k \in 1..n /\ k - 1 \in 0..Last
      BY <1>1, <1>4
    <2>2. CASE k < First
      BY <1>5, <2>1, <2>2 DEF AfterRepeat
    <2>3. CASE k >= First
      <3>1. of(k) = k /\ of(k - 1) = k - 1
        BY <1>1, <2>3
      <3>2. CASE steps[k].reversible
        <4>1. g \in Repeated[k - 1]
          BY <1>1, <2>1, <2>3, <3>2 DEF AfterRepeat
        <4>2. k \notin Stays
          BY <1>1, <2>3, <3>2 DEF Stays, Irreversible
        <4>3. f[k] = f[k - 1]
          <5>1. f[k - 1] \in Int
            BY <1>1, <1>2
          <5> QED BY <1>2, <2>1, <4>2, <5>1
        <4>4. {j \in Stays : j < First \/ j <= k} = {j \in Stays : j < First \/ j <= k - 1}
          BY <1>1, <4>2 DEF Stays
        <4>5. g.used = sofar(k - 1) /\ g.pool = f[of(k - 1)]
          BY <1>7, <4>1
        <4>6. g.used = sofar(k)
          BY <4>4, <4>5
        <4> QED BY <3>1, <4>3, <4>5, <4>6
      <3>3. CASE ~steps[k].reversible
        <4>1. PICK h \in Repeated[k - 1] : Repeats(h, k) /\ g \in Activated(h, steps[k].source)
          BY <1>1, <2>1, <2>3, <3>3 DEF AfterRepeat
        <4>2. k \in Stays
          BY <1>1, <3>3 DEF Stays, Irreversible
        <4>3. h \in Games /\ steps[k].source \in Source
          BY <1>1, <1>4, <2>1, StepTyped
        <4>4. /\ Legal(h, steps[k].source)
              /\ Events(h, steps[k].source) = steps[k].events
          BY <4>1 DEF Repeats, SameEvents
        <4>5. /\ g.used = h.used \union {steps[k].source}
              /\ g.pool = h.pool - Cost[steps[k].source] + steps[k].events.amount
          BY <4>1, <4>3, <4>4, ActivatedIs
        <4>6. h.used = sofar(k - 1) /\ h.pool = f[of(k - 1)]
          BY <1>7, <4>1
        <4>7. {j \in Stays : j < First \/ j <= k} = {j \in Stays : j < First \/ j <= k - 1} \union {k}
          BY <1>1, <4>2 DEF Stays
        <4>8. g.used = sofar(k)
          BY <4>5, <4>6, <4>7
        <4>9. g.pool = f[k]
          <5>1. /\ f[k - 1] \in Int /\ steps[k].events.amount \in Nat /\ Cost[steps[k].source] \in Nat
            <6>1. k - 1 \in 0..n
              BY <1>1, <2>1
            <6> QED BY <1>2, <2>1, <6>1, StepTyped
          <5>2. f[k] = f[k - 1] + gain(k) /\ h.pool = f[k - 1]
            BY <1>2, <2>1, <3>1, <4>2, <4>6
          <5> QED BY <4>5, <5>1, <5>2
        <4> QED BY <3>1, <4>8, <4>9
      <3> QED BY <3>2, <3>3
    <2> QED BY <1>1, <2>2, <2>3
  <1>8. Last \in S
    <2> HIDE DEF S
    <2>1. 0..Last \subseteq S
      BY <1>1, <1>6, <1>7, UpTo
    <2> QED BY <1>1, <2>1
  <1>9. r.used = sofar(Last) /\ r.pool = f[Last]
    BY <1>1, <1>8
  <1>10. {j \in Stays : j < First \/ j <= Last} = Stays
    BY <1>1 DEF Stays
  <1>11. f[n] = f[Last]
    <2> DEFINE T == {k \in 0..n : k <= Last \/ f[k] = f[Last]}
    <2>1. 0 \in T
      BY <1>1
    <2>2. ASSUME NEW k \in 1..n, k - 1 \in T PROVE k \in T
      <3>1. CASE k <= Last
        BY <3>1
      <3>2. CASE k > Last
        <4>1. k \notin Stays
          BY <1>1, <3>2 DEF Stays
        <4>2. f[k] = f[k - 1]
          <5>1. f[k - 1] \in Int
            BY <1>1, <1>2
          <5> QED BY <1>2, <4>1, <5>1
        <4>3. f[k - 1] = f[Last]
          <5>1. CASE k - 1 <= Last
            <6>1. k - 1 = Last
              BY <1>1, <3>2, <5>1
            <6> QED BY <6>1
          <5>2. CASE ~(k - 1 <= Last)
            BY <2>2, <5>2
          <5> QED BY <5>1, <5>2
        <4> QED BY <4>2, <4>3
      <3> QED BY <1>1, <3>1, <3>2
    <2>3. n \in T
      <3> HIDE DEF T
      <3>1. 0..n \subseteq T
        BY <1>1, <2>1, <2>2, UpTo
      <3> QED BY <1>1, <3>1
    <2> QED BY <1>1, <2>3
  <1> QED BY <1>2, <1>9, <1>10, <1>11

\* Undoing a payment leaves the library, and what stays is what came before the
\* first activation to reverse and what is irreversible, or all up to the last
\* irreversible activation; the pool is the balance of what stays.
LEMMA UndoneIsBalanced ==
  ASSUME PRTypeOK, Chained, UndoManualPaymentMana
  PROVE  /\ game' \in Games /\ game'.library = game.library
         /\ \E kept \in {Stays, 1..Last} :
              /\ game'.used = {steps[i].source : i \in kept}
              /\ game'.pool = Balance(start.pool, steps, kept)
  <1> DEFINE n == Len(steps)
  <1>1. /\ n \in Nat /\ DOMAIN steps = 1..n /\ Last \in 0..n /\ First \in 1..(n + 1)
        /\ Last \in Irreversible \union {0}
        /\ \A i \in Irreversible : i <= Last
        /\ First <= n => steps[First].reversible
    <2>1. First <= n => steps[First].reversible
      <3> DEFINE later == {i \in DOMAIN steps : i > Pinned /\ steps[i].reversible}
      <3>1. later \union {n + 1} \in SUBSET (0..(n + 1)) /\ later \union {n + 1} # {} /\ n + 1 \in Nat
        BY Marks
      <3>2. First \in later \union {n + 1}
        <4>1. First = Min(later \union {n + 1})
          BY DEF First
        <4> HIDE DEF later
        <4> QED BY <3>1, <4>1, Extremes
      <3> QED BY <3>2, Marks
    <2>2. First \in 1..(n + 1)
      BY Marks
    <2> QED BY <2>1, <2>2, Marks
  <1>2. First # Last
    BY <1>1 DEF Irreversible
  <1>3. ASSUME NEW m \in 0..n, Last <= m, game' = GameAt(m + 1)
        PROVE  /\ game' \in Games /\ game'.library = game.library
               /\ game'.used = {steps[i].source : i \in 1..m}
               /\ game'.pool = Balance(start.pool, steps, 1..m)
    <2>1. m + 1 \in 1..(n + 1) /\ (m + 1) - 1 = m
      BY <1>1
    <2>2. GameAt(m + 1) \in Games
      BY <2>1, Checkpoints
    <2>3. \A i \in (m + 1)..n : steps[i].reversible
      <3> SUFFICES ASSUME NEW i \in (m + 1)..n, i \in Irreversible PROVE FALSE
        BY <1>1, StepTyped DEF Irreversible
      <3> QED BY <1>1, <1>3
    <2>4. /\ GameAt(m + 1).used = {steps[i].source : i \in 1..((m + 1) - 1)}
          /\ GameAt(m + 1).library = game.library
      BY <2>1, <2>3 DEF Chained
    <2>5. GameAt(m + 1).pool = Balance(start.pool, steps, 1..m)
      BY PrefixBalance
    <2> QED BY <1>3, <2>1, <2>2, <2>4, <2>5
  <1>4. CASE Last < First /\ game' = GameAt(First)
    <2> DEFINE m == First - 1
    <2>1. m \in 0..n /\ Last <= m /\ m + 1 = First
      BY <1>1, <1>4
    <2>2. Stays = 1..m
      BY <1>1, <1>4 DEF Stays
    <2> HIDE DEF m
    <2>3. /\ game' \in Games /\ game'.library = game.library
          /\ game'.used = {steps[i].source : i \in 1..m}
          /\ game'.pool = Balance(start.pool, steps, 1..m)
      BY <1>3, <1>4, <2>1
    <2> QED BY <2>2, <2>3
  <1>5. AfterLast = GameAt(Last + 1)
    BY <1>1 DEF AfterLast, GameAt
  <1>6. CASE game' = AfterLast
    BY <1>1, <1>3, <1>5, <1>6
  <1>7. CASE First <= n /\ First < Last /\ game' \in Repeated[Last] /\ SameLibrary(game')
    <2>1. game' \in Games
      BY <1>1, <1>7, RepeatedIsComputed
    <2>2. game'.used = {steps[i].source : i \in Stays} /\ game'.pool = Balance(start.pool, steps, Stays)
      BY <1>7, RepeatedBalance
    <2>3. game'.library = game.library
      <3>1. game'.library = GameAt(Last + 1).library
        BY <1>5, <1>7 DEF SameLibrary
      <3>2. Last + 1 \in 1..(n + 1)
        BY <1>1
      <3>3. \A i \in (Last + 1)..n : steps[i].reversible
        <4> SUFFICES ASSUME NEW i \in (Last + 1)..n, i \in Irreversible PROVE FALSE
          BY <1>1, StepTyped DEF Irreversible
        <4> QED BY <1>1
      <3>4. GameAt(Last + 1).library = game.library
        BY <3>2, <3>3 DEF Chained
      <3> QED BY <3>1, <3>4
    <2> QED BY <2>1, <2>2, <2>3
  <1>8. First > n => Last < First /\ game = GameAt(First)
    BY <1>1 DEF GameAt
  <1>9. First <= n => steps[First].before = GameAt(First)
    BY <1>1 DEF GameAt
  <1>10. \/ Last < First /\ game' = GameAt(First)
         \/ game' = AfterLast
         \/ First <= n /\ First < Last /\ game' \in Repeated[Last] /\ SameLibrary(game')
    BY <1>8, <1>9 DEF UndoManualPaymentMana
  <1> QED BY <1>4, <1>6, <1>7, <1>10

\* Undoing a payment keeps the invariant.
LEMMA UndoKeepsInv ==
  ASSUME PRTypeOK, Chained, UndoManualPaymentMana
  PROVE  /\ PRInv' /\ game'.library = game.library /\ (Irreversible \subseteq Kept)'
  <1>1. /\ stage' = "undone" /\ steps' = steps /\ start' = start
    BY DEF UndoManualPaymentMana
  <1>2. PICK kept \in {Stays, 1..Last} :
          /\ game'.used = {steps[i].source : i \in kept}
          /\ game'.pool = Balance(start.pool, steps, kept)
    BY UndoneIsBalanced
  <1>3. game' \in Games /\ game'.library = game.library
    BY UndoneIsBalanced
  <1>4. PRTypeOK'
    BY <1>1, <1>3 DEF PRTypeOK
  <1>5. kept \subseteq DOMAIN steps
    BY <1>2, Marks DEF Stays
  <1>6. Kept' = kept
    <2> DEFINE used == game'.used
    <2>1. {i \in DOMAIN steps : steps[i].source \in used} = kept
      <3>1. used = {steps[i].source : i \in kept}
        BY <1>2
      <3> HIDE DEF used
      <3> QED BY <1>5, <3>1, SourcesDiffer
    <2>2. Kept' = {i \in DOMAIN steps : steps[i].source \in used}
      BY <1>1 DEF Kept
    <2> QED BY <2>1, <2>2
  <1>7. Irreversible' = Irreversible /\ Last' = Last /\ Pinned' = Pinned
    BY <1>1 DEF Irreversible, Last, Pinned
  <1>8. PoolBalances'
    BY <1>1, <1>2, <1>6 DEF PoolBalances
  <1>9. Irreversible \subseteq kept
    BY <1>2, Marks DEF Stays, Irreversible
  <1>10. /\ \A i \in Irreversible : steps[i].spentMana => 1..i \subseteq kept
         /\ \A i \in kept : i <= Last \/ ~steps[i].reversible
         /\ \/ \A i \in kept : i <= Pinned \/ ~steps[i].reversible
            \/ kept = 1..Last
    <2>1. CASE kept = 1..Last
      <3>1. \A i \in Irreversible : 1..i \subseteq 1..Last
        BY Marks DEF Irreversible
      <3> QED BY <2>1, <3>1, Marks
    <2>2. CASE kept = Stays
      <3>1. ASSUME NEW i \in Irreversible, steps[i].spentMana PROVE 1..i \subseteq kept
        BY <2>2, <3>1, Marks DEF Stays, Irreversible
      <3>2. \A i \in kept : i <= Pinned \/ ~steps[i].reversible
        BY <2>2, Marks DEF Stays, Irreversible
      <3>3. \A i \in kept : i <= Pinned => i <= Last
        BY <1>5, Marks
      <3> QED BY <3>1, <3>2, <3>3, Zenon
    <2> QED BY <1>2, <2>1, <2>2
  <1>11. ReversibleIsUndone'
    BY <1>1, <1>6, <1>7, <1>10 DEF ReversibleIsUndone
  <1>12. (Irreversible \subseteq Kept)'
    BY <1>6, <1>7, <1>9
  <1> QED BY <1>1, <1>3, <1>4, <1>8, <1>11, <1>12 DEF PRInv

LEMMA PRInvStep == ASSUME PRInv, [PRNext]_PRvars PROVE PRInv'
  <1>1. ASSUME NEW s \in Source, ActivateManaAbility(s) PROVE PRInv'
    <2>1. stage = "window" /\ stage' = "window"
      BY <1>1 DEF ActivateManaAbility
    <2> QED BY <1>1, <2>1, ActivationKeepsChain DEF PRInv, PoolBalances, ReversibleIsUndone
  <1>2. CASE UndoManualPaymentMana
    <2>1. stage = "window"
      BY <1>2 DEF UndoManualPaymentMana
    <2> QED BY <1>2, <2>1, UndoKeepsInv DEF PRInv
  <1>3. CASE Pay
    <2>1. game' \in Games
      <3>1. game \in Games /\ game.pool - 1 \in Nat /\ game' = [game EXCEPT !.pool = @ - 1]
        BY <1>3 DEF Pay, PRInv, PRTypeOK, Games
      <3> QED BY <3>1 DEF Games
    <2> QED BY <1>3, <2>1 DEF Pay, PRInv, PRTypeOK, PoolBalances, ReversibleIsUndone
  <1>4. CASE UNCHANGED PRvars
    <2>1. /\ PRTypeOK' = PRTypeOK /\ Chained' = Chained /\ PoolBalances' = PoolBalances
          /\ ReversibleIsUndone' = ReversibleIsUndone /\ stage' = stage
      BY <1>4 DEF PRvars, PRTypeOK, Chained, GameAt, PoolBalances, ReversibleIsUndone, Kept,
                  Irreversible, Last, Pinned
    <2> QED BY <2>1 DEF PRInv
  <1> QED BY <1>1, <1>2, <1>3, <1>4 DEF PRNext

\* Undoing a payment leaves every library as it is and keeps the activations that
\* moved or shuffled its cards.
THEOREM UndoLeavesLibraries == PRSpec => LibrariesStand
  <1>1. ASSUME PRInv, [PRNext]_PRvars
        PROVE  [stage' = "undone" => game'.library = game.library /\ (Irreversible \subseteq Kept)']_PRvars
    <2> SUFFICES ASSUME stage' = "undone", PRNext
                 PROVE  game'.library = game.library /\ (Irreversible \subseteq Kept)'
      BY <1>1
    <2>1. UndoManualPaymentMana /\ stage = "window"
      BY DEF PRNext, ActivateManaAbility, Pay, UndoManualPaymentMana
    <2> QED BY <1>1, <2>1, UndoKeepsInv DEF PRInv
  <1> QED BY <1>1, PRInvInit, PRInvStep, PTL DEF PRSpec, LibrariesStand

\* Nobody gains or owes mana by a payment that is undone.
THEOREM UndoBalances == PRSpec => []PoolBalances
  <1>1. PRInv => PoolBalances
    BY DEF PRInv
  <1> QED BY <1>1, PRInvInit, PRInvStep, PTL DEF PRSpec

\* What may have been spent on what stays is kept, and nothing else that can be
\* reversed.
THEOREM UndoReverses == PRSpec => []ReversibleIsUndone
  <1>1. PRInv => ReversibleIsUndone
    BY DEF PRInv
  <1> QED BY <1>1, PRInvInit, PRInvStep, PTL DEF PRSpec

-----------------------------------------------------------------------------
(* State-based actions.                                                    *)

\* Board x comes after board b by moves, expiry and returns.  A card that did not
\* become a new object is where it was and as it was; one that did was not gone,
\* has its owner for a base controller and, where that is public and it is a
\* commander, is in the log.  What a record that is no longer there held was moved.
Follows(b, x) ==
  /\ \A c \in Card :
       /\ b.version[c] <= x.version[c]
       /\ x.version[c] = b.version[c] => x.zone[c] = b.zone[c] /\ x.base[c] = b.base[c]
       /\ x.version[c] # b.version[c] =>
            /\ x.base[c] = Owner[c]
            /\ b.zone[c] # "gone"
            /\ c \in Commander /\ x.zone[c] \in Public => Now(x, c) \in x.arrivals
  /\ b.arrivals \subseteq x.arrivals
  /\ \A o \in x.arrivals \ b.arrivals : o.version > b.version[o.card]
  /\ x.grants \subseteq b.grants
  /\ x.exiles \subseteq b.exiles
  /\ \A r \in b.exiles \ x.exiles : \A h \in r.held :
       h.version <= b.version[h.card] => ~(Same(x, h) /\ x.zone[h.card] = "exile")

\* Nothing has come to the battlefield, nor into sight, and no exile has ended.
Clears(b, x) ==
  /\ \A c \in Card : x.zone[c] = "battlefield" => x.version[c] = b.version[c]
  /\ Around(x) \subseteq Around(b)
  /\ x.exiles = b.exiles

\* There is less to do on x than on b.
Reduces(b, x) == x.grants # b.grants \/ Field(x) # Field(b) \/ Around(x) # Around(b)

\* Nothing is of the departed.
Free(b, departed) ==
  \A c \in Card :
    /\ Owner[c] \in departed => b.zone[c] = "gone"
    /\ c \in Field(b) => Controller(b, c) \notin departed

LEMMA Boards ==
  ASSUME NEW b \in Board
  PROVE  /\ b.zone \in [Card -> Zones] /\ b.version \in [Card -> Nat] /\ b.base \in [Card -> Player]
         /\ b.grants \in SUBSET Grant /\ b.exiles \in SUBSET UntilSourceLeaves
         /\ b.arrivals \in SUBSET Object /\ b.dying \in SUBSET Card
         /\ \A g \in SUBSET Grant : [b EXCEPT !.grants = g] \in Board
  <1> HIDE DEF Zones, Grant, UntilSourceLeaves, Object
  <1> QED BY DEF Board

LEMMA FollowsReflexive == ASSUME NEW b \in Board PROVE Follows(b, b) /\ Clears(b, b)
  <1> HIDE DEF Zones, Grant, UntilSourceLeaves, Object
  <1> QED BY Boards DEF Follows, Clears

LEMMA FollowsTransitive ==
  ASSUME NEW b \in Board, NEW x \in Board, NEW y \in Board, Follows(b, x), Follows(x, y)
  PROVE  Follows(b, y) /\ (Clears(b, x) /\ Clears(x, y) => Clears(b, y))
  <1> HIDE DEF Zones, Public
  <1>1. ASSUME NEW c \in Card
        PROVE  b.version[c] \in Nat /\ x.version[c] \in Nat /\ y.version[c] \in Nat
    BY Boards
  <1>2. ASSUME NEW c \in Card
        PROVE  /\ b.version[c] <= y.version[c]
               /\ y.version[c] = b.version[c] =>
                    /\ x.version[c] = b.version[c]
                    /\ y.zone[c] = b.zone[c] /\ y.base[c] = b.base[c]
    BY <1>1 DEF Follows
  <1>3. ASSUME NEW c \in Card, y.version[c] # b.version[c]
        PROVE  /\ y.base[c] = Owner[c]
               /\ b.zone[c] # "gone"
               /\ c \in Commander /\ y.zone[c] \in Public => Now(y, c) \in y.arrivals
    <2>1. CASE y.version[c] = x.version[c]
      BY <1>1, <1>3, <2>1 DEF Follows, Now
    <2>2. CASE y.version[c] # x.version[c]
      BY <1>1, <1>3, <2>2 DEF Follows, Now
    <2> QED BY <2>1, <2>2
  <1>4. b.arrivals \subseteq y.arrivals /\ \A o \in y.arrivals \ b.arrivals : o.version > b.version[o.card]
    <2> SUFFICES ASSUME NEW o \in y.arrivals \ b.arrivals PROVE o.version > b.version[o.card]
      BY DEF Follows
    <2>1. o.card \in Card /\ o.version \in Nat
      BY Boards DEF Object
    <2>2. CASE o \in x.arrivals
      BY <2>2 DEF Follows
    <2>3. CASE o \notin x.arrivals
      BY <1>1, <2>1, <2>3 DEF Follows
    <2> QED BY <2>2, <2>3
  <1>5. ASSUME NEW r \in b.exiles \ y.exiles, NEW h \in r.held, h.version <= b.version[h.card]
        PROVE  ~(Same(y, h) /\ y.zone[h.card] = "exile")
    <2>1. h.card \in Card /\ h.version \in Nat
      BY Boards DEF UntilSourceLeaves, Object
    <2>2. Same(y, h) => Same(x, h) /\ x.zone[h.card] = y.zone[h.card] /\ Same(b, h)
      BY <1>1, <1>2, <1>5, <2>1 DEF Same, Follows
    <2>3. CASE r \in x.exiles
      BY <1>1, <1>5, <2>1, <2>3 DEF Follows
    <2>4. CASE r \notin x.exiles
      BY <1>5, <2>2, <2>4 DEF Follows
    <2> QED BY <2>3, <2>4
  <1>6. y.grants \subseteq b.grants /\ y.exiles \subseteq b.exiles
    BY DEF Follows
  <1>7. Follows(b, y)
    BY <1>2, <1>3, <1>4, <1>5, <1>6 DEF Follows
  <1>8. Clears(b, x) /\ Clears(x, y) => Clears(b, y)
    BY DEF Clears, Follows
  <1> QED BY <1>7, <1>8

\* Where nothing comes, what there is to do becomes less, on the whole too.
LEMMA ClearsIs ==
  ASSUME NEW b, NEW x, Follows(b, x), Clears(b, x)
  PROVE  x.grants \subseteq b.grants /\ Field(x) \subseteq Field(b) /\ Around(x) \subseteq Around(b)
  BY DEF Follows, Clears, Field

LEMMA ReducesOn ==
  ASSUME NEW b, NEW x, NEW y, Follows(b, x), Clears(b, x), Follows(x, y), Clears(x, y),
         Reduces(b, x) \/ Reduces(x, y)
  PROVE  Reduces(b, y)
  <1>1. /\ x.grants \subseteq b.grants /\ Field(x) \subseteq Field(b) /\ Around(x) \subseteq Around(b)
        /\ y.grants \subseteq x.grants /\ Field(y) \subseteq Field(x) /\ Around(y) \subseteq Around(x)
    BY ClearsIs
  <1> QED BY <1>1 DEF Reduces

Sent(b, cards, to, x) ==
  /\ x \in Board
  /\ \A c \in Card :
       /\ x.zone[c] = IF c \in cards THEN to ELSE b.zone[c]
       /\ x.version[c] = IF c \in cards THEN b.version[c] + 1 ELSE b.version[c]
       /\ x.base[c] = IF c \in cards THEN Owner[c] ELSE b.base[c]
  /\ x.grants = b.grants /\ x.exiles = b.exiles /\ x.dying = b.dying \ cards
  /\ x.arrivals = b.arrivals \union
       {[card |-> c, version |-> b.version[c] + 1] :
          c \in {d \in cards \intersect Commander : to \in Public}}

LEMMA SendIs ==
  ASSUME NEW b \in Board, NEW cards \in SUBSET Card, NEW to \in Zones
  PROVE  Sent(b, cards, to, Send(b, cards, to))
  <1> DEFINE zone == [c \in Card |-> IF c \in cards THEN to ELSE b.zone[c]]
             version == [c \in Card |-> IF c \in cards THEN b.version[c] + 1 ELSE b.version[c]]
             base == [c \in Card |-> IF c \in cards THEN Owner[c] ELSE b.base[c]]
             arrivals == b.arrivals \union
                  {[card |-> c, version |-> b.version[c] + 1] :
                     c \in {d \in cards \intersect Commander : to \in Public}}
  <1>1. zone \in [Card -> Zones] /\ version \in [Card -> Nat] /\ base \in [Card -> Player]
    <2> HIDE DEF Zones
    <2> QED BY Boards, StateBasedActionsAssumption
  <1>2. arrivals \in SUBSET Object
    <2> HIDE DEF Zones
    <2>1. \A c \in Card : b.version[c] + 1 \in Nat
      BY Boards
    <2> QED BY <2>1, Boards DEF Object
  <1>3. Send(b, cards, to) = [b EXCEPT !.zone = zone, !.version = version, !.base = base,
                                       !.dying = b.dying \ cards, !.arrivals = arrivals]
    BY DEF Send, Board
  <1>4. \A c \in Card :
          /\ zone[c] = IF c \in cards THEN to ELSE b.zone[c]
          /\ version[c] = IF c \in cards THEN b.version[c] + 1 ELSE b.version[c]
          /\ base[c] = IF c \in cards THEN Owner[c] ELSE b.base[c]
    OBVIOUS
  <1>5. arrivals = b.arrivals \union
                  {[card |-> c, version |-> b.version[c] + 1] :
                     c \in {d \in cards \intersect Commander : to \in Public}}
    OBVIOUS
  <1>6. b.dying \ cards \in SUBSET Card
    BY Boards
  <1> HIDE DEF zone, version, base, arrivals, Zones, Object, Grant, UntilSourceLeaves
  <1> DEFINE x == [b EXCEPT !.zone = zone, !.version = version, !.base = base,
                            !.dying = b.dying \ cards, !.arrivals = arrivals]
  <1>7. x \in Board
    BY <1>1, <1>2, <1>6 DEF Board
  <1>8. /\ x.zone = zone /\ x.version = version /\ x.base = base /\ x.grants = b.grants
        /\ x.exiles = b.exiles /\ x.dying = b.dying \ cards /\ x.arrivals = arrivals
    BY DEF Board
  <1> HIDE DEF x
  <1>9. Send(b, cards, to) = x
    BY <1>3 DEF x
  <1> QED BY <1>4, <1>5, <1>7, <1>8, <1>9 DEF Sent

\* A part of a finite set has fewer elements.
LEMMA Fewer ==
  ASSUME NEW S, IsFiniteSet(S), NEW T, T \subseteq S
  PROVE  /\ IsFiniteSet(T) /\ Cardinality(T) \in Nat /\ Cardinality(S) \in Nat
         /\ Cardinality(T) <= Cardinality(S)
         /\ T # S => Cardinality(T) < Cardinality(S)
  <1>1. T \in SUBSET S
    OBVIOUS
  <1>2. IsFiniteSet(T) /\ Cardinality(T) <= Cardinality(S) /\ (Cardinality(S) = Cardinality(T) => S = T)
    BY <1>1, FS_Subset
  <1>3. Cardinality(T) \in Nat /\ Cardinality(S) \in Nat
    BY <1>2, FS_CardinalityType
  <1> QED BY <1>2, <1>3

\* Of finitely many grants one is the latest.
LEMMA Newest ==
  ASSUME NEW G, IsFiniteSet(G), G # {}, \A g \in G : g.made \in Nat
  PROVE  \E g \in G : \A h \in G : h.made <= g.made
  <1> DEFINE n == Cardinality(G)
             older(g) == {h \in G : h.made < g.made}
             S == {k \in 0..n : \E g \in G : Cardinality(older(g)) >= k}
  <1>1. n \in Nat /\ \A g \in G : Cardinality(older(g)) \in Nat
    <2>1. ASSUME NEW g \in G PROVE Cardinality(older(g)) \in Nat
      <3>1. older(g) \subseteq G
        OBVIOUS
      <3> QED BY <3>1, Fewer
    <2> QED BY <2>1, FS_CardinalityType
  <1>2. 0 \in S
    BY <1>1
  <1> SUFFICES ASSUME \A g \in G : \E h \in G : g.made < h.made PROVE FALSE
    OBVIOUS
  <1>3. ASSUME NEW k \in 1..n, k - 1 \in S PROVE k \in S
    <2>1. PICK g \in G : Cardinality(older(g)) >= k - 1
      BY <1>3
    <2>2. PICK h \in G : g.made < h.made
      OBVIOUS
    <2>3. older(g) \union {g} \subseteq older(h) /\ g \notin older(g)
      BY <2>2
    <2>4. Cardinality(older(g)) < Cardinality(older(h))
      <3>1. IsFiniteSet(older(h))
        <4>1. older(h) \subseteq G
          OBVIOUS
        <4> QED BY <4>1, Fewer
      <3>2. older(g) \subseteq older(h) /\ older(g) # older(h)
        BY <2>3
      <3> HIDE DEF older
      <3> QED BY <3>1, <3>2, Fewer
    <2>5. Cardinality(older(g)) \in Nat /\ Cardinality(older(h)) \in Nat
      BY <1>1
    <2>6. Cardinality(older(h)) >= k
      <3> HIDE DEF older
      <3> QED BY <2>1, <2>4, <2>5
    <2>7. k \in 0..n
      BY <1>1
    <2> HIDE DEF older, n
    <2> QED BY <2>6, <2>7
  <1>4. n \in S
    <2> HIDE DEF S
    <2> QED BY <1>1, <1>2, <1>3, UpTo
  <1>5. PICK g \in G : Cardinality(older(g)) >= n
    BY <1>4
  <1>6. older(g) \subseteq G /\ older(g) # G
    BY <1>5
  <1>7. Cardinality(older(g)) < n
    <2> HIDE DEF older
    <2> QED BY <1>6, Fewer
  <1> QED BY <1>1, <1>5, <1>7

\* What controls a card: its own controller, or a grant on the object it is.
LEMMA ControllerIs ==
  ASSUME NEW b \in Board, NEW seen \in SUBSET b.grants, IsFiniteSet(b.grants), NEW c \in Card
  PROVE  /\ (\A g \in seen : g.on # Now(b, c)) => ControllerBy(b, seen, c) = b.base[c]
         /\ \/ ControllerBy(b, seen, c) = b.base[c]
            \/ \E g \in seen : ControllerBy(b, seen, c) = g.to
         /\ ControllerBy(b, seen, c) \in Player
  <1> DEFINE over == {g \in seen : g.on = Now(b, c)}
  <1>1. CASE over = {}
    BY <1>1, Boards DEF ControllerBy
  <1>2. CASE over # {}
    <2>1. IsFiniteSet(over)
      <3>1. over \in SUBSET b.grants
        OBVIOUS
      <3> QED BY <3>1, FS_Subset
    <2>2. \A g \in over : g.made \in Nat /\ g.to \in Player
      BY Boards DEF Grant
    <2>3. \E g \in over : \A h \in over : h.made <= g.made
      BY <1>2, <2>1, <2>2, Newest
    <2>4. ControllerBy(b, seen, c) = (CHOOSE g \in over : \A h \in over : h.made <= g.made).to
      BY <1>2 DEF ControllerBy
    <2>5. PICK g \in over : ControllerBy(b, seen, c) = g.to
      BY <2>3, <2>4
    <2> QED BY <1>2, <2>2, <2>5
  <1> QED BY <1>1, <1>2

\* A move makes new objects of the cards, without a grant on them; the others
\* stay under whom they are.
LEMMA SendKeeps ==
  ASSUME NEW b \in Board, Sound(b), NEW cards \in SUBSET Card, NEW to \in Zones,
         \A c \in cards : b.zone[c] # "gone"
  PROVE  LET x == Send(b, cards, to)
         IN  /\ x \in Board /\ Sound(x) /\ Follows(b, x)
             /\ to # "battlefield" /\ (to \in Public => cards \subseteq Around(b)) => Clears(b, x)
             /\ \A c \in Card : Controller(x, c) = IF c \in cards THEN Owner[c] ELSE Controller(b, c)
             /\ cards = {} => x = b
  <1> DEFINE x == Send(b, cards, to)
  <1>1. /\ x \in Board
        /\ \A c \in Card :
             /\ x.zone[c] = IF c \in cards THEN to ELSE b.zone[c]
             /\ x.version[c] = IF c \in cards THEN b.version[c] + 1 ELSE b.version[c]
             /\ x.base[c] = IF c \in cards THEN Owner[c] ELSE b.base[c]
        /\ x.grants = b.grants /\ x.exiles = b.exiles /\ x.dying = b.dying \ cards
        /\ x.arrivals = b.arrivals \union
             {[card |-> c, version |-> b.version[c] + 1] :
                c \in {d \in cards \intersect Commander : to \in Public}}
    <2>1. Sent(b, cards, to, x)
      BY SendIs
    <2> HIDE DEF x
    <2> QED BY <2>1 DEF Sent
  <1> HIDE DEF x
  <1>2. \A c \in Card : b.version[c] \in Nat /\ x.version[c] \in Nat
    BY <1>1, Boards
  <1>3. Sound(x)
    <2>1. \A g \in x.grants : g.on.version <= x.version[g.on.card]
      <3> SUFFICES ASSUME NEW g \in x.grants PROVE g.on.version <= x.version[g.on.card]
        OBVIOUS
      <3>1. g.on.card \in Card /\ g.on.version \in Nat /\ g.on.version <= b.version[g.on.card]
        BY <1>1, Boards DEF Sound, Grant, Object
      <3> QED BY <1>1, <1>2, <3>1
    <2>2. x.dying \subseteq Field(x)
      BY <1>1, Boards DEF Sound, Field
    <2>3. ASSUME NEW o \in x.arrivals
          PROVE  /\ o.card \in Commander
                 /\ o.version <= x.version[o.card]
                 /\ Same(x, o) => x.zone[o.card] \in Public
      <3>1. o.card \in Card /\ o.version \in Nat
        BY <1>1, Boards DEF Object
      <3>2. CASE o \in b.arrivals
        <4>1. /\ o.card \in Commander
              /\ o.version <= b.version[o.card]
              /\ b.version[o.card] = o.version => b.zone[o.card] \in Public
          BY <3>2 DEF Sound, Same
        <4> QED BY <1>1, <1>2, <3>1, <4>1 DEF Same
      <3>3. CASE o \notin b.arrivals
        <4>1. PICK c \in cards \intersect Commander :
                to \in Public /\ o = [card |-> c, version |-> b.version[c] + 1]
          BY <1>1, <3>3
        <4>2. o.card = c /\ o.version = b.version[c] + 1
          BY <4>1
        <4>3. x.version[c] = b.version[c] + 1 /\ x.zone[c] = to
          BY <1>1, <4>1
        <4> QED BY <1>2, <4>1, <4>2, <4>3
      <3> QED BY <3>2, <3>3
    <2> QED BY <1>1, <2>1, <2>2, <2>3 DEF Sound
  <1>4. Follows(b, x)
    <2>1. ASSUME NEW c \in Card
          PROVE  /\ b.version[c] <= x.version[c]
                 /\ x.version[c] = b.version[c] => c \notin cards
                 /\ x.version[c] # b.version[c] => c \in cards
      BY <1>1, <1>2
    <2>2. ASSUME NEW c \in cards, c \in Commander, to \in Public PROVE Now(x, c) \in x.arrivals
      BY <1>1, <2>2 DEF Now
    <2>3. ASSUME NEW o \in x.arrivals \ b.arrivals PROVE o.version > b.version[o.card]
      <3>1. PICK c \in cards \intersect Commander : o = [card |-> c, version |-> b.version[c] + 1]
        BY <1>1, <2>3
      <3> QED BY <1>2, <3>1
    <2> HIDE DEF Public
    <2> QED BY <1>1, <2>1, <2>2, <2>3 DEF Follows
  <1>5. to # "battlefield" /\ (to \in Public => cards \subseteq Around(b)) => Clears(b, x)
    BY <1>1 DEF Clears, Around
  <1>6. ASSUME NEW c \in Card
        PROVE  Controller(x, c) = IF c \in cards THEN Owner[c] ELSE Controller(b, c)
    <2>1. CASE c \notin cards
      <3>1. Now(x, c) = Now(b, c) /\ x.base[c] = b.base[c] /\ x.grants = b.grants
        BY <1>1, <2>1 DEF Now
      <3> QED BY <2>1, <3>1 DEF Controller, ControllerBy
    <2>2. CASE c \in cards
      <3>1. ASSUME NEW g \in x.grants PROVE g.on # Now(x, c)
        <4>1. g.on.card \in Card /\ g.on.version <= b.version[g.on.card] /\ g.on.version \in Nat
          BY <1>1, Boards DEF Sound, Grant, Object
        <4>2. x.version[c] = b.version[c] + 1 /\ b.version[c] \in Nat
          BY <1>1, <1>2, <2>2
        <4> QED BY <4>1, <4>2 DEF Now
      <3>2. IsFiniteSet(x.grants)
        BY <1>3 DEF Sound
      <3> QED BY <1>1, <2>2, <3>1, <3>2, ControllerIs DEF Controller
    <2> QED BY <2>1, <2>2
  <1>7. cards = {} => x = b
    <2> SUFFICES ASSUME cards = {} PROVE x = b
      OBVIOUS
    <2>1. x.zone = b.zone /\ x.version = b.version /\ x.base = b.base
      <3> HIDE DEF Zones
      <3> QED BY <1>1, Boards
    <2>2. x.arrivals = b.arrivals /\ x.dying = b.dying
      BY <1>1
    <2> HIDE DEF Zones, Object, Grant, UntilSourceLeaves
    <2> QED BY <1>1, <2>1, <2>2 DEF Board
  <1> QED BY <1>1, <1>3, <1>4, <1>5, <1>6, <1>7 DEF x

\* kept is what Filtered computes step by step.
FiltersStepByStep(kept, b) ==
  kept = [i \in 0..Cardinality(b.grants) |-> IF i = 0 THEN {} ELSE KeptAfter(b, i, kept[i - 1])]

LEMMA FilteredIsComputed ==
  ASSUME NEW b \in Board, IsFiniteSet(b.grants)
  PROVE  \E kept \in [0..Cardinality(b.grants) -> SUBSET b.grants] :
           /\ kept[0] = {}
           /\ \A i \in 1..Cardinality(b.grants) : kept[i] = KeptAfter(b, i, kept[i - 1])
           /\ Filtered(b) = [b EXCEPT !.grants = kept[Cardinality(b.grants)]]
  <1> DEFINE n == Cardinality(b.grants)
             X == SUBSET b.grants
             F == [x \in (1..n) \X X |-> KeptAfter(b, x[1], x[2])]
  <1>1. n \in Nat
    BY FS_CardinalityType
  <1>2. \A i, K : K \in X => KeptAfter(b, i, K) \in X
    BY DEF KeptAfter
  <1>3. {} \in X
    OBVIOUS
  <1> HIDE DEF n, X
  <1>4. F \in [(1..n) \X X -> X]
    BY <1>2
  <1>5. \A i \in 1..n, K \in X : F[<<i, K>>] = KeptAfter(b, i, K)
    OBVIOUS
  <1> HIDE DEF F
  <1>6. PICK f \in [0..n -> X] : f[0] = {} /\ \A i \in 1..n : f[i] = F[<<i, f[i - 1]>>]
    <2>1. Computed(n, X, {}, F)
      BY <1>1, <1>3, <1>4, StepByStep
    <2> QED BY <2>1 DEF Computed
  <1>7. \A i \in 1..n : f[i] = KeptAfter(b, i, f[i - 1])
    <2> SUFFICES ASSUME NEW i \in 1..n PROVE f[i] = KeptAfter(b, i, f[i - 1])
      OBVIOUS
    <2>1. f[i - 1] \in X
      BY <1>1, <1>6
    <2> QED BY <1>5, <1>6, <2>1
  <1>8. FiltersStepByStep(f, b)
    <2>1. \A i \in 0..n : f[i] = IF i = 0 THEN {} ELSE KeptAfter(b, i, f[i - 1])
      <3>1. \A i \in 0..n : i = 0 \/ i \in 1..n
        BY <1>1
      <3> QED BY <1>6, <1>7, <3>1
    <2>2. f = [i \in 0..n |-> f[i]]
      BY <1>6
    <2>3. f = [i \in 0..n |-> IF i = 0 THEN {} ELSE KeptAfter(b, i, f[i - 1])]
      BY <2>1, <2>2
    <2> QED BY <2>3 DEF FiltersStepByStep, n
  <1> DEFINE kept == CHOOSE k : FiltersStepByStep(k, b)
  <1>9. FiltersStepByStep(kept, b)
    BY <1>8
  <1>10. Filtered(b) = [b EXCEPT !.grants = kept[n]]
    BY DEF Filtered, FiltersStepByStep, n
  <1> HIDE DEF kept
  <1>11. DOMAIN kept = 0..n /\ kept[0] = {} /\ \A i \in 1..n : kept[i] = KeptAfter(b, i, kept[i - 1])
    <2>1. kept = [i \in 0..n |-> IF i = 0 THEN {} ELSE KeptAfter(b, i, kept[i - 1])]
      BY <1>9 DEF FiltersStepByStep, n
    <2>2. DOMAIN kept = 0..n /\ \A i \in 0..n : kept[i] = IF i = 0 THEN {} ELSE KeptAfter(b, i, kept[i - 1])
      BY <2>1
    <2>3. 0 \in 0..n /\ \A i \in 1..n : i \in 0..n /\ i # 0
      BY <1>1
    <2> QED BY <2>2, <2>3
  <1>12. kept \in [0..n -> X]
    <2> DEFINE S == {i \in 0..n : kept[i] \in X}
    <2>1. 0 \in S
      <3>1. kept[0] \in X
        BY <1>3, <1>11
      <3> QED BY <1>1, <3>1
    <2>2. ASSUME NEW i \in 1..n, i - 1 \in S PROVE i \in S
      BY <1>1, <1>2, <1>11, <2>2
    <2>3. 0..n \subseteq S
      <3> HIDE DEF S
      <3> QED BY <1>1, <2>1, <2>2, UpTo
    <2>4. kept = [i \in 0..n |-> kept[i]]
      BY <1>9, <1>11 DEF FiltersStepByStep, n
    <2> QED BY <2>3, <2>4
  <1> QED BY <1>10, <1>11, <1>12 DEF n, X

\* The places of grants.
LEMMA Places ==
  ASSUME NEW b \in Board, IsFiniteSet(b.grants)
  PROVE  /\ Cardinality(b.grants) \in Nat
         /\ \A g \in b.grants : Position(b.grants, g) \in 1..Cardinality(b.grants)
         /\ \A g, h \in b.grants :
              Position(b.grants, g) < Position(b.grants, h) => g.made < h.made
         /\ \A h \in b.grants : \A K :
              K \subseteq b.grants /\ (\A g \in K : Position(b.grants, g) < Position(b.grants, h)) =>
                Cardinality(K) < Position(b.grants, h)
  <1> DEFINE G == b.grants
             upto(g) == {h \in G : h.made <= g.made}
  <1>1. \A g \in G : g.made \in Nat
    BY Boards DEF Grant
  <1>2. Cardinality(G) \in Nat
    BY FS_CardinalityType
  <1>3. \A g \in G : upto(g) \subseteq G /\ g \in upto(g)
    BY <1>1
  <1>4. \A g \in G : IsFiniteSet(upto(g)) /\ Position(G, g) = Cardinality(upto(g))
    <2>1. \A g \in G : IsFiniteSet(upto(g))
      <3> HIDE DEF upto, G
      <3> QED BY <1>3, Fewer DEF G
    <2> QED BY <2>1 DEF Position
  <1>5. \A g, h \in G : g.made <= h.made => upto(g) \subseteq upto(h)
    BY <1>1
  <1>6. \A h \in G, K \in SUBSET G : (\A g \in K : g.made < h.made) => K \subseteq upto(h) /\ h \notin K
    BY <1>1
  <1> HIDE DEF upto, G
  <1>7. ASSUME NEW g \in G PROVE Position(G, g) \in 1..Cardinality(G)
    <2>1. Position(G, g) \in Nat /\ Position(G, g) <= Cardinality(G)
      BY <1>3, <1>4, Fewer DEF G
    <2>2. Position(G, g) # 0
      BY <1>3, <1>4, FS_EmptySet
    <2> QED BY <1>2, <2>1, <2>2
  <1>8. ASSUME NEW g \in G, NEW h \in G, Position(G, g) < Position(G, h) PROVE g.made < h.made
    <2>1. CASE h.made <= g.made
      <3>1. Position(G, h) <= Position(G, g)
        BY <1>4, <1>5, <2>1, Fewer
      <3> QED BY <1>2, <1>7, <1>8, <3>1
    <2> QED BY <1>1, <2>1
  <1>9. ASSUME NEW h \in G, NEW K \in SUBSET G, \A g \in K : Position(G, g) < Position(G, h)
        PROVE  Cardinality(K) < Position(G, h)
    <2>1. K \subseteq upto(h) /\ h \notin K /\ h \in upto(h)
      BY <1>3, <1>6, <1>8, <1>9
    <2> QED BY <1>4, <2>1, Fewer
  <1> QED BY <1>2, <1>7, <1>8, <1>9 DEF G

\* A filtering drops grants; one that drops none has found that all of them last.
LEMMA FilteredIs ==
  ASSUME NEW b \in Board, IsFiniteSet(b.grants)
  PROVE  /\ Filtered(b) = [b EXCEPT !.grants = Filtered(b).grants]
         /\ Filtered(b).grants \subseteq b.grants
         /\ Filtered(b).grants = b.grants => \A g \in b.grants : Lasts(b, b.grants, g)
  <1> DEFINE n == Cardinality(b.grants)
             at(g) == Position(b.grants, g)
  <1>1. PICK kept \in [0..n -> SUBSET b.grants] :
          /\ kept[0] = {}
          /\ \A i \in 1..n : kept[i] = KeptAfter(b, i, kept[i - 1])
          /\ Filtered(b) = [b EXCEPT !.grants = kept[n]]
    BY FilteredIsComputed
  <1>2. n \in Nat /\ \A g \in b.grants : at(g) \in 1..n
    BY Places
  <1>3. /\ Filtered(b).grants = kept[n]
        /\ Filtered(b) = [b EXCEPT !.grants = Filtered(b).grants]
        /\ kept[n] \subseteq b.grants
    <2>1. Filtered(b).grants = kept[n]
      BY <1>1 DEF Board
    <2> QED BY <1>1, <1>2, <2>1
  <1>4. \A i \in 1..n :
          /\ kept[i - 1] \subseteq b.grants
          /\ \A g \in kept[i] :
               \/ g \in kept[i - 1]
               \/ /\ at(g) = i
                  /\ Lasts(b, kept[i - 1] \union {h \in b.grants : at(h) > Cardinality(kept[i - 1])}, g)
    <2> SUFFICES ASSUME NEW i \in 1..n, NEW g \in kept[i]
                 PROVE  /\ kept[i - 1] \subseteq b.grants
                        /\ \/ g \in kept[i - 1]
                           \/ /\ at(g) = i
                              /\ Lasts(b, kept[i - 1] \union {h \in b.grants : at(h) > Cardinality(kept[i - 1])}, g)
      BY <1>1, <1>2
    <2>1. i - 1 \in 0..n /\ kept[i] = KeptAfter(b, i, kept[i - 1])
      BY <1>1, <1>2
    <2>2. kept[i - 1] \subseteq b.grants
      BY <1>1, <2>1
    <2> QED BY <2>1, <2>2 DEF KeptAfter
  <1> HIDE DEF n, at
  <1>5. \A i \in 0..n : \A g \in kept[i] : at(g) <= i
    <2> DEFINE S == {i \in 0..n : \A g \in kept[i] : at(g) <= i}
    <2>1. 0 \in S
      BY <1>1, <1>2
    <2>2. ASSUME NEW i \in 1..n, i - 1 \in S PROVE i \in S
      <3>1. ASSUME NEW g \in kept[i] PROVE at(g) <= i
        <4>1. CASE g \in kept[i - 1]
          <5>1. at(g) <= i - 1 /\ g \in b.grants
            BY <1>4, <2>2, <4>1
          <5> QED BY <1>2, <5>1
        <4>2. CASE g \notin kept[i - 1]
          <5>1. at(g) = i
            BY <1>4, <4>2
          <5> QED BY <1>2, <5>1
        <4> QED BY <4>1, <4>2
      <3> QED BY <1>2, <3>1
    <2>3. 0..n \subseteq S
      <3> HIDE DEF S
      <3> QED BY <1>2, <2>1, <2>2, UpTo
    <2> QED BY <2>3
  <1>6. \A i \in 0..n : \A g \in kept[n] : at(g) <= i => g \in kept[i]
    <2> DEFINE S == {m \in 0..n : \A g \in kept[n] : at(g) <= n - m => g \in kept[n - m]}
    <2>1. 0 \in S
      BY <1>2
    <2>2. ASSUME NEW m \in 1..n, m - 1 \in S PROVE m \in S
      <3>1. n - m + 1 \in 1..n /\ n - (m - 1) = n - m + 1 /\ (n - m + 1) - 1 = n - m
        BY <1>2
      <3>2. ASSUME NEW g \in kept[n], at(g) <= n - m PROVE g \in kept[n - m]
        <4>1. at(g) \in Nat /\ at(g) <= n - m + 1 /\ at(g) # n - m + 1
          BY <1>2, <1>3, <3>2
        <4>2. g \in kept[n - m + 1]
          BY <2>2, <3>1, <4>1
        <4> QED BY <1>4, <3>1, <4>1, <4>2
      <3> QED BY <3>2
    <2>3. 0..n \subseteq S
      <3> HIDE DEF S
      <3> QED BY <1>2, <2>1, <2>2, UpTo
    <2>4. \A i \in 0..n : n - i \in 0..n /\ n - (n - i) = i
      BY <1>2
    <2> QED BY <2>3, <2>4
  <1>7. ASSUME kept[n] = b.grants, NEW g \in b.grants PROVE Lasts(b, b.grants, g)
    <2> DEFINE i == at(g)
               seen == kept[i - 1] \union {h \in b.grants : at(h) > Cardinality(kept[i - 1])}
    <2>1. i \in 1..n /\ i - 1 \in 0..n /\ i \in 0..n
      BY <1>2
    <2>2. g \in kept[i] /\ g \notin kept[i - 1]
      <3> HIDE DEF i
      <3>1. i = at(g) /\ at(g) <= i
        BY <2>1 DEF i
      <3> QED BY <1>5, <1>6, <1>7, <2>1, <3>1
    <2>3. Lasts(b, seen, g)
      BY <1>4, <2>1, <2>2
    <2>4. ASSUME NEW h \in b.grants PROVE h \in seen
      <3>1. CASE at(h) <= i - 1
        BY <1>6, <1>7, <2>1, <3>1
      <3>2. CASE ~(at(h) <= i - 1)
        <4>1. \A k \in kept[i - 1] : at(k) < at(h)
          <5>1. \A k \in kept[i - 1] : k \in b.grants /\ at(k) <= i - 1
            BY <1>4, <1>5, <2>1
          <5> QED BY <1>2, <2>1, <3>2, <5>1
        <4>2. kept[i - 1] \subseteq b.grants
          BY <1>4, <2>1
        <4> HIDE DEF i
        <4>3. Cardinality(kept[i - 1]) < at(h)
          BY <4>1, <4>2, Places DEF at
        <4> QED BY <1>2, <4>2, <4>3, Fewer
      <3> QED BY <3>1, <3>2
    <2>5. seen \subseteq b.grants
      BY <1>4, <2>1
    <2> HIDE DEF seen
    <2>6. seen = b.grants
      BY <2>4, <2>5
    <2> QED BY <2>3, <2>6
  <1> QED BY <1>3, <1>7

\* The grants and the permanents there are.
Weight(b) == Cardinality(b.grants) + Cardinality(Field(b))

LEMMA WeightIs ==
  ASSUME NEW b \in Board, Sound(b)
  PROVE  /\ IsFiniteSet(b.grants) /\ IsFiniteSet(Field(b))
         /\ Cardinality(b.grants) \in Nat /\ Cardinality(Field(b)) \in Nat /\ Weight(b) \in Nat
         /\ Weight(b) = 0 => b.grants = {} /\ Field(b) = {}
  <1>1. IsFiniteSet(b.grants)
    BY DEF Sound
  <1>2. IsFiniteSet(Field(b))
    <2>1. Field(b) \subseteq Card
      BY DEF Field
    <2> QED BY <2>1, StateBasedActionsAssumption, Fewer
  <1>3. Cardinality(b.grants) \in Nat /\ Cardinality(Field(b)) \in Nat
    BY <1>1, <1>2, FS_CardinalityType
  <1>4. Cardinality(b.grants) = 0 <=> b.grants = {}
    BY <1>1, FS_EmptySet
  <1>5. Cardinality(Field(b)) = 0 <=> Field(b) = {}
    BY <1>2, FS_EmptySet
  <1> QED BY <1>1, <1>2, <1>3, <1>4, <1>5 DEF Weight

\* A step of a settlement changes nothing, or there is less.
LEMMA SettleKeeps ==
  ASSUME NEW b \in Board, Sound(b), NEW departed \in SUBSET Player
  PROVE  LET x == Settle(b, departed)
         IN  /\ x \in Board /\ Sound(x) /\ Follows(b, x) /\ Clears(b, x)
             /\ x = b <=> Filtered(b) = b /\ Orphans(b, departed) = {}
             /\ x = b \/ Weight(x) < Weight(b)
  <1> DEFINE f == Filtered(b)
  <1>1. /\ IsFiniteSet(b.grants) /\ IsFiniteSet(Field(b))
        /\ Cardinality(b.grants) \in Nat /\ Cardinality(Field(b)) \in Nat
    BY WeightIs
  <1>2. CASE f # b
    <2>1. Settle(b, departed) = f
      BY <1>2 DEF Settle
    <2>2. f = [b EXCEPT !.grants = f.grants] /\ f.grants \subseteq b.grants
      BY <1>1, FilteredIs
    <2> HIDE DEF f
    <2>3. f.grants \in SUBSET Grant
      BY <2>2, Boards
    <2>4. /\ f \in Board
          /\ f.zone = b.zone /\ f.version = b.version /\ f.base = b.base /\ f.exiles = b.exiles
          /\ f.arrivals = b.arrivals /\ f.dying = b.dying
      <3>1. [b EXCEPT !.grants = f.grants] \in Board
        BY <2>3, Boards
      <3> QED BY <2>2, <3>1 DEF Board
    <2>5. f.grants # b.grants
      <3> SUFFICES ASSUME f.grants = b.grants PROVE FALSE
        OBVIOUS
      <3>1. [b EXCEPT !.grants = b.grants] = b
        BY DEF Board
      <3> QED BY <1>2, <2>2, <3>1
    <2>6. IsFiniteSet(f.grants) /\ Cardinality(f.grants) \in Nat /\ Cardinality(f.grants) < Cardinality(b.grants)
      BY <1>1, <2>2, <2>5, Fewer
    <2>7. Field(f) = Field(b) /\ Weight(f) < Weight(b)
      <3>1. Field(f) = Field(b)
        BY <2>4 DEF Field
      <3> QED BY <1>1, <2>6, <3>1 DEF Weight
    <2>8. Sound(f)
      BY <2>2, <2>4, <2>6, <2>7 DEF Sound, Same
    <2>9. Follows(b, f) /\ Clears(b, f)
      <3>1. \A c \in Card : b.version[c] \in Nat
        BY Boards
      <3> QED BY <2>2, <2>4, <3>1 DEF Follows, Clears, Around
    <2>10. Filtered(b) # b
      BY <1>2 DEF f
    <2> QED BY <2>1, <2>4, <2>5, <2>7, <2>8, <2>9, <2>10
  <1>3. CASE f = b
    <2> DEFINE left == Orphans(b, departed)
               x == Send(b, left, "exile")
    <2>1. Settle(b, departed) = x /\ Filtered(b) = b
      BY <1>3 DEF Settle
    <2>2. left \in SUBSET Card /\ left \subseteq Field(b) /\ \A c \in left : b.zone[c] = "battlefield"
      BY DEF Orphans, Field
    <2>3. "exile" \in Zones /\ left \subseteq Around(b)
      BY <2>2 DEF Zones, Public, Around
    <2> HIDE DEF left
    <2>4. /\ x \in Board /\ Sound(x) /\ Follows(b, x) /\ Clears(b, x)
          /\ left = {} => x = b
      BY <2>2, <2>3, SendKeeps
    <2>5. Sent(b, left, "exile", x)
      BY <2>2, <2>3, SendIs
    <2> HIDE DEF x
    <2>6. left # {} => x # b
      <3> SUFFICES ASSUME NEW c \in left PROVE x.version[c] # b.version[c]
        OBVIOUS
      <3>1. b.version[c] \in Nat
        BY <2>2, Boards
      <3> QED BY <2>2, <2>5, <3>1 DEF Sent
    <2>7. left # {} => Weight(x) < Weight(b)
      <3>1. Field(x) = Field(b) \ left
        BY <2>5 DEF Sent, Field
      <3>2. left # {} => Cardinality(Field(x)) < Cardinality(Field(b))
        BY <1>1, <2>2, <3>1, Fewer
      <3>3. Cardinality(Field(x)) \in Nat /\ x.grants = b.grants
        BY <2>4, <2>5, WeightIs DEF Sent
      <3> QED BY <1>1, <3>2, <3>3 DEF Weight
    <2> QED BY <2>1, <2>4, <2>6, <2>7 DEF left
  <1> QED BY <1>2, <1>3

\* after is what Settled computes step by step.
SettlesStepByStep(after, b, departed) ==
  after = [i \in 0..Weight(b) |-> IF i = 0 THEN b ELSE Settle(after[i - 1], departed)]

\* The boards a settlement of b can come by.
Settling(b) ==
  {x \in Board : Sound(x) /\ Follows(b, x) /\ Clears(b, x) /\ (x = b \/ Reduces(b, x))}

LEMMA SettlingStep ==
  ASSUME NEW b \in Board, Sound(b), NEW departed \in SUBSET Player, NEW x \in Settling(b)
  PROVE  Settle(x, departed) \in Settling(b)
  <1> DEFINE y == Settle(x, departed)
  <1>1. x \in Board /\ Sound(x) /\ Follows(b, x) /\ Clears(b, x) /\ (x = b \/ Reduces(b, x))
    BY DEF Settling
  <1>2. /\ y \in Board /\ Sound(y) /\ Follows(x, y) /\ Clears(x, y)
        /\ y = x \/ Weight(y) < Weight(x)
    BY <1>1, SettleKeeps
  <1> HIDE DEF y
  <1>3. Follows(b, y) /\ Clears(b, y)
    BY <1>1, <1>2, FollowsTransitive
  <1>4. y = x \/ Reduces(x, y)
    <2>1. Weight(x) \in Nat
      BY <1>1, WeightIs
    <2> QED BY <1>2, <2>1 DEF Weight, Reduces
  <1>5. y = b \/ Reduces(b, y)
    BY <1>1, <1>2, <1>4, ReducesOn
  <1> QED BY <1>2, <1>3, <1>5 DEF Settling, y

LEMMA SettledIsComputed ==
  ASSUME NEW b \in Board, Sound(b), NEW departed \in SUBSET Player
  PROVE  \E after \in [0..Weight(b) -> Settling(b)] :
           /\ after[0] = b
           /\ \A i \in 1..Weight(b) : after[i] = Settle(after[i - 1], departed)
           /\ Settled(b, departed) = after[Weight(b)]
  <1> DEFINE n == Weight(b)
             X == Settling(b)
             F == [x \in (1..n) \X X |-> Settle(x[2], departed)]
  <1>1. n \in Nat
    BY WeightIs
  <1>2. \A x \in X : Settle(x, departed) \in X
    BY SettlingStep
  <1>3. b \in X
    BY FollowsReflexive DEF Settling
  <1> HIDE DEF n, X
  <1>4. F \in [(1..n) \X X -> X]
    BY <1>2
  <1>5. \A i \in 1..n, x \in X : F[<<i, x>>] = Settle(x, departed)
    OBVIOUS
  <1> HIDE DEF F
  <1>6. PICK f \in [0..n -> X] : f[0] = b /\ \A i \in 1..n : f[i] = F[<<i, f[i - 1]>>]
    <2>1. Computed(n, X, b, F)
      BY <1>1, <1>3, <1>4, StepByStep
    <2> QED BY <2>1 DEF Computed
  <1>7. \A i \in 1..n : f[i] = Settle(f[i - 1], departed)
    <2> SUFFICES ASSUME NEW i \in 1..n PROVE f[i] = Settle(f[i - 1], departed)
      OBVIOUS
    <2>1. f[i - 1] \in X
      BY <1>1, <1>6
    <2> QED BY <1>5, <1>6, <2>1
  <1>8. SettlesStepByStep(f, b, departed)
    <2>1. \A i \in 0..n : f[i] = IF i = 0 THEN b ELSE Settle(f[i - 1], departed)
      <3>1. \A i \in 0..n : i = 0 \/ i \in 1..n
        BY <1>1
      <3> QED BY <1>6, <1>7, <3>1
    <2>2. f = [i \in 0..n |-> f[i]]
      BY <1>6
    <2>3. f = [i \in 0..n |-> IF i = 0 THEN b ELSE Settle(f[i - 1], departed)]
      BY <2>1, <2>2
    <2> QED BY <2>3 DEF SettlesStepByStep, n
  <1> DEFINE after == CHOOSE a : SettlesStepByStep(a, b, departed)
  <1>9. SettlesStepByStep(after, b, departed)
    BY <1>8
  <1>10. Settled(b, departed) = after[n]
    BY DEF Settled, SettlesStepByStep, n, Weight
  <1> HIDE DEF after
  <1>11. DOMAIN after = 0..n /\ after[0] = b /\ \A i \in 1..n : after[i] = Settle(after[i - 1], departed)
    <2>1. after = [i \in 0..n |-> IF i = 0 THEN b ELSE Settle(after[i - 1], departed)]
      BY <1>9 DEF SettlesStepByStep, n
    <2>2. DOMAIN after = 0..n /\ \A i \in 0..n : after[i] = IF i = 0 THEN b ELSE Settle(after[i - 1], departed)
      BY <2>1
    <2>3. 0 \in 0..n /\ \A i \in 1..n : i \in 0..n /\ i # 0
      BY <1>1
    <2> QED BY <2>2, <2>3
  <1>12. after \in [0..n -> X]
    <2> DEFINE S == {i \in 0..n : after[i] \in X}
    <2>1. 0 \in S
      <3>1. after[0] \in X
        BY <1>3, <1>11
      <3> QED BY <1>1, <3>1
    <2>2. ASSUME NEW i \in 1..n, i - 1 \in S PROVE i \in S
      BY <1>1, <1>2, <1>11, <2>2
    <2>3. 0..n \subseteq S
      <3> HIDE DEF S
      <3> QED BY <1>1, <2>1, <2>2, UpTo
    <2>4. after = [i \in 0..n |-> after[i]]
      BY <1>9, <1>11 DEF SettlesStepByStep, n
    <2> QED BY <2>3, <2>4
  <1> QED BY <1>10, <1>11, <1>12 DEF n, X

\* A settlement ends: every grant that is left lasts, and there are no orphans.
LEMMA SettledIs ==
  ASSUME NEW b \in Board, Sound(b), NEW departed \in SUBSET Player
  PROVE  LET x == Settled(b, departed)
         IN  /\ x \in Board /\ Sound(x) /\ Follows(b, x) /\ Clears(b, x)
             /\ Filtered(x) = x /\ Orphans(x, departed) = {}
             /\ Filtered(b) = b /\ Orphans(b, departed) = {} => x = b
             /\ x = b \/ Reduces(b, x)
  <1> DEFINE n == Weight(b)
             Rests(x) == Settle(x, departed) = x
  <1>1. n \in Nat
    BY WeightIs
  <1>2. PICK after \in [0..n -> Settling(b)] :
          /\ after[0] = b
          /\ \A i \in 1..n : after[i] = Settle(after[i - 1], departed)
          /\ Settled(b, departed) = after[n]
    BY SettledIsComputed
  <1>3. \A i \in 0..n : /\ after[i] \in Board /\ Sound(after[i]) /\ Follows(b, after[i])
                        /\ Clears(b, after[i]) /\ (after[i] = b \/ Reduces(b, after[i]))
    BY <1>2 DEF Settling
  <1>4. ASSUME NEW i \in 0..n
        PROVE  /\ Weight(after[i]) \in Nat
               /\ Settle(after[i], departed) \in Board /\ Sound(Settle(after[i], departed))
               /\ Weight(Settle(after[i], departed)) \in Nat
               /\ Rests(after[i]) <=> Filtered(after[i]) = after[i] /\ Orphans(after[i], departed) = {}
               /\ Rests(after[i]) \/ Weight(Settle(after[i], departed)) < Weight(after[i])
    BY <1>3, SettleKeeps, WeightIs
  <1> DEFINE S == {i \in 0..n : Rests(after[i]) \/ Weight(after[i]) <= n - i}
  <1>5. 0 \in S
    BY <1>1, <1>2
  <1> HIDE DEF n, Rests
  <1>6. ASSUME NEW i \in 1..n, i - 1 \in S PROVE i \in S
    <2>1. i - 1 \in 0..n /\ i \in 0..n /\ after[i] = Settle(after[i - 1], departed)
      BY <1>1, <1>2
    <2>2. CASE Rests(after[i - 1])
      <3>1. after[i] = after[i - 1]
        BY <2>1, <2>2 DEF Rests
      <3> QED BY <2>1, <2>2, <3>1
    <2>3. CASE ~Rests(after[i - 1])
      <3>1. Weight(after[i - 1]) <= n - (i - 1) /\ Weight(after[i]) < Weight(after[i - 1])
        BY <1>4, <1>6, <2>1, <2>3
      <3>2. Weight(after[i]) \in Nat /\ Weight(after[i - 1]) \in Nat
        BY <1>4, <2>1
      <3>3. Weight(after[i]) <= n - i
        BY <1>1, <3>1, <3>2
      <3> QED BY <2>1, <3>3
    <2> QED BY <2>2, <2>3
  <1>7. n \in S
    <2> HIDE DEF S
    <2> QED BY <1>1, <1>5, <1>6, UpTo
  <1>8. n \in 0..n
    BY <1>1
  <1>9. Rests(after[n])
    <2>1. CASE Weight(after[n]) <= n - n
      BY <1>1, <1>4, <1>8, <2>1
    <2> QED BY <1>7, <2>1
  <1>10. Filtered(b) = b /\ Orphans(b, departed) = {} => after[n] = b
    <2> SUFFICES ASSUME Filtered(b) = b, Orphans(b, departed) = {} PROVE after[n] = b
      OBVIOUS
    <2>1. Settle(b, departed) = b
      BY SettleKeeps
    <2> DEFINE T == {i \in 0..n : after[i] = b}
    <2>2. 0 \in T
      BY <1>1, <1>2
    <2>3. ASSUME NEW i \in 1..n, i - 1 \in T PROVE i \in T
      BY <1>1, <1>2, <2>1, <2>3
    <2>4. 0..n \subseteq T
      <3> HIDE DEF T
      <3> QED BY <1>1, <2>2, <2>3, UpTo
    <2> QED BY <1>8, <2>4
  <1> QED BY <1>2, <1>3, <1>4, <1>8, <1>9, <1>10

\* settleDepartedControl converges: as many steps as there are grants and permanents
\* lead to a board that one more would not change, so that it does not panic.
THEOREM ControlComesToRest ==
  ASSUME NEW b \in Board, Sound(b), NEW departed \in SUBSET Player
  PROVE  LET x == Settled(b, departed)
         IN Filtered(x) = x /\ Orphans(x, departed) = {} /\ Settle(x, departed) = x
  <1> DEFINE x == Settled(b, departed)
  <1>1. x \in Board /\ Sound(x) /\ Filtered(x) = x /\ Orphans(x, departed) = {}
    BY SettledIs
  <1> HIDE DEF x
  <1>2. Settle(x, departed) = x
    BY <1>1, SettleKeeps
  <1> QED BY <1>1, <1>2 DEF x

LEMMA DepartedControlIs ==
  ASSUME NEW b \in Board, Sound(b), NEW departed \in SUBSET Player
  PROVE  LET x == SettleDepartedControl(b, departed)
         IN  /\ x \in Board /\ Sound(x) /\ Follows(b, x) /\ Clears(b, x)
             /\ departed # {} => Filtered(x) = x
             /\ Orphans(x, departed) = {}
             /\ Filtered(b) = b /\ Orphans(b, departed) = {} => x = b
             /\ Filtered(b) = b => Filtered(x) = x
             /\ x = b \/ Reduces(b, x)
  <1>1. CASE departed = {}
    <2>1. SettleDepartedControl(b, departed) = b
      BY <1>1 DEF SettleDepartedControl
    <2>2. Orphans(b, departed) = {}
      BY <1>1 DEF Orphans
    <2> QED BY <1>1, <2>1, <2>2, FollowsReflexive
  <1>2. CASE departed # {}
    <2>1. SettleDepartedControl(b, departed) = Settled(b, departed)
      BY <1>2 DEF SettleDepartedControl
    <2> QED BY <2>1, SettledIs
  <1> QED BY <1>1, <1>2

LEMMA ExpireIs ==
  ASSUME NEW b \in Board, Sound(b)
  PROVE  LET x == Expire(b)
         IN  /\ x \in Board /\ Sound(x) /\ Follows(b, x) /\ Clears(b, x)
             /\ Filtered(x) = x
             /\ Filtered(b) = b => x = b
             /\ x = b \/ Reduces(b, x)
  <1>1. Orphans(b, {}) = {}
    BY DEF Orphans
  <1> QED BY <1>1, SettledIs DEF Expire

\* What was exiled returns once, as what it was, and to its owner.
LEMMA ReturnIs ==
  ASSUME NEW b \in Board, Sound(b)
  PROVE  LET x == ReturnUntilSourceLeavesExiles(b)
         IN  /\ x \in Board /\ Sound(x) /\ Follows(b, x)
             /\ Released(b) = {} => x = b
             /\ \A c \in Card : b.zone[c] # "battlefield" /\ x.zone[c] = "battlefield" =>
                  \E r \in Released(b) : Now(b, c) \in r.held
             /\ \A departed : Free(b, departed) => Free(x, departed)
             /\ x.exiles = b.exiles \ Released(b)
  <1> DEFINE y == [b EXCEPT !.exiles = b.exiles \ Released(b)]
             held == UNION {r.held : r \in Released(b)}
             back == {o.card : o \in {h \in held : Same(b, h) /\ b.zone[h.card] = "exile"}}
             x == Send(y, back, "battlefield")
  <1>1. ReturnUntilSourceLeavesExiles(b) = x
    BY DEF ReturnUntilSourceLeavesExiles, Board
  <1>2. Released(b) \subseteq b.exiles
    BY DEF Released
  <1>3. /\ y \in Board /\ y.exiles = b.exiles \ Released(b)
        /\ y.zone = b.zone /\ y.version = b.version /\ y.base = b.base /\ y.grants = b.grants
        /\ y.arrivals = b.arrivals /\ y.dying = b.dying
    <2> HIDE DEF Zones, Object, Grant, UntilSourceLeaves
    <2> QED BY DEF Board
  <1>4. Released(b) = {} => y = b
    BY DEF Board
  <1>5. held \subseteq Object
    BY <1>2, Boards DEF UntilSourceLeaves
  <1>6. ASSUME NEW c \in back
        PROVE  /\ c \in Card /\ b.zone[c] = "exile"
               /\ \E r \in Released(b) : Now(b, c) \in r.held
    <2>1. PICK h \in held : h.card = c /\ Same(b, h) /\ b.zone[h.card] = "exile"
      OBVIOUS
    <2>2. h \in Object /\ \E r \in Released(b) : h \in r.held
      BY <1>5, <2>1
    <2>3. h = Now(b, c)
      BY <2>1, <2>2 DEF Object, Now, Same
    <2> QED BY <2>1, <2>2, <2>3 DEF Object
  <1>7. Sound(y)
    <2>1. IsFiniteSet(y.exiles)
      BY <1>3, Fewer DEF Sound
    <2> QED BY <1>3, <2>1 DEF Sound, Field, Same
  <1>8. "battlefield" \in Zones
    BY DEF Zones
  <1>9. back \in SUBSET Card /\ \A c \in back : y.zone[c] # "gone"
    BY <1>3, <1>6
  <1>10. /\ \A o \in held : Same(b, o) /\ b.zone[o.card] = "exile" => o.card \in back
         /\ Released(b) = {} => back = {}
    OBVIOUS
  <1>11. \A r \in Released(b) : \A o \in r.held : o \in held
    OBVIOUS
  <1> HIDE DEF y, held, back
  <1>12. /\ x \in Board /\ Sound(x) /\ Follows(y, x) /\ (back = {} => x = y)
         /\ \A c \in Card : Controller(x, c) = IF c \in back THEN Owner[c] ELSE Controller(y, c)
    BY <1>3, <1>7, <1>8, <1>9, SendKeeps
  <1>13. Sent(y, back, "battlefield", x)
    BY <1>3, <1>8, <1>9, SendIs
  <1> HIDE DEF x
  <1>14. ASSUME NEW r \in b.exiles \ x.exiles, NEW h \in r.held, h.version <= b.version[h.card]
         PROVE  ~(Same(x, h) /\ x.zone[h.card] = "exile")
    <2>1. r \in Released(b) /\ h \in held /\ h.card \in Card /\ h.version \in Nat
      <3>1. r \in Released(b)
        BY <1>3, <1>13, <1>14 DEF Sent
      <3> QED BY <1>5, <1>11, <3>1 DEF Object
    <2>2. CASE h.card \in back
      BY <1>13, <2>1, <2>2 DEF Sent
    <2>3. CASE h.card \notin back
      BY <1>3, <1>10, <1>13, <2>1, <2>3 DEF Sent, Same
    <2> QED BY <2>2, <2>3
  <1>15. Follows(b, x)
    <2>1. x.exiles \subseteq b.exiles /\ x.grants \subseteq b.grants
      BY <1>3, <1>13 DEF Sent
    <2> QED BY <1>3, <1>12, <1>14, <2>1 DEF Follows
  <1>16. ASSUME NEW c \in Card, b.zone[c] # "battlefield", x.zone[c] = "battlefield"
         PROVE  \E r \in Released(b) : Now(b, c) \in r.held
    BY <1>3, <1>6, <1>13, <1>16 DEF Sent
  <1>17. ASSUME NEW departed, Free(b, departed) PROVE Free(x, departed)
    <2> SUFFICES ASSUME NEW c \in Card
                 PROVE  /\ Owner[c] \in departed => x.zone[c] = "gone"
                        /\ c \in Field(x) => Controller(x, c) \notin departed
      BY DEF Free
    <2>1. /\ Owner[c] \in departed => b.zone[c] = "gone"
          /\ c \in Field(b) => Controller(b, c) \notin departed
      BY <1>17 DEF Free
    <2>2. c \in back => b.zone[c] = "exile"
      BY <1>6
    <2>3. /\ x.zone[c] = IF c \in back THEN "battlefield" ELSE b.zone[c]
          /\ Controller(x, c) = IF c \in back THEN Owner[c] ELSE Controller(y, c)
      BY <1>3, <1>12, <1>13 DEF Sent
    <2>4. Controller(y, c) = Controller(b, c)
      <3>1. y.grants = b.grants /\ Now(y, c) = Now(b, c) /\ y.base[c] = b.base[c]
        BY <1>3 DEF Now
      <3> QED BY <3>1 DEF Controller, ControllerBy
    <2>5. Field(x) = {d \in Card : x.zone[d] = "battlefield"} /\ Field(b) = {d \in Card : b.zone[d] = "battlefield"}
      BY DEF Field
    <2> QED BY <2>1, <2>2, <2>3, <2>4, <2>5
  <1>18. Released(b) = {} => x = b
    BY <1>4, <1>10, <1>12
  <1>19. x.exiles = b.exiles \ Released(b)
    BY <1>3, <1>13 DEF Sent
  <1> QED BY <1>1, <1>12, <1>15, <1>16, <1>17, <1>18, <1>19

\* What is recorded of the exiled stays true of a board that follows.
LEMMA RecalledKept ==
  ASSUME NEW b \in Board, NEW x \in Board, Follows(b, x),
         NEW told \in SUBSET [source : Object, object : Object], Recalled(b, told)
  PROVE  Recalled(x, told)
  <1>1. ASSUME NEW r \in x.exiles, NEW o \in r.held PROVE [source |-> r.source, object |-> o] \in told
    <2>1. r \in b.exiles
      BY DEF Follows
    <2> QED BY <2>1 DEF Recalled
  <1>2. ASSUME NEW j \in told
        PROVE  /\ j.object.version <= x.version[j.object.card]
               /\ Same(x, j.object) /\ x.zone[j.object.card] = "exile" =>
                    \E r \in x.exiles : r.source = j.source /\ j.object \in r.held
    <2> DEFINE o == j.object
    <2>1. o.card \in Card /\ o.version \in Nat
      BY DEF Object
    <2>2. /\ o.version <= b.version[o.card]
          /\ Same(b, o) /\ b.zone[o.card] = "exile" => \E r \in b.exiles : r.source = j.source /\ o \in r.held
      BY DEF Recalled
    <2> HIDE DEF o
    <2>3. b.version[o.card] \in Nat /\ x.version[o.card] \in Nat /\ b.version[o.card] <= x.version[o.card]
      BY <2>1, Boards DEF Follows
    <2>4. o.version <= x.version[o.card]
      BY <2>1, <2>2, <2>3
    <2>5. ASSUME Same(x, o), x.zone[o.card] = "exile"
          PROVE  \E r \in x.exiles : r.source = j.source /\ o \in r.held
      <3>1. x.version[o.card] = b.version[o.card] /\ Same(b, o)
        BY <2>1, <2>2, <2>3, <2>5 DEF Same
      <3>2. b.zone[o.card] = "exile"
        BY <2>1, <2>5, <3>1 DEF Follows
      <3>3. PICK r \in b.exiles : r.source = j.source /\ o \in r.held
        BY <2>2, <3>1, <3>2
      <3>4. r \in x.exiles
        BY <2>2, <2>5, <3>3 DEF Follows
      <3> QED BY <3>3, <3>4
    <2> QED BY <2>4, <2>5 DEF o
  <1> QED BY <1>1, <1>2 DEF Recalled

LEMMA NoticedKept ==
  ASSUME NEW b \in Board, Sound(b), NEW x \in Board, Follows(b, x),
         NEW offered \in [Card -> Seq(Nat)], Noticed(b, offered)
  PROVE  Noticed(x, offered)
  <1> SUFFICES ASSUME NEW c \in Commander
               PROVE  LET last == Len(offered[c])
                      IN /\ \A i, k \in 1..last : i < k => offered[c][i] < offered[c][k]
                         /\ \A i \in 1..last : offered[c][i] <= x.version[c]
                         /\ \A o \in x.arrivals : o.card = c => \A i \in 1..last : offered[c][i] < o.version
                         /\ x.version[c] > 0 /\ x.zone[c] \in Public =>
                              Now(x, c) \in x.arrivals \/ (last > 0 /\ offered[c][last] = x.version[c])
    BY DEF Noticed
  <1> DEFINE last == Len(offered[c])
  <1>1. c \in Card
    BY StateBasedActionsAssumption
  <1>2. last \in Nat /\ \A i \in 1..last : offered[c][i] \in Nat
    BY <1>1
  <1>3. /\ \A i, k \in 1..last : i < k => offered[c][i] < offered[c][k]
        /\ \A i \in 1..last : offered[c][i] <= b.version[c]
        /\ \A o \in b.arrivals : o.card = c => \A i \in 1..last : offered[c][i] < o.version
        /\ b.version[c] > 0 /\ b.zone[c] \in Public =>
             Now(b, c) \in b.arrivals \/ (last > 0 /\ offered[c][last] = b.version[c])
    BY DEF Noticed
  <1> HIDE DEF last
  <1>4. b.version[c] \in Nat /\ x.version[c] \in Nat /\ b.version[c] <= x.version[c]
    BY <1>1, Boards DEF Follows
  <1>5. \A i \in 1..last : offered[c][i] <= x.version[c]
    BY <1>2, <1>3, <1>4
  <1>6. ASSUME NEW o \in x.arrivals, o.card = c, NEW i \in 1..last PROVE offered[c][i] < o.version
    <2>1. CASE o \in b.arrivals
      BY <1>3, <1>6, <2>1
    <2>2. CASE o \notin b.arrivals
      <3>1. o.version > b.version[c] /\ o.version \in Nat
        BY <1>6, <2>2, Boards DEF Follows, Object
      <3> QED BY <1>2, <1>3, <1>4, <3>1
    <2> QED BY <2>1, <2>2
  <1>7. ASSUME x.version[c] > 0, x.zone[c] \in Public
        PROVE  Now(x, c) \in x.arrivals \/ (last > 0 /\ offered[c][last] = x.version[c])
    <2>1. CASE x.version[c] = b.version[c]
      <3>1. x.zone[c] = b.zone[c] /\ Now(x, c) = Now(b, c) /\ b.arrivals \subseteq x.arrivals
        BY <1>1, <2>1 DEF Follows, Now
      <3> QED BY <1>3, <1>7, <2>1, <3>1
    <2>2. CASE x.version[c] # b.version[c]
      BY <1>1, <1>7, <2>2 DEF Follows
    <2> QED BY <2>1, <2>2
  <1> QED BY <1>3, <1>5, <1>6, <1>7 DEF last

\* What the departed own is gone for good.
Buried(b, departed) == \A c \in Card : Owner[c] \in departed => b.zone[c] = "gone"

LEMMA BuriedKept ==
  ASSUME NEW b, NEW x, Follows(b, x), NEW departed, Buried(b, departed)
  PROVE  Buried(x, departed)
  BY DEF Buried, Follows

LEMMA SendKeepsFree ==
  ASSUME NEW b \in Board, Sound(b), NEW cards \in SUBSET Card, NEW to \in Zones,
         \A c \in cards : b.zone[c] # "gone", NEW departed, Free(b, departed)
  PROVE  Free(Send(b, cards, to), departed)
  <1> DEFINE x == Send(b, cards, to)
  <1>1. Sent(b, cards, to, x) /\ \A c \in Card : Controller(x, c) = IF c \in cards THEN Owner[c] ELSE Controller(b, c)
    BY SendIs, SendKeeps
  <1> HIDE DEF x
  <1>2. \A c \in Card : x.zone[c] = IF c \in cards THEN to ELSE b.zone[c]
    BY <1>1 DEF Sent
  <1>3. /\ Field(x) = {c \in Card : x.zone[c] = "battlefield"}
        /\ Field(b) = {c \in Card : b.zone[c] = "battlefield"}
    BY DEF Field
  <1>4. Free(x, departed)
    BY <1>1, <1>2, <1>3 DEF Free
  <1> QED BY <1>4 DEF x

LEMMA ControlSettlesFree ==
  ASSUME NEW b \in Board, Sound(b), NEW departed \in SUBSET Player, Buried(b, departed)
  PROVE  Free(SettleDepartedControl(b, departed), departed)
  <1> DEFINE x == SettleDepartedControl(b, departed)
  <1>1. Follows(b, x) /\ Orphans(x, departed) = {}
    BY DepartedControlIs
  <1> HIDE DEF x
  <1>2. Buried(x, departed)
    BY <1>1, BuriedKept
  <1>3. Free(x, departed)
    BY <1>1, <1>2 DEF Buried, Orphans, Field, Free
  <1> QED BY <1>3 DEF x

\* Whoever departs takes along what they own, and ends up in control of nothing.
LEMMA CleanupIs ==
  ASSUME NEW b \in Board, Sound(b), NEW departed \in SUBSET Player
  PROVE  LET x == CleanupEliminated(b, departed)
         IN  x \in Board /\ Sound(x) /\ Follows(b, x) /\ Clears(b, x) /\ Free(x, departed)
  <1> DEFINE owned == {c \in Card : Owner[c] \in departed /\ b.zone[c] # "gone"}
             y == Send(b, owned, "gone")
             freed == [y EXCEPT !.grants = {grant \in y.grants : grant.to \notin departed}]
             x == SettleDepartedControl(freed, departed)
  <1>1. CleanupEliminated(b, departed) = x
    <2> HIDE DEF owned
    <2>1. y \in Board
      <3>1. owned \in SUBSET Card /\ "gone" \in Zones
        BY DEF owned, Zones
      <3> QED BY <3>1, SendIs DEF Sent
    <2>2. [y EXCEPT !.grants = {grant \in @ : grant.to \notin departed}] = freed
      BY <2>1 DEF Board
    <2> QED BY <2>2 DEF CleanupEliminated, owned
  <1>2. owned \in SUBSET Card /\ "gone" \in Zones /\ \A c \in owned : b.zone[c] # "gone"
    BY DEF Zones
  <1>3. \A c \in Card : Owner[c] \in departed => c \in owned \/ b.zone[c] = "gone"
    OBVIOUS
  <1> HIDE DEF owned
  <1>4. y \in Board /\ Sound(y) /\ Follows(b, y) /\ Clears(b, y) /\ Sent(b, owned, "gone", y)
    <2>1. "gone" # "battlefield" /\ "gone" \notin Public
      BY DEF Public
    <2> HIDE DEF Public, Zones
    <2> QED BY <1>2, <2>1, SendKeeps, SendIs
  <1> HIDE DEF y
  <1>5. Buried(y, departed)
    BY <1>3, <1>4 DEF Sent, Buried
  <1>6. /\ freed \in Board
        /\ freed.zone = y.zone /\ freed.version = y.version /\ freed.base = y.base
        /\ freed.exiles = y.exiles /\ freed.arrivals = y.arrivals /\ freed.dying = y.dying
        /\ freed.grants \subseteq y.grants
    <2>1. {grant \in y.grants : grant.to \notin departed} \in SUBSET Grant
      BY <1>4, Boards
    <2>2. freed \in Board
      <3> DEFINE G == {grant \in y.grants : grant.to \notin departed}
      <3> HIDE DEF G
      <3> QED BY <1>4, <2>1, Boards DEF G
    <2> HIDE DEF Zones, Object, Grant, UntilSourceLeaves
    <2> QED BY <1>4, <2>2 DEF Board
  <1> HIDE DEF freed
  <1>7. Sound(freed)
    <2>1. IsFiniteSet(freed.grants)
      <3>1. IsFiniteSet(y.grants)
        BY <1>4 DEF Sound
      <3> QED BY <1>6, <3>1, Fewer
    <2> QED BY <1>4, <1>6, <2>1 DEF Sound, Field, Same
  <1>8. Follows(y, freed) /\ Clears(y, freed)
    <2>1. \A c \in Card : y.version[c] \in Nat
      BY <1>4, Boards
    <2> QED BY <1>6, <2>1 DEF Follows, Clears, Around
  <1>9. Buried(freed, departed)
    BY <1>5, <1>6 DEF Buried
  <1>10. x \in Board /\ Sound(x) /\ Follows(freed, x) /\ Clears(freed, x) /\ Free(x, departed)
    BY <1>6, <1>7, <1>9, DepartedControlIs, ControlSettlesFree
  <1> HIDE DEF x
  <1>11. Follows(y, x) /\ Clears(y, x)
    BY <1>4, <1>6, <1>8, <1>10, FollowsTransitive
  <1>12. Follows(b, x) /\ Clears(b, x)
    BY <1>4, <1>10, <1>11, FollowsTransitive
  <1> QED BY <1>1, <1>10, <1>12

\* A departed player has nothing, as NothingOfTheDeparted says of the board.
LEMMA NothingIsFree == NothingOfTheDeparted <=> Free(board, out)
  BY DEF NothingOfTheDeparted, Free

LEMMA SBInvInit == SBInit => SBInv
  <1> SUFFICES ASSUME SBInit PROVE SBInv
    OBVIOUS
  <1>1. PICK zone \in [Card -> {"battlefield", "hand", "command"}] :
          /\ \A c, d \in Namesake :
               zone[c] = "battlefield" /\ zone[d] = "battlefield" /\ Owner[c] = Owner[d] => c = d
          /\ board = [zone |-> zone, version |-> [c \in Card |-> 0], base |-> Owner,
                      grants |-> {}, exiles |-> {}, arrivals |-> {}, dying |-> {}]
    BY DEF SBInit
  <1>2. /\ out = {} /\ doomed = {} /\ step = "settled" /\ passes = 0 /\ effects = 0
        /\ offers = [c \in Card |-> <<>>] /\ jailed = {}
    BY DEF SBInit
  <1>3. /\ board.zone = zone /\ \A c \in Card : board.version[c] = 0 /\ board.base[c] = Owner[c]
        /\ board.grants = {} /\ board.exiles = {} /\ board.arrivals = {} /\ board.dying = {}
    BY <1>1
  <1>4. board \in Board
    <2>1. zone \in [Card -> Zones] /\ [c \in Card |-> 0] \in [Card -> Nat]
      BY DEF Zones
    <2> HIDE DEF Zones, Object, Grant, UntilSourceLeaves
    <2> QED BY <1>1, <2>1, StateBasedActionsAssumption DEF Board
  <1>5. SBTypeOK
    <2>1. offers \in [Card -> Seq(Nat)]
      BY <1>2
    <2> HIDE DEF Board, Object
    <2> QED BY <1>2, <1>4, <2>1, StateBasedActionsAssumption DEF SBTypeOK
  <1>6. Sound(board)
    <2>1. IsFiniteSet({})
      BY FS_EmptySet
    <2> QED BY <1>3, <2>1 DEF Sound
  <1>7. Recalled(board, jailed)
    BY <1>2, <1>3 DEF Recalled
  <1>8. Noticed(board, offers)
    <2> SUFFICES ASSUME NEW c \in Commander
                 PROVE  LET last == Len(offers[c])
                        IN /\ \A i, k \in 1..last : i < k => offers[c][i] < offers[c][k]
                           /\ \A i \in 1..last : offers[c][i] <= board.version[c]
                           /\ \A o \in board.arrivals : o.card = c => \A i \in 1..last : offers[c][i] < o.version
                           /\ board.version[c] > 0 /\ board.zone[c] \in Public =>
                                Now(board, c) \in board.arrivals \/ (last > 0 /\ offers[c][last] = board.version[c])
      BY DEF Noticed
    <2>1. c \in Card
      BY StateBasedActionsAssumption
    <2>2. Len(offers[c]) = 0 /\ board.version[c] = 0
      BY <1>2, <1>3, <2>1
    <2> QED BY <2>2
  <1>9. \A c \in Card : Controller(board, c) = Owner[c]
    BY <1>3 DEF Controller, ControllerBy
  <1>10. NothingOfTheDeparted
    BY <1>2 DEF NothingOfTheDeparted
  <1>11. SettledIsSettled
    <2>1. ASSUME NEW c \in Namesake \intersect Field(board), NEW d \in Namesake \intersect Field(board),
                 Controller(board, c) = Controller(board, d)
          PROVE  c = d
      BY <1>1, <1>3, <1>9, <2>1 DEF Field
    <2> QED BY <1>2, <1>3, <2>1 DEF SettledIsSettled
  <1> QED BY <1>3, <1>5, <1>6, <1>7, <1>8, <1>10, <1>11 DEF SBInv

\* An instruction leaves a board on which the invariant holds, but for the check
\* that is still to come: what it has released returns.
LEMMA InstructionKeeps ==
  ASSUME SBInv, Instruction, doomed' \subseteq Player,
         jailed' \in SUBSET [source : Object, object : Object],
         NEW x \in Board, Sound(x), Recalled(x, jailed'), Noticed(x, offers), Free(x, out),
         Finish(x)
  PROVE  SBInv'
  <1> DEFINE y == ReturnUntilSourceLeavesExiles(x)
  <1>1. board' = y
    BY DEF Finish
  <1>2. y \in Board /\ Sound(y) /\ Follows(x, y) /\ Free(y, out)
    BY ReturnIs
  <1> HIDE DEF y
  <1>3. /\ step' = "resolving" /\ out' = out /\ passes' = passes /\ offers' = offers
        /\ effects' = effects + 1 /\ effects < MaxEffects
    BY DEF Instruction
  <1>4. SBTypeOK
    BY DEF SBInv
  <1>5. SBTypeOK'
    <2>1. effects' \in 0..MaxEffects
      BY <1>3, <1>4, StateBasedActionsAssumption DEF SBTypeOK
    <2> HIDE DEF Board, Object
    <2> QED BY <1>1, <1>2, <1>3, <1>4, <2>1 DEF SBTypeOK
  <1>6. Recalled(y, jailed')
    BY <1>2, RecalledKept
  <1>7. Noticed(y, offers)
    BY <1>2, <1>4, NoticedKept DEF SBTypeOK
  <1>8. Sound(board)' /\ Recalled(board, jailed)'
    BY <1>1, <1>2, <1>6 DEF Sound, Recalled, Same, Field
  <1>9. Noticed(board, offers)'
    BY <1>1, <1>3, <1>7 DEF Noticed, Now
  <1>10. NothingOfTheDeparted'
    <2>1. \A c \in Card : Controller(board, c)' = Controller(y, c)
      BY <1>1 DEF Controller, ControllerBy, Now
    <2>2. Field(board)' = Field(y)
      BY <1>1 DEF Field
    <2> QED BY <1>1, <1>2, <1>3, <2>1, <2>2 DEF NothingOfTheDeparted, Free
  <1>11. SettledIsSettled' /\ (step = "settled" => board.arrivals = {})'
    BY <1>3 DEF SettledIsSettled
  <1> QED BY <1>5, <1>8, <1>9, <1>10, <1>11 DEF SBInv

\* In particular if it leaves a board that follows.
LEMMA FollowerKeeps ==
  ASSUME SBInv, Instruction, doomed' \subseteq Player, UNCHANGED jailed,
         NEW x \in Board, Sound(x), Follows(board, x), Free(x, out), Finish(x)
  PROVE  SBInv'
  <1>1. SBTypeOK /\ Sound(board) /\ Recalled(board, jailed) /\ Noticed(board, offers)
    BY DEF SBInv
  <1>2. board \in Board /\ jailed \in SUBSET [source : Object, object : Object]
        /\ offers \in [Card -> Seq(Nat)]
    BY <1>1 DEF SBTypeOK
  <1>3. Recalled(x, jailed) /\ Noticed(x, offers)
    BY <1>1, <1>2, RecalledKept, NoticedKept
  <1>4. Recalled(x, jailed') /\ jailed' \in SUBSET [source : Object, object : Object]
    BY <1>2, <1>3
  <1> QED BY <1>3, <1>4, InstructionKeeps

LEMMA MoveKeeps == ASSUME SBInv, NEW c \in Card, Move(c) PROVE SBInv'
  <1>1. /\ SBTypeOK /\ Sound(board) /\ Free(board, out) /\ board \in Board /\ out \in SUBSET Player
        /\ Instruction /\ UNCHANGED <<doomed, jailed>> /\ board.zone[c] # "gone"
    BY NothingIsFree DEF SBInv, SBTypeOK, Move
  <1>2. PICK to \in (Public \union {"hand", "command"}) \ {board.zone[c]} :
          LET after == Send(board, {c}, to)
          IN Finish(IF c \in Field(board) THEN SettleDepartedControl(after, out) ELSE after)
    BY DEF Move
  <1> DEFINE after == Send(board, {c}, to)
             x == IF c \in Field(board) THEN SettleDepartedControl(after, out) ELSE after
  <1>3. to \in Zones /\ {c} \in SUBSET Card /\ \A d \in {c} : board.zone[d] # "gone"
    BY <1>1 DEF Zones, Public
  <1>4. after \in Board /\ Sound(after) /\ Follows(board, after) /\ Free(after, out)
    BY <1>1, <1>3, SendKeeps, SendKeepsFree
  <1>5. Finish(x)
    BY <1>2
  <1> HIDE DEF after
  <1>6. Buried(after, out)
    BY <1>4 DEF Free, Buried
  <1>7. LET y == SettleDepartedControl(after, out)
        IN y \in Board /\ Sound(y) /\ Follows(board, y) /\ Free(y, out)
    <2> DEFINE y == SettleDepartedControl(after, out)
    <2>1. y \in Board /\ Sound(y) /\ Follows(after, y) /\ Free(y, out)
      BY <1>1, <1>4, <1>6, DepartedControlIs, ControlSettlesFree
    <2> HIDE DEF y
    <2>2. Follows(board, y)
      BY <1>1, <1>4, <2>1, FollowsTransitive
    <2> QED BY <2>1, <2>2 DEF y
  <1>8. x \in Board /\ Sound(x) /\ Follows(board, x) /\ Free(x, out)
    BY <1>4, <1>7
  <1> HIDE DEF x
  <1>9. doomed' \subseteq Player
    BY <1>1 DEF SBTypeOK
  <1> QED BY <1>1, <1>5, <1>8, <1>9, FollowerKeeps

\* Put onto the battlefield by anybody, it is a new object under them.
LEMMA PutKeeps == ASSUME SBInv, NEW c \in Card, NEW p \in Player, Put(c, p) PROVE SBInv'
  <1>1. /\ SBTypeOK /\ Sound(board) /\ Free(board, out) /\ board \in Board /\ out \in SUBSET Player
        /\ Recalled(board, jailed) /\ Noticed(board, offers)
        /\ jailed \in SUBSET [source : Object, object : Object] /\ offers \in [Card -> Seq(Nat)]
        /\ Instruction /\ UNCHANGED <<doomed, jailed>> /\ board.zone[c] # "gone" /\ p \notin out
    BY NothingIsFree DEF SBInv, SBTypeOK, Put
  <1> DEFINE after == Send(board, {c}, "battlefield")
             x == [after EXCEPT !.base[c] = p]
  <1>2. "battlefield" \in Zones /\ {c} \in SUBSET Card /\ \A d \in {c} : board.zone[d] # "gone"
    BY <1>1 DEF Zones
  <1>3. /\ after \in Board /\ Sound(after) /\ Follows(board, after) /\ Free(after, out)
        /\ Sent(board, {c}, "battlefield", after)
    BY <1>1, <1>2, SendKeeps, SendKeepsFree, SendIs
  <1>4. Finish(x)
    BY DEF Put
  <1> HIDE DEF after
  <1>5. /\ x \in Board
        /\ x.zone = after.zone /\ x.version = after.version /\ x.grants = after.grants
        /\ x.exiles = after.exiles /\ x.arrivals = after.arrivals /\ x.dying = after.dying
        /\ \A d \in Card : x.base[d] = IF d = c THEN p ELSE after.base[d]
    <2> HIDE DEF Zones, Object, Grant, UntilSourceLeaves
    <2> QED BY <1>3 DEF Board
  <1> HIDE DEF x
  <1>6. Sound(x)
    BY <1>3, <1>5 DEF Sound, Field, Same
  <1>7. Recalled(after, jailed) /\ Noticed(after, offers)
    BY <1>1, <1>3, RecalledKept, NoticedKept
  <1>8. Recalled(x, jailed') /\ Noticed(x, offers)
    <2>1. Recalled(x, jailed)
      BY <1>5, <1>7 DEF Recalled, Same
    <2>2. Noticed(x, offers)
      BY <1>5, <1>7 DEF Noticed, Now
    <2> QED BY <1>1, <2>1, <2>2
  <1>9. ASSUME NEW d \in Card
        PROVE  /\ Owner[d] \in out => x.zone[d] = "gone"
               /\ d \in Field(x) => Controller(x, d) \notin out
    <2>1. /\ Owner[d] \in out => after.zone[d] = "gone"
          /\ d \in Field(after) => Controller(after, d) \notin out
      BY <1>3 DEF Free
    <2>2. Field(x) = Field(after) /\ Now(x, d) = Now(after, d)
      BY <1>5 DEF Field, Now
    <2>3. CASE d # c
      <3>1. Controller(x, d) = Controller(after, d)
        BY <1>5, <2>2, <2>3 DEF Controller, ControllerBy
      <3> QED BY <1>5, <2>1, <2>2, <3>1
    <2>4. CASE d = c
      <3>1. ASSUME NEW g \in x.grants PROVE g.on # Now(x, d)
        <4>1. g.on.card \in Card /\ g.on.version <= board.version[g.on.card] /\ g.on.version \in Nat
          BY <1>1, <1>3, <1>5, Boards DEF Sound, Sent, Grant, Object
        <4>2. x.version[d] = board.version[d] + 1 /\ board.version[d] \in Nat
          BY <1>1, <1>3, <1>5, <2>4, Boards DEF Sent
        <4> QED BY <4>1, <4>2 DEF Now
      <3>2. IsFiniteSet(x.grants)
        BY <1>6 DEF Sound
      <3>3. Controller(x, d) = p
        BY <1>5, <2>4, <3>1, <3>2, ControllerIs DEF Controller
      <3> QED BY <1>1, <1>5, <2>1, <3>3
    <2> QED BY <2>3, <2>4
  <1>10. Free(x, out)
    BY <1>9 DEF Free
  <1>11. doomed' \subseteq Player /\ jailed' \in SUBSET [source : Object, object : Object]
    BY <1>1 DEF SBTypeOK
  <1> QED BY <1>1, <1>4, <1>5, <1>6, <1>8, <1>10, <1>11, InstructionKeeps

\* The record that a jailer makes speaks of the objects it has exiled.
LEMMA JailKeeps ==
  ASSUME SBInv, NEW j \in Card, NEW cards \in SUBSET Field(board), Jail(j, cards)
  PROVE  SBInv'
  <1>1. /\ SBTypeOK /\ Sound(board) /\ Free(board, out) /\ board \in Board /\ out \in SUBSET Player
        /\ Recalled(board, jailed) /\ Noticed(board, offers)
        /\ jailed \in SUBSET [source : Object, object : Object] /\ offers \in [Card -> Seq(Nat)]
        /\ Instruction /\ doomed' = doomed
    BY NothingIsFree DEF SBInv, SBTypeOK, Jail
  <1> DEFINE after == Send(board, cards, "exile")
             held == {Now(after, c) : c \in cards}
             record == [source |-> Now(board, j), held |-> held]
             y == SettleDepartedControl(after, out)
             x == [y EXCEPT !.exiles = y.exiles \union {record}]
             news == {[source |-> record.source, object |-> o] : o \in held}
  <1>2. "exile" \in Zones /\ cards \in SUBSET Card /\ \A d \in cards : board.zone[d] # "gone"
    BY DEF Zones, Public, Field
  <1>3. after \in Board /\ Sound(after) /\ Follows(board, after) /\ Free(after, out)
    <2> HIDE DEF Zones, held, record, y, x, news
    <2>1. board \in Board /\ Sound(board) /\ Free(board, out)
      BY <1>1
    <2>2. after \in Board /\ Sound(after) /\ Follows(board, after)
      BY <1>2, <2>1, SendKeeps
    <2>3. Free(after, out)
      BY <1>2, <2>1, SendKeepsFree
    <2> QED BY <2>2, <2>3
  <1>4. jailed' = jailed \union news
    BY DEF Jail
  <1>5. held \subseteq Object
    BY <1>2, <1>3, Boards DEF Now, Object
  <1>6. ASSUME NEW h \in held
        PROVE  h.card \in Card /\ h.version = after.version[h.card]
    BY <1>2 DEF Now
  <1>7. Finish([y EXCEPT !.exiles = @ \union {record}])
    BY DEF Jail
  <1>8. Now(board, j) \in Object
    BY <1>1, Boards DEF Now, Object
  <1> HIDE DEF after, held
  <1>9. Buried(after, out)
    BY <1>3 DEF Free, Buried
  <1>10. /\ y \in Board /\ Sound(y) /\ Follows(after, y) /\ Free(y, out)
    BY <1>1, <1>3, <1>9, DepartedControlIs, ControlSettlesFree
  <1> HIDE DEF y
  <1>11. Follows(board, y)
    BY <1>1, <1>3, <1>10, FollowsTransitive
  <1>12. Recalled(y, jailed) /\ Noticed(y, offers)
    BY <1>1, <1>10, <1>11, RecalledKept, NoticedKept
  <1>13. /\ record \in UntilSourceLeaves /\ record.source = Now(board, j) /\ record.held = held
         /\ news \subseteq [source : Object, object : Object]
    BY <1>5, <1>8 DEF UntilSourceLeaves
  <1>14. /\ \A o \in held : [source |-> record.source, object |-> o] \in news
         /\ \A n \in news : n.object \in held /\ n.source = record.source
    OBVIOUS
  <1> HIDE DEF record, news
  <1>15. /\ x \in Board /\ x.exiles = y.exiles \union {record}
         /\ x.zone = y.zone /\ x.version = y.version /\ x.base = y.base
         /\ x.grants = y.grants /\ x.arrivals = y.arrivals /\ x.dying = y.dying
    <2> HIDE DEF Zones, Object, Grant, UntilSourceLeaves
    <2> QED BY <1>10, <1>13 DEF Board
  <1>16. Finish(x)
    BY <1>7, <1>10 DEF Board
  <1> HIDE DEF x
  <1>17. Sound(x)
    <2>1. IsFiniteSet(x.exiles)
      BY <1>10, <1>15, FS_AddElement DEF Sound
    <2> QED BY <1>10, <1>15, <2>1 DEF Sound, Field, Same
  <1>18. ASSUME NEW r \in x.exiles, NEW o \in r.held
         PROVE  [source |-> r.source, object |-> o] \in jailed \union news
    <2>1. CASE r \in y.exiles
      BY <1>12, <2>1 DEF Recalled
    <2>2. CASE r = record
      BY <1>13, <1>14, <2>2
    <2> QED BY <1>15, <2>1, <2>2
  <1>19. ASSUME NEW n \in jailed \union news
         PROVE  /\ n.object.version <= x.version[n.object.card]
                /\ Same(x, n.object) /\ x.zone[n.object.card] = "exile" =>
                     \E r \in x.exiles : r.source = n.source /\ n.object \in r.held
    <2>1. CASE n \in jailed
      BY <1>12, <1>15, <2>1 DEF Recalled, Same
    <2>2. CASE n \in news
      <3>1. n.object \in held /\ n.source = record.source
        BY <1>14, <2>2
      <3>2. n.object.version <= x.version[n.object.card]
        BY <1>6, <1>10, <1>15, <3>1 DEF Follows
      <3> QED BY <1>13, <1>15, <3>1, <3>2
    <2> QED BY <2>1, <2>2
  <1>20. Recalled(x, jailed')
    BY <1>4, <1>18, <1>19 DEF Recalled
  <1>21. Noticed(x, offers)
    BY <1>12, <1>15 DEF Noticed, Now
  <1>22. Free(x, out)
    <2>1. \A c \in Card : Controller(x, c) = Controller(y, c)
      BY <1>15 DEF Controller, ControllerBy, Now
    <2>2. Field(x) = Field(y)
      BY <1>15 DEF Field
    <2> QED BY <1>10, <1>15, <2>1, <2>2 DEF Free
  <1>23. doomed' \subseteq Player /\ jailed' \in SUBSET [source : Object, object : Object]
    BY <1>1, <1>4, <1>13 DEF SBTypeOK
  <1> QED BY <1>1, <1>15, <1>16, <1>17, <1>20, <1>21, <1>22, <1>23, InstructionKeeps

LEMMA SeizeKeeps ==
  ASSUME SBInv, NEW t \in Card, NEW c \in Field(board), Seize(t, c)
  PROVE  SBInv'
  <1>1. /\ SBTypeOK /\ Sound(board) /\ Free(board, out) /\ board \in Board /\ out \in SUBSET Player
        /\ Recalled(board, jailed) /\ Noticed(board, offers)
        /\ jailed \in SUBSET [source : Object, object : Object] /\ offers \in [Card -> Seq(Nat)]
        /\ Instruction /\ UNCHANGED <<doomed, jailed>> /\ c \in Card
    BY NothingIsFree DEF SBInv, SBTypeOK, Seize, Field
  <1> DEFINE grant == [on |-> Now(board, c), source |-> Now(board, t),
                       to |-> Controller(board, t), made |-> effects]
             y == [board EXCEPT !.grants = board.grants \union {grant}]
             x == SettleDepartedControl(y, out)
  <1>2. Finish(SettleDepartedControl([board EXCEPT !.grants = @ \union {grant}], out))
    BY DEF Seize
  <1>3. Now(board, c) \in Object /\ Now(board, t) \in Object /\ Now(board, c).card = c
        /\ Now(board, c).version = board.version[c] /\ board.version[c] \in Nat
    BY <1>1, Boards DEF Now, Object
  <1>4. Controller(board, t) \in Player
    BY <1>1, ControllerIs DEF Controller, Sound
  <1>5. grant \in Grant /\ grant.on = Now(board, c)
    BY <1>1, <1>3, <1>4 DEF Grant, SBTypeOK
  <1> HIDE DEF grant
  <1>6. /\ y \in Board /\ y.grants = board.grants \union {grant}
        /\ y.zone = board.zone /\ y.version = board.version /\ y.base = board.base
        /\ y.exiles = board.exiles /\ y.arrivals = board.arrivals /\ y.dying = board.dying
    <2> HIDE DEF Zones, Object, Grant, UntilSourceLeaves
    <2> QED BY <1>1, <1>5 DEF Board
  <1>7. Finish(x)
    BY <1>1, <1>2 DEF Board
  <1> HIDE DEF y
  <1>8. Sound(y)
    <2>1. IsFiniteSet(y.grants)
      <3>1. IsFiniteSet(board.grants)
        BY <1>1 DEF Sound
      <3> QED BY <1>6, <3>1, FS_AddElement
    <2>2. \A g \in y.grants : g.on.version <= y.version[g.on.card]
      BY <1>1, <1>3, <1>5, <1>6 DEF Sound
    <2> QED BY <1>1, <1>6, <2>1, <2>2 DEF Sound, Field, Same
  <1>9. Recalled(y, jailed) /\ Noticed(y, offers)
    <2>1. Recalled(y, jailed)
      BY <1>1, <1>6 DEF Recalled, Same
    <2>2. Noticed(y, offers)
      BY <1>1, <1>6 DEF Noticed, Now
    <2> QED BY <2>1, <2>2
  <1>10. Buried(y, out)
    BY <1>1, <1>6 DEF Free, Buried
  <1>11. x \in Board /\ Sound(x) /\ Follows(y, x) /\ Free(x, out)
    BY <1>1, <1>6, <1>8, <1>10, DepartedControlIs, ControlSettlesFree
  <1> HIDE DEF x
  <1>12. Recalled(x, jailed) /\ Noticed(x, offers)
    BY <1>1, <1>6, <1>8, <1>9, <1>11, RecalledKept, NoticedKept
  <1>13. Recalled(x, jailed') /\ doomed' \subseteq Player
         /\ jailed' \in SUBSET [source : Object, object : Object]
    BY <1>1, <1>12 DEF SBTypeOK
  <1> QED BY <1>1, <1>7, <1>11, <1>12, <1>13, InstructionKeeps

LEMMA HarmKeeps ==
  ASSUME SBInv, NEW cards \in SUBSET Field(board), NEW players \in SUBSET (Player \ out),
         Harm(cards, players)
  PROVE  SBInv'
  <1>1. /\ SBTypeOK /\ Sound(board) /\ Free(board, out) /\ board \in Board /\ out \in SUBSET Player
        /\ Instruction /\ UNCHANGED jailed /\ doomed' = doomed \union players
    BY NothingIsFree DEF SBInv, SBTypeOK, Harm
  <1> DEFINE x == [board EXCEPT !.dying = board.dying \union cards]
  <1>2. Finish([board EXCEPT !.dying = @ \union cards])
    BY DEF Harm
  <1>3. cards \subseteq Card
    BY DEF Field
  <1>4. /\ x \in Board /\ x.dying = board.dying \union cards
        /\ x.zone = board.zone /\ x.version = board.version /\ x.base = board.base
        /\ x.exiles = board.exiles /\ x.arrivals = board.arrivals /\ x.grants = board.grants
    <2> HIDE DEF Zones, Object, Grant, UntilSourceLeaves
    <2> QED BY <1>1, <1>3 DEF Board
  <1>5. Finish(x)
    BY <1>1, <1>2 DEF Board
  <1> HIDE DEF x
  <1>6. Sound(x)
    BY <1>1, <1>4 DEF Sound, Field, Same
  <1>7. Follows(board, x)
    BY <1>1, <1>4, FollowsReflexive DEF Follows, Now
  <1>8. Free(x, out)
    <2>1. \A c \in Card : Controller(x, c) = Controller(board, c)
      BY <1>4 DEF Controller, ControllerBy, Now
    <2>2. Field(x) = Field(board)
      BY <1>4 DEF Field
    <2> QED BY <1>1, <1>4, <2>1, <2>2 DEF Free
  <1>9. doomed' \subseteq Player
    BY <1>1 DEF SBTypeOK
  <1> QED BY <1>1, <1>4, <1>5, <1>6, <1>7, <1>8, <1>9, FollowerKeeps

\* The same board, while nothing settles.
LEMMA StandingKeeps ==
  ASSUME SBInv, UNCHANGED <<board, out, doomed, passes, effects, offers, jailed>>,
         step' \in {step, "checking"}
  PROVE  SBInv'
  <1>1. /\ board' = board /\ out' = out /\ doomed' = doomed /\ passes' = passes
        /\ effects' = effects /\ offers' = offers /\ jailed' = jailed
    OBVIOUS
  <1>2. SBTypeOK'
    <2> HIDE DEF Board, Object
    <2> QED BY <1>1 DEF SBInv, SBTypeOK
  <1>3. Sound(board)' /\ Recalled(board, jailed)'
    BY <1>1 DEF SBInv, Sound, Recalled, Same, Field
  <1>4. Noticed(board, offers)'
    BY <1>1 DEF SBInv, Noticed, Now
  <1>5. Field(board)' = Field(board) /\ \A c \in Card : Controller(board, c)' = Controller(board, c)
    BY <1>1 DEF Field, Controller, ControllerBy, Now
  <1>6. NothingOfTheDeparted'
    BY <1>1, <1>5 DEF SBInv, NothingOfTheDeparted
  <1>7. CASE step' = step
    <2>1. Namesake \subseteq Card
      BY StateBasedActionsAssumption
    <2>2. \A g \in board.grants : Lasts(board, board.grants, g)' <=> Lasts(board, board.grants, g)
      BY <1>1, <1>5 DEF Lasts, OnField, Same, ControllerBy, Now
    <2>3. SettledIsSettled'
      BY <1>1, <1>5, <1>7, <2>1, <2>2 DEF SBInv, SettledIsSettled, OnField, Same
    <2> QED BY <1>1, <1>2, <1>3, <1>4, <1>6, <1>7, <2>3 DEF SBInv
  <1>8. CASE step' = "checking"
    BY <1>2, <1>3, <1>4, <1>6, <1>8 DEF SBInv, SettledIsSettled
  <1> QED BY <1>7, <1>8

\* A sequence that grows, with a greater number after it.
LEMMA AppendGrows ==
  ASSUME NEW s \in Seq(Nat), \A i, k \in 1..Len(s) : i < k => s[i] < s[k],
         NEW v \in Nat, \A i \in 1..Len(s) : s[i] < v
  PROVE  LET t == Append(s, v)
             n == Len(s) + 1
         IN /\ Len(t) = n /\ t[n] = v
            /\ \A i \in 1..n : t[i] \in Nat /\ t[i] <= v
            /\ \A i, k \in 1..n : i < k => t[i] < t[k]
  <1> DEFINE t == Append(s, v)
             n == Len(s) + 1
  <1>1. n \in Nat /\ Len(t) = n /\ t[n] = v /\ \A i \in 1..Len(s) : t[i] = s[i] /\ s[i] \in Nat
    OBVIOUS
  <1>2. ASSUME NEW i \in 1..n PROVE t[i] \in Nat /\ t[i] <= v /\ (i # n => t[i] = s[i] /\ i \in 1..Len(s))
    <2> HIDE DEF t
    <2>1. CASE i = n
      BY <1>1, <2>1
    <2>2. CASE i # n
      <3>1. i \in 1..Len(s)
        BY <2>2
      <3> QED BY <1>1, <3>1
    <2> QED BY <2>1, <2>2
  <1>3. ASSUME NEW i \in 1..n, NEW k \in 1..n, i < k PROVE t[i] < t[k]
    <2> HIDE DEF t
    <2>1. i # n /\ i \in 1..Len(s) /\ t[i] = s[i]
      BY <1>2, <1>3
    <2>2. CASE k = n
      BY <1>1, <2>1, <2>2
    <2>3. CASE k # n
      BY <1>2, <1>3, <2>1, <2>3
    <2> QED BY <2>2, <2>3
  <1> HIDE DEF t
  <1> QED BY <1>1, <1>2, <1>3 DEF t

\* The arrivals in the log of b that a pass asks about on the board before its
\* choices, and the offers made by then.
Asked(b, before, departed) ==
  {o \in b.arrivals : Same(before, o) /\ Owner[o.card] \notin departed}

Told(offered, before, asked) ==
  [c \in Card |-> IF \E o \in asked : o.card = c
                   THEN Append(offered[c], before.version[c]) ELSE offered[c]]

\* A pass asks about the arrivals it has read that have not moved again: they, and
\* what arrives after them, are newer than all that was offered before.
LEMMA AskingIsNoticed ==
  ASSUME NEW b \in Board, Sound(b), NEW read \in Board, NEW before \in Board, NEW x \in Board,
         read.zone = b.zone, read.version = b.version, read.arrivals = {},
         Follows(read, before), Follows(before, x), Follows(read, x),
         NEW departed, Buried(b, departed),
         NEW offered \in [Card -> Seq(Nat)], Noticed(b, offered),
         NEW asked, asked = Asked(b, before, departed)
  PROVE  LET told == Told(offered, before, asked)
         IN told \in [Card -> Seq(Nat)] /\ Noticed(x, told)
  <1> DEFINE told == Told(offered, before, asked)
  <1>1. \A c \in Card : /\ b.version[c] \in Nat /\ before.version[c] \in Nat /\ x.version[c] \in Nat
                        /\ b.version[c] <= before.version[c] /\ before.version[c] <= x.version[c]
    BY Boards DEF Follows
  <1>2. told \in [Card -> Seq(Nat)]
    BY <1>1 DEF Told
  <1>3. \A c \in Card : told[c] = IF \E o \in asked : o.card = c
                                    THEN Append(offered[c], before.version[c]) ELSE offered[c]
    BY DEF Told
  <1>4. asked = {o \in b.arrivals : Same(before, o) /\ Owner[o.card] \notin departed}
    BY DEF Asked
  <1> HIDE DEF told
  <1> SUFFICES ASSUME NEW c \in Commander
               PROVE  LET last == Len(told[c])
                      IN /\ \A i, k \in 1..last : i < k => told[c][i] < told[c][k]
                         /\ \A i \in 1..last : told[c][i] <= x.version[c]
                         /\ \A o \in x.arrivals : o.card = c => \A i \in 1..last : told[c][i] < o.version
                         /\ x.version[c] > 0 /\ x.zone[c] \in Public =>
                              Now(x, c) \in x.arrivals \/ (last > 0 /\ told[c][last] = x.version[c])
    BY <1>2 DEF Noticed, told
  <1> DEFINE s == offered[c]
             n == Len(s)
             v == before.version[c]
  <1>5. c \in Card
    BY StateBasedActionsAssumption
  <1>6. s \in Seq(Nat) /\ n \in Nat /\ (\A i \in 1..n : s[i] \in Nat) /\ v \in Nat
    BY <1>1, <1>5
  <1>7. /\ \A i, k \in 1..n : i < k => s[i] < s[k]
        /\ \A i \in 1..n : s[i] <= b.version[c]
        /\ \A o \in b.arrivals : o.card = c => \A i \in 1..n : s[i] < o.version
        /\ b.version[c] > 0 /\ b.zone[c] \in Public =>
             Now(b, c) \in b.arrivals \/ (n > 0 /\ s[n] = b.version[c])
    BY DEF Noticed
  <1>8. ASSUME NEW o \in x.arrivals, o.card = c PROVE o.version \in Nat /\ o.version > b.version[c]
    BY <1>8, Boards DEF Follows, Object
  <1>9. x.version[c] # b.version[c] /\ x.zone[c] \in Public => Now(x, c) \in x.arrivals
    BY <1>5 DEF Follows
  <1>10. x.version[c] = b.version[c] => x.zone[c] = b.zone[c]
    BY <1>5 DEF Follows
  <1>11. CASE \E o \in asked : o.card = c
    <2>1. PICK o \in asked : o.card = c
      BY <1>11
    <2>2. o \in b.arrivals /\ v = o.version
      BY <1>4, <2>1 DEF Same
    <2>3. o.version <= b.version[c]
      BY <2>1, <2>2 DEF Sound
    <2>4. v = b.version[c]
      BY <1>1, <1>5, <1>6, <2>2, <2>3
    <2>5. \A i \in 1..n : s[i] < v
      BY <1>7, <2>1, <2>2
    <2> DEFINE t == Append(s, v)
    <2>6. told[c] = t
      BY <1>5, <1>11, <1>3
    <2> HIDE DEF s, n, v
    <2>7. /\ Len(t) = n + 1 /\ t[n + 1] = v
          /\ \A i \in 1..n + 1 : t[i] \in Nat /\ t[i] <= v
          /\ \A i, k \in 1..n + 1 : i < k => t[i] < t[k]
      BY <1>6, <1>7, <2>5, AppendGrows DEF n
    <2> HIDE DEF t
    <2>8. v <= x.version[c] /\ x.version[c] \in Nat /\ b.version[c] \in Nat
      BY <1>1, <1>5, <2>4
    <2>9. ASSUME NEW i \in 1..n + 1 PROVE t[i] <= x.version[c]
      BY <1>6, <2>7, <2>8
    <2>10. ASSUME NEW a \in x.arrivals, a.card = c, NEW i \in 1..n + 1 PROVE t[i] < a.version
      <3>1. t[i] \in Nat /\ t[i] <= v
        BY <2>7
      <3>2. a.version \in Nat /\ a.version > v
        BY <1>8, <2>4, <2>10
      <3> QED BY <1>6, <3>1, <3>2
    <2>11. x.version[c] > 0 /\ x.zone[c] \in Public =>
             Now(x, c) \in x.arrivals \/ (n + 1 > 0 /\ t[n + 1] = x.version[c])
      BY <1>6, <1>9, <2>4, <2>7
    <2> QED BY <2>6, <2>7, <2>9, <2>10, <2>11
  <1>12. CASE ~\E o \in asked : o.card = c
    <2>1. told[c] = s
      BY <1>5, <1>12, <1>3
    <2>2. ASSUME NEW i \in 1..n PROVE s[i] <= x.version[c]
      BY <1>1, <1>5, <1>6, <1>7
    <2>3. ASSUME NEW a \in x.arrivals, a.card = c, NEW i \in 1..n PROVE s[i] < a.version
      BY <1>1, <1>5, <1>6, <1>7, <1>8, <2>3
    <2>4. ASSUME x.version[c] > 0, x.zone[c] \in Public
          PROVE  Now(x, c) \in x.arrivals \/ (n > 0 /\ s[n] = x.version[c])
      <3>1. CASE x.version[c] # b.version[c]
        BY <1>9, <2>4, <3>1
      <3>2. CASE x.version[c] = b.version[c]
        <4>1. b.zone[c] \in Public /\ b.version[c] > 0 /\ before.version[c] = b.version[c]
          BY <1>1, <1>5, <1>10, <2>4, <3>2
        <4>2. Now(b, c) \notin b.arrivals
          <5>1. Now(b, c).card = c /\ Same(before, Now(b, c))
            BY <4>1 DEF Now, Same
          <5>2. Owner[c] \notin departed
            BY <1>5, <4>1 DEF Buried, Public
          <5> QED BY <1>12, <1>4, <5>1, <5>2
        <4> QED BY <1>7, <3>2, <4>1, <4>2
      <3> QED BY <3>1, <3>2
    <2> HIDE DEF s
    <2> QED BY <1>7, <2>1, <2>2, <2>3, <2>4
  <1> QED BY <1>11, <1>12

\* The board on which the choices of a pass are made, `before`, and all it does
\* then.  A pass that asks for no other has done nothing.
LEMMA ReadingIs ==
  ASSUME NEW b \in Board, Sound(b), NEW departed \in SUBSET Player, Free(b, departed)
  PROVE  LET read == ReadEvents(b)
             before == SettleDepartedControl(Expire(read), departed)
         IN /\ read \in Board /\ Sound(read) /\ read = [b EXCEPT !.arrivals = {}]
            /\ before \in Board /\ Sound(before) /\ Follows(read, before) /\ Clears(read, before)
            /\ Filtered(before) = before /\ Orphans(before, departed) = {}
            /\ Free(before, departed)
            /\ before = read \/ Reduces(read, before)
  <1> DEFINE read == [b EXCEPT !.arrivals = {}]
             expired == Expire(read)
             before == SettleDepartedControl(expired, departed)
  <1>1. ReadEvents(b) = read
    BY DEF ReadEvents
  <1>2. /\ read \in Board /\ read.arrivals = {}
        /\ read.zone = b.zone /\ read.version = b.version /\ read.base = b.base
        /\ read.grants = b.grants /\ read.exiles = b.exiles /\ read.dying = b.dying
    <2> HIDE DEF Zones, Object, Grant, UntilSourceLeaves
    <2> QED BY DEF Board
  <1>3. read = [b EXCEPT !.arrivals = {}]
    OBVIOUS
  <1> HIDE DEF read
  <1>4. Sound(read)
    BY <1>2 DEF Sound, Field, Same
  <1>5. expired \in Board /\ Sound(expired) /\ Follows(read, expired) /\ Clears(read, expired)
        /\ Filtered(expired) = expired /\ (expired = read \/ Reduces(read, expired))
    BY <1>2, <1>4, ExpireIs
  <1> HIDE DEF expired
  <1>6. Buried(expired, departed)
    <2>1. Buried(read, departed)
      BY <1>2 DEF Free, Buried
    <2> QED BY <1>5, <2>1, BuriedKept
  <1>7. /\ before \in Board /\ Sound(before) /\ Follows(expired, before) /\ Clears(expired, before)
        /\ Filtered(before) = before /\ Orphans(before, departed) = {}
        /\ before = expired \/ Reduces(expired, before)
    BY <1>5, DepartedControlIs
  <1>8. Free(before, departed)
    BY <1>5, <1>6, ControlSettlesFree
  <1> HIDE DEF before
  <1>9. Follows(read, before) /\ Clears(read, before)
    BY <1>2, <1>5, <1>7, FollowsTransitive
  <1>10. before = read \/ Reduces(read, before)
    BY <1>5, <1>7, ReducesOn
  <1> QED BY <1>1, <1>2, <1>3, <1>4, <1>7, <1>8, <1>9, <1>10 DEF before, expired

LEMMA DepartingIs ==
  ASSUME NEW before \in Board, Sound(before), NEW departed \in SUBSET Player, Free(before, departed),
         Filtered(before) = before, Orphans(before, departed) = {},
         NEW fallen \in Departures(before)
  PROVE  LET left == SettleDepartedControl(Send(before, fallen, "graveyard"), departed)
         IN /\ left \in Board /\ Sound(left) /\ Follows(before, left) /\ Clears(before, left)
            /\ Free(left, departed)
            /\ fallen = {} => left = before
            /\ fallen = {} \/ Reduces(before, left)
  <1> DEFINE sent == Send(before, fallen, "graveyard")
             left == SettleDepartedControl(sent, departed)
  <1>1. fallen \in SUBSET Card /\ \A c \in fallen : before.zone[c] = "battlefield"
    <2>1. fallen \subseteq Field(before)
      BY DEF Departures, Sound
    <2> QED BY <2>1 DEF Field
  <1>2. "graveyard" \in Zones /\ "graveyard" # "battlefield"
    BY DEF Zones, Public
  <1>3. sent \in Board /\ Sound(sent) /\ Follows(before, sent) /\ Clears(before, sent)
        /\ (fallen = {} => sent = before)
    <2>1. fallen \subseteq Around(before) /\ \A c \in fallen : before.zone[c] # "gone"
      BY <1>1 DEF Around
    <2> HIDE DEF Zones, Public
    <2> QED BY <1>1, <1>2, <2>1, SendKeeps
  <1>4. Free(sent, departed)
    <2> HIDE DEF Zones, left
    <2> QED BY <1>1, <1>2, SendKeepsFree
  <1>5. fallen = {} \/ Field(sent) # Field(before)
    <2>1. Sent(before, fallen, "graveyard", sent)
      BY <1>1, <1>2, SendIs
    <2> HIDE DEF sent, Zones
    <2> QED BY <1>1, <1>2, <2>1 DEF Sent, Field
  <1> HIDE DEF sent
  <1>6. Buried(sent, departed)
    BY <1>4 DEF Free, Buried
  <1>7. left \in Board /\ Sound(left) /\ Follows(sent, left) /\ Clears(sent, left)
        /\ (Filtered(sent) = sent /\ Orphans(sent, departed) = {} => left = sent)
    BY <1>3, DepartedControlIs
  <1>8. Free(left, departed)
    BY <1>3, <1>6, ControlSettlesFree
  <1>9. fallen = {} => left = before
    BY <1>3, <1>7
  <1> HIDE DEF left
  <1>10. Follows(before, left) /\ Clears(before, left)
    BY <1>3, <1>7, FollowsTransitive
  <1>11. fallen = {} \/ Reduces(before, left)
    <2>1. fallen = {} \/ Reduces(before, sent)
      BY <1>5 DEF Reduces
    <2> QED BY <1>3, <1>7, <2>1, ReducesOn
  <1> QED BY <1>7, <1>8, <1>9, <1>10, <1>11 DEF left, sent

\* The commanders that go to the command zone are in a public one, and the players
\* who lose depart last.
LEMMA LeavingIs ==
  ASSUME NEW left \in Board, Sound(left), NEW moved \in SUBSET Card,
         \A c \in moved : left.zone[c] \in Public,
         NEW departed \in SUBSET Player, Free(left, departed), NEW losses \in SUBSET Player
  PROVE  LET after == Send(left, moved, "command")
             x == IF losses = {} THEN after ELSE CleanupEliminated(after, departed \union losses)
         IN /\ x \in Board /\ Sound(x) /\ Follows(left, x) /\ Clears(left, x)
            /\ Free(x, departed \union losses)
            /\ moved = {} /\ losses = {} => x = left
            /\ moved = {} \/ Reduces(left, x)
  <1> DEFINE after == Send(left, moved, "command")
             all == departed \union losses
             cleaned == CleanupEliminated(after, all)
  <1>1. /\ "command" \in Zones /\ "command" # "battlefield" /\ "command" \notin Public
        /\ \A c \in moved : left.zone[c] # "gone"
    BY DEF Zones, Public
  <1>2. moved = {} \/ Around(after) # Around(left)
    <2>1. Sent(left, moved, "command", after)
      BY <1>1, SendIs
    <2> HIDE DEF after, Public
    <2> QED BY <1>1, <2>1 DEF Sent, Around
  <1>3. after \in Board /\ Sound(after) /\ Follows(left, after) /\ Clears(left, after)
        /\ (moved = {} => after = left)
    <2> HIDE DEF Zones, Public
    <2> QED BY <1>1, SendKeeps
  <1>4. Free(after, departed)
    <2> HIDE DEF Zones, Public
    <2> QED BY <1>1, SendKeepsFree
  <1> HIDE DEF after
  <1>5. moved = {} \/ Reduces(left, after)
    BY <1>2 DEF Reduces
  <1>6. CASE losses = {}
    <2>1. all = departed
      BY <1>6
    <2> QED BY <1>3, <1>4, <1>6, <1>5, <2>1 DEF after
  <1>7. CASE losses # {}
    <2>1. all \in SUBSET Player
      OBVIOUS
    <2> HIDE DEF all
    <2>2. cleaned \in Board /\ Sound(cleaned) /\ Follows(after, cleaned) /\ Clears(after, cleaned)
          /\ Free(cleaned, all)
      BY <1>3, <2>1, CleanupIs
    <2> HIDE DEF cleaned
    <2>3. Follows(left, cleaned) /\ Clears(left, cleaned)
      BY <1>3, <2>2, FollowsTransitive
    <2>4. moved = {} \/ Reduces(left, cleaned)
      BY <1>3, <1>5, <2>2, ReducesOn
    <2> QED BY <1>7, <2>2, <2>3, <2>4 DEF after, all, cleaned
  <1> QED BY <1>6, <1>7

LEMMA PassIs ==
  ASSUME SBInv, Pass
  PROVE  LET returned == ReturnUntilSourceLeavesExiles(board)
             read == ReadEvents(returned)
             before == SettleDepartedControl(Expire(read), out)
             losses == doomed \ out
         IN \E x \in Board, fallen \in Departures(before) :
              /\ board' = x /\ Sound(x) /\ Free(x, out \union losses)
              /\ Follows(before, x) /\ Follows(read, x) /\ Clears(read, x)
              /\ step' \in {"checking", "settled"}
              /\ step' = "settled" =>
                   /\ fallen = {} /\ losses = {} /\ Released(board) = {}
                   /\ before = read /\ x = read
              /\ step' = "checking" => losses # {} \/ Released(board) # {} \/ Reduces(read, x)
  <1> DEFINE returned == ReturnUntilSourceLeavesExiles(board)
             read == ReadEvents(returned)
             before == SettleDepartedControl(Expire(read), out)
             asked == {o \in returned.arrivals : Same(before, o) /\ Owner[o.card] \notin out}
             losses == doomed \ out
  <1>1. PICK accepted \in SUBSET asked, fallen \in Departures(before) :
          LET left == SettleDepartedControl(Send(before, fallen, "graveyard"), out)
              moved == {o.card : o \in {a \in accepted : Same(left, a)}}
              after == Send(left, moved, "command")
          IN /\ board' = IF losses = {} THEN after ELSE CleanupEliminated(after, out \union losses)
             /\ step' = IF \/ Changed(fallen \union moved, losses)
                           \/ before # read \/ Released(board) # {}
                        THEN "checking" ELSE "settled"
    BY DEF Pass
  <1> DEFINE left == SettleDepartedControl(Send(before, fallen, "graveyard"), out)
             moved == {o.card : o \in {a \in accepted : Same(left, a)}}
             after == Send(left, moved, "command")
             x == IF losses = {} THEN after ELSE CleanupEliminated(after, out \union losses)
  <1>2. /\ board' = x
        /\ step' = IF \/ Changed(fallen \union moved, losses)
                      \/ before # read \/ Released(board) # {}
                   THEN "checking" ELSE "settled"
    BY <1>1
  <1>3. /\ board \in Board /\ Sound(board) /\ Free(board, out) /\ out \in SUBSET Player
        /\ losses \in SUBSET Player
    BY NothingIsFree DEF SBInv, SBTypeOK
  <1>4. accepted \subseteq returned.arrivals
    OBVIOUS
  <1>5. \A c \in moved : \E o \in accepted : o.card = c /\ Same(left, o)
    OBVIOUS
  <1>6. x = IF losses = {} THEN Send(left, moved, "command")
            ELSE CleanupEliminated(Send(left, moved, "command"), out \union losses)
    OBVIOUS
  <1> HIDE DEF moved, losses, x, asked
  <1>7. returned \in Board /\ Sound(returned) /\ Free(returned, out)
    BY <1>3, ReturnIs
  <1> HIDE DEF returned
  <1>8. /\ read \in Board /\ Sound(read) /\ read = [returned EXCEPT !.arrivals = {}]
        /\ before \in Board /\ Sound(before) /\ Follows(read, before) /\ Clears(read, before)
        /\ Filtered(before) = before /\ Orphans(before, out) = {} /\ Free(before, out)
        /\ before = read \/ Reduces(read, before)
    BY <1>3, <1>7, ReadingIs
  <1>9. read.version = returned.version /\ read.zone = returned.zone
    BY <1>7, <1>8 DEF Board
  <1> HIDE DEF read, before
  <1>10. /\ left \in Board /\ Sound(left) /\ Follows(before, left) /\ Clears(before, left)
         /\ Free(left, out) /\ (fallen = {} => left = before)
         /\ fallen = {} \/ Reduces(before, left)
    BY <1>3, <1>8, DepartingIs
  <1> HIDE DEF left
  <1>11. Follows(read, left) /\ Clears(read, left)
    BY <1>8, <1>10, FollowsTransitive
  <1>12. ASSUME NEW c \in moved PROVE c \in Card /\ left.zone[c] \in Public
    <2>1. PICK o \in accepted : o.card = c /\ Same(left, o)
      BY <1>5
    <2>2. o \in returned.arrivals /\ o.card \in Card /\ o.version \in Nat
      BY <1>4, <1>7, Boards DEF Object
    <2>3. o.version <= returned.version[c] /\ (returned.version[c] = o.version => returned.zone[c] \in Public)
      BY <1>7, <2>1, <2>2 DEF Sound, Same
    <2>4. /\ left.version[c] = o.version /\ read.version[c] <= left.version[c]
          /\ read.version[c] \in Nat
          /\ left.version[c] = read.version[c] => left.zone[c] = read.zone[c]
      <3>1. left.version[c] = o.version
        BY <2>1 DEF Same
      <3>2. read.version \in [Card -> Nat]
        BY <1>8, Boards
      <3>3. /\ read.version[c] <= left.version[c]
            /\ left.version[c] = read.version[c] => left.zone[c] = read.zone[c]
        BY <1>11, <2>1, <2>2 DEF Follows
      <3> QED BY <2>1, <2>2, <3>1, <3>2, <3>3
    <2>5. left.zone[c] \in Public
      BY <1>9, <2>2, <2>3, <2>4
    <2> QED BY <2>1, <2>2, <2>5
  <1>13. moved \in SUBSET Card
    BY <1>12
  <1>14. /\ x \in Board /\ Sound(x) /\ Follows(left, x) /\ Clears(left, x)
         /\ Free(x, out \union losses) /\ (moved = {} /\ losses = {} => x = left)
         /\ moved = {} \/ Reduces(left, x)
    BY <1>3, <1>6, <1>10, <1>12, <1>13, LeavingIs
  <1>15. Follows(before, x) /\ Follows(read, x) /\ Clears(read, x)
    BY <1>8, <1>10, <1>11, <1>14, FollowsTransitive
  <1>16. step' \in {"checking", "settled"}
    BY <1>2
  <1>17. ASSUME step' = "settled"
         PROVE  /\ fallen = {} /\ losses = {} /\ Released(board) = {}
                /\ before = read /\ x = read
    <2>1. fallen \union moved = {} /\ losses = {} /\ before = read /\ Released(board) = {}
      BY <1>2, <1>17 DEF Changed
    <2>2. fallen = {} /\ moved = {}
      BY <2>1
    <2> QED BY <1>10, <1>14, <2>1, <2>2
  <1>18. ASSUME step' = "checking"
         PROVE  losses # {} \/ Released(board) # {} \/ Reduces(read, x)
    <2>1. fallen # {} \/ moved # {} \/ losses # {} \/ before # read \/ Released(board) # {}
      BY <1>2, <1>18 DEF Changed
    <2>2. CASE before # read \/ fallen # {}
      <3>1. Reduces(read, left)
        BY <1>8, <1>10, <2>2, ReducesOn
      <3> QED BY <1>11, <1>14, <3>1, ReducesOn
    <2>3. CASE moved # {}
      BY <1>11, <1>14, <2>3, ReducesOn
    <2> QED BY <2>1, <2>2, <2>3
  <1>19. \E y \in Board, f \in Departures(before) :
           /\ board' = y /\ Sound(y) /\ Free(y, out \union losses)
           /\ Follows(before, y) /\ Follows(read, y) /\ Clears(read, y)
           /\ step' \in {"checking", "settled"}
           /\ step' = "settled" =>
                /\ f = {} /\ losses = {} /\ Released(board) = {}
                /\ before = read /\ y = read
           /\ step' = "checking" => losses # {} \/ Released(board) # {} \/ Reduces(read, y)
    BY <1>2, <1>14, <1>15, <1>16, <1>17, <1>18
  <1> QED BY <1>19 DEF returned, read, before, losses

\* When a pass has done nothing, everyone keeps the one namesake they have.
LEMMA KeptAlone ==
  ASSUME NEW b, {} \in Departures(b)
  PROVE  /\ b.dying = {}
         /\ \A c, d \in Namesake \intersect Field(b) : Controller(b, c) = Controller(b, d) => c = d
  <1>1. PICK kept \in Keepers(b) : {} = b.dying \union ((Namesake \intersect Field(b)) \ kept)
    BY DEF Departures
  <1> DEFINE legends == Namesake \intersect Field(b)
  <1>2. b.dying = {} /\ legends \subseteq kept
    BY <1>1
  <1>3. \A c \in legends : \E one \in legends :
          {d \in kept : Controller(b, d) = Controller(b, c)} = {one}
    BY DEF Keepers
  <1> HIDE DEF legends
  <1>4. ASSUME NEW c \in legends, NEW d \in legends, Controller(b, c) = Controller(b, d) PROVE c = d
    <2>1. PICK one \in legends : {e \in kept : Controller(b, e) = Controller(b, c)} = {one}
      BY <1>3
    <2>2. c \in {one} /\ d \in {one}
      BY <1>2, <1>4, <2>1
    <2> QED BY <2>2
  <1> QED BY <1>2, <1>4 DEF legends

LEMMA PassKeeps == ASSUME SBInv, Pass PROVE SBInv'
  <1> DEFINE returned == ReturnUntilSourceLeavesExiles(board)
             read == ReadEvents(returned)
             before == SettleDepartedControl(Expire(read), out)
             asked == {o \in returned.arrivals : Same(before, o) /\ Owner[o.card] \notin out}
             losses == doomed \ out
  <1>1. PICK x \in Board, fallen \in Departures(before) :
          /\ board' = x /\ Sound(x) /\ Free(x, out \union losses)
          /\ Follows(before, x) /\ Follows(read, x) /\ Clears(read, x)
          /\ step' \in {"checking", "settled"}
          /\ step' = "settled" =>
               /\ fallen = {} /\ losses = {} /\ Released(board) = {}
               /\ before = read /\ x = read
    BY PassIs
  <1>2. /\ out' = out \union losses /\ UNCHANGED <<doomed, effects, jailed>>
        /\ passes < MaxPasses /\ passes' = IF step' = "checking" THEN passes + 1 ELSE 0
        /\ offers' = [c \in Card |-> IF \E o \in asked : o.card = c
                                      THEN Append(offers[c], before.version[c]) ELSE offers[c]]
    BY DEF Pass
  <1>3. /\ SBTypeOK /\ Sound(board) /\ Free(board, out) /\ board \in Board /\ out \in SUBSET Player
        /\ Recalled(board, jailed) /\ Noticed(board, offers)
        /\ jailed \in SUBSET [source : Object, object : Object] /\ offers \in [Card -> Seq(Nat)]
        /\ losses \in SUBSET Player
    BY NothingIsFree DEF SBInv, SBTypeOK
  <1>4. asked = Asked(returned, before, out) /\ offers' = Told(offers, before, asked)
    BY <1>2 DEF Asked, Told
  <1>5. out' = out => losses = {}
    <2>1. losses \intersect out = {}
      OBVIOUS
    <2> QED BY <1>2, <2>1
  <1>6. losses = {} => doomed \subseteq out
    OBVIOUS
  <1> HIDE DEF losses, asked
  <1>7. /\ returned \in Board /\ Sound(returned) /\ Follows(board, returned) /\ Free(returned, out)
        /\ (Released(board) = {} => returned = board)
    BY <1>3, ReturnIs
  <1> HIDE DEF returned
  <1>8. /\ read \in Board /\ Sound(read) /\ read = [returned EXCEPT !.arrivals = {}]
        /\ before \in Board /\ Follows(read, before)
        /\ Filtered(before) = before
    BY <1>3, <1>7, ReadingIs
  <1> HIDE DEF read, before
  <1>9. /\ read.zone = returned.zone /\ read.version = returned.version /\ read.arrivals = {}
        /\ read.exiles = returned.exiles
    BY <1>7, <1>8 DEF Board
  <1>10. Recalled(returned, jailed) /\ Noticed(returned, offers) /\ Buried(returned, out)
    <2>1. Recalled(returned, jailed)
      BY <1>3, <1>7, RecalledKept
    <2>2. Noticed(returned, offers)
      BY <1>3, <1>7, NoticedKept
    <2>3. Buried(returned, out)
      BY <1>7 DEF Free, Buried
    <2> QED BY <2>1, <2>2, <2>3
  <1>11. Recalled(x, jailed)
    <2>1. Recalled(read, jailed)
      BY <1>9, <1>10 DEF Recalled, Same
    <2> QED BY <1>1, <1>3, <1>8, <2>1, RecalledKept
  <1>12. offers' \in [Card -> Seq(Nat)] /\ Noticed(x, offers')
    <2> DEFINE told == Told(offers, before, asked)
    <2>1. Follows(before, x) /\ Follows(read, x)
      BY <1>1
    <2>2. offers \in [Card -> Seq(Nat)]
      BY <1>3
    <2>3. returned \in Board /\ Sound(returned) /\ read \in Board /\ before \in Board /\ Follows(read, before)
      BY <1>7, <1>8
    <2>4. told \in [Card -> Seq(Nat)] /\ Noticed(x, told)
      BY <1>4, <1>9, <1>10, <2>1, <2>2, <2>3, AskingIsNoticed
    <2> QED BY <1>4, <2>4
  <1>13. SBTypeOK'
    <2>1. passes' \in 0..MaxPasses
      BY <1>2, <1>3, StateBasedActionsAssumption DEF SBTypeOK
    <2> HIDE DEF Board, Object
    <2> QED BY <1>1, <1>2, <1>3, <1>12, <2>1 DEF SBTypeOK
  <1>14. Sound(board)' /\ Recalled(board, jailed)'
    BY <1>1, <1>2, <1>11 DEF Sound, Recalled, Same, Field
  <1>15. Noticed(board, offers)'
    BY <1>1, <1>12 DEF Noticed, Now
  <1>16. Field(board)' = Field(x) /\ \A c \in Card : Controller(board, c)' = Controller(x, c)
    BY <1>1 DEF Field, Controller, ControllerBy, Now
  <1>17. NothingOfTheDeparted'
    BY <1>1, <1>2, <1>16 DEF NothingOfTheDeparted, Free
  <1>18. CASE step' = "checking"
    BY <1>13, <1>14, <1>15, <1>17, <1>18 DEF SBInv, SettledIsSettled
  <1>19. CASE step' = "settled"
    <2>1. /\ {} \in Departures(x) /\ losses = {} /\ Released(board) = {} /\ x = read
          /\ Filtered(x) = x
      BY <1>1, <1>8, <1>19
    <2>2. /\ x.dying = {}
          /\ \A c, d \in Namesake \intersect Field(x) : Controller(x, c) = Controller(x, d) => c = d
      BY <2>1, KeptAlone
    <2>3. ASSUME NEW j \in jailed, Same(x, j.object), x.zone[j.object.card] = "exile"
          PROVE  OnField(x, j.source)
      <3>1. PICK r \in x.exiles : r.source = j.source
        BY <1>11, <2>3 DEF Recalled
      <3>2. /\ x.exiles = board.exiles /\ x.version = board.version /\ x.zone = board.zone
        BY <1>7, <1>9, <2>1
      <3>3. OnField(board, r.source)
        BY <2>1, <3>1, <3>2 DEF Released
      <3> QED BY <3>1, <3>2, <3>3 DEF OnField, Same, Field
    <2>4. \A g \in x.grants : Lasts(x, x.grants, g)
      BY <1>1, <2>1, FilteredIs DEF Sound
    <2>5. \A g \in x.grants : Lasts(board, board.grants, g)' <=> Lasts(x, x.grants, g)
      BY <1>1, <1>16 DEF Lasts, OnField, Same, ControllerBy, Now
    <2>6. \A j \in jailed :
            /\ OnField(board, j.source)' <=> OnField(x, j.source)
            /\ Same(board, j.object)' <=> Same(x, j.object)
      BY <1>1, <1>2, <1>16 DEF OnField, Same
    <2>7. Namesake \subseteq Card
      BY StateBasedActionsAssumption
    <2>8. (doomed \subseteq out)'
      BY <1>2, <1>6, <2>1
    <2>9. (\A c, d \in Namesake \intersect Field(board) :
             Controller(board, c) = Controller(board, d) => c = d)'
      BY <1>16, <2>2, <2>7 DEF Field
    <2>10. (\A j \in jailed :
              Same(board, j.object) /\ board.zone[j.object.card] = "exile" => OnField(board, j.source))'
      BY <1>1, <1>2, <2>3, <2>6
    <2>11. (board.dying = {} /\ \A g \in board.grants : Lasts(board, board.grants, g))'
      BY <1>1, <2>2, <2>4, <2>5
    <2>12. SettledIsSettled'
      BY <2>8, <2>9, <2>10, <2>11 DEF SettledIsSettled
    <2>13. board'.arrivals = {}
      BY <1>1, <1>9, <2>1
    <2> QED BY <1>13, <1>14, <1>15, <1>17, <2>12, <2>13 DEF SBInv
  <1> QED BY <1>1, <1>18, <1>19

LEMMA SBInvStep == ASSUME SBInv, [SBNext]_SBvars PROVE SBInv'
  <1>1. CASE \E c \in Card : Move(c)
    BY <1>1, MoveKeeps
  <1>2. CASE \E c \in Card, p \in Player : Put(c, p)
    BY <1>2, PutKeeps
  <1>3. CASE \E j \in Jailer, cards \in SUBSET Field(board) : Cardinality(cards) \in 1..2 /\ Jail(j, cards)
    <2>1. Jailer \subseteq Card
      BY StateBasedActionsAssumption
    <2> QED BY <1>3, <2>1, JailKeeps
  <1>4. CASE \E t \in Thief, c \in Field(board) : Seize(t, c)
    <2>1. Thief \subseteq Card
      BY StateBasedActionsAssumption
    <2> QED BY <1>4, <2>1, SeizeKeeps
  <1>5. CASE \E cards \in SUBSET Field(board), players \in SUBSET (Player \ out) :
               Cardinality(cards) + Cardinality(players) \in 1..2 /\ Harm(cards, players)
    BY <1>5, HarmKeeps
  <1>6. CASE BeginCheck
    BY <1>6, StandingKeeps DEF BeginCheck
  <1>7. CASE Pass
    BY <1>7, PassKeeps
  <1>8. CASE UNCHANGED SBvars
    BY <1>8, StandingKeeps DEF SBvars
  <1> QED BY <1>1, <1>2, <1>3, <1>4, <1>5, <1>6, <1>7, <1>8 DEF SBNext

\* The inductive invariant holds: what damage, grants and the log refer to, what the
\* records of exile remember and what the offers have reached agree with the board.
THEOREM SBInvariant == SBSpec => []SBInv
  <1>1. SBInit => SBInv
    BY SBInvInit
  <1>2. SBInv /\ [SBNext]_SBvars => SBInv'
    BY SBInvStep
  <1> QED BY <1>1, <1>2, PTL DEF SBSpec

\* The departed own nothing that is left and control nothing: NothingOfTheDeparted
\* of settleDepartedControl and cleanupEliminatedPlayer, for any cards and grants.
THEOREM NothingIsLeft == SBSpec => []NothingOfTheDeparted
  <1>1. SBInv => NothingOfTheDeparted
    BY DEF SBInv
  <1> QED BY <1>1, SBInvariant, PTL

\* When a check has ended nothing is left for it to do: SettledIsSettled of the
\* loop of applyStateBasedActionsWithOutcome.
THEOREM ChecksSettle == SBSpec => []SettledIsSettled
  <1>1. SBInv => SettledIsSettled
    BY DEF SBInv
  <1> QED BY <1>1, SBInvariant, PTL

\* The owner of a commander is asked once for each arrival in a graveyard or in
\* exile, before anybody gets priority: EachArrivalIsOfferedOnce of
\* pendingCommanderZoneActions.
THEOREM ArrivalsAreOffered == SBSpec => []EachArrivalIsOfferedOnce
  <1>1. ASSUME SBInv, NEW c \in Commander
        PROVE  /\ \A i, k \in DOMAIN offers[c] : i < k => offers[c][i] < offers[c][k]
               /\ step = "settled" /\ board.version[c] > 0 /\ board.zone[c] \in Public =>
                    offers[c] # <<>> /\ offers[c][Len(offers[c])] = board.version[c]
    <2>1. c \in Card
      BY StateBasedActionsAssumption
    <2>2. offers[c] \in Seq(Nat) /\ DOMAIN offers[c] = 1..Len(offers[c])
      BY <1>1, <2>1 DEF SBInv, SBTypeOK
    <2>3. LET last == Len(offers[c])
          IN /\ \A i, k \in 1..last : i < k => offers[c][i] < offers[c][k]
             /\ board.version[c] > 0 /\ board.zone[c] \in Public =>
                  Now(board, c) \in board.arrivals \/ (last > 0 /\ offers[c][last] = board.version[c])
      BY <1>1 DEF SBInv, Noticed
    <2>4. step = "settled" => board.arrivals = {}
      BY <1>1 DEF SBInv
    <2> HIDE DEF Public
    <2> QED BY <2>2, <2>3, <2>4
  <1>2. SBInv => EachArrivalIsOfferedOnce
    BY <1>1 DEF EachArrivalIsOfferedOnce
  <1> QED BY <1>2, SBInvariant, PTL

\* A check takes out of exile only what a permanent that has left had exiled, as
\* the object it still is, and under its owner: ComesBackAsItLeft of
\* ReturnUntilSourceLeavesExiles.
THEOREM ExilesComeBack == SBSpec => ComesBackAsItLeft
  <1> DEFINE Back(c) ==
        board.zone[c] = "exile" /\ c \in Field(board)' =>
          /\ \E j \in jailed : j.object = Now(board, c) /\ ~OnField(board, j.source)
          /\ board'.base[c] = Owner[c]
  <1>1. ASSUME SBInv, Pass, NEW c \in Card, board.zone[c] = "exile", c \in Field(board)'
        PROVE  /\ \E j \in jailed : j.object = Now(board, c) /\ ~OnField(board, j.source)
               /\ board'.base[c] = Owner[c]
    <2> DEFINE returned == ReturnUntilSourceLeavesExiles(board)
               read == ReadEvents(returned)
    <2>1. PICK x \in Board : board' = x /\ Follows(read, x) /\ Clears(read, x)
      BY <1>1, PassIs
    <2>2. board \in Board /\ Sound(board) /\ Recalled(board, jailed)
      BY <1>1 DEF SBInv, SBTypeOK
    <2>3. /\ returned \in Board /\ Follows(board, returned)
          /\ board.zone[c] # "battlefield" /\ returned.zone[c] = "battlefield" =>
               \E r \in Released(board) : Now(board, c) \in r.held
      BY <2>2, ReturnIs
    <2> HIDE DEF returned
    <2>4. read.zone = returned.zone /\ read.version = returned.version /\ read.base = returned.base
      BY <2>3 DEF ReadEvents, Board
    <2> HIDE DEF read
    <2>5. x.zone[c] = "battlefield"
      BY <1>1, <2>1 DEF Field
    <2>6. x.version[c] = read.version[c]
      BY <2>1, <2>5 DEF Clears
    <2>7. x.zone[c] = returned.zone[c] /\ x.base[c] = returned.base[c]
      BY <2>1, <2>4, <2>6 DEF Follows
    <2>8. PICK r \in Released(board) : Now(board, c) \in r.held
      BY <1>1, <2>3, <2>5, <2>7
    <2>9. r \in board.exiles /\ ~OnField(board, r.source)
      BY <2>8 DEF Released
    <2>10. PICK j \in jailed : j.source = r.source /\ j.object = Now(board, c)
      <3>1. [source |-> r.source, object |-> Now(board, c)] \in jailed
        BY <2>2, <2>8, <2>9 DEF Recalled
      <3> QED BY <3>1
    <2>11. returned.base[c] = Owner[c]
      BY <1>1, <2>3, <2>5, <2>7 DEF Follows
    <2> QED BY <2>1, <2>7, <2>9, <2>10, <2>11
  <1>2. SBInv /\ [SBNext]_SBvars => [Pass => \A c \in Card : Back(c)]_SBvars
    BY <1>1
  <1> QED BY <1>2, SBInvariant, PTL DEF SBSpec, ComesBackAsItLeft

\* Where nothing comes, less to do on the whole too.
LEMMA ReducedIs ==
  ASSUME NEW b \in Board, Sound(b), NEW x, Follows(b, x), Clears(b, x)
  PROVE  LET most == Cardinality(b.grants) + Cardinality(Field(b)) + Cardinality(Around(b))
             less == Cardinality(x.grants) + Cardinality(Field(x)) + Cardinality(Around(x))
         IN /\ most \in Nat /\ less \in Nat /\ less <= most
            /\ Reduces(b, x) => less < most
  <1>1. x.grants \subseteq b.grants /\ Field(x) \subseteq Field(b) /\ Around(x) \subseteq Around(b)
    BY ClearsIs
  <1>2. IsFiniteSet(b.grants) /\ IsFiniteSet(Field(b))
    BY WeightIs
  <1>3. IsFiniteSet(Around(b))
    <2>1. Around(b) \subseteq Card
      BY DEF Around
    <2> QED BY <2>1, StateBasedActionsAssumption, Fewer
  <1>4. /\ Cardinality(b.grants) \in Nat /\ Cardinality(x.grants) \in Nat
        /\ Cardinality(x.grants) <= Cardinality(b.grants)
        /\ x.grants # b.grants => Cardinality(x.grants) < Cardinality(b.grants)
    BY <1>1, <1>2, Fewer
  <1>5. /\ Cardinality(Field(b)) \in Nat /\ Cardinality(Field(x)) \in Nat
        /\ Cardinality(Field(x)) <= Cardinality(Field(b))
        /\ Field(x) # Field(b) => Cardinality(Field(x)) < Cardinality(Field(b))
    BY <1>1, <1>2, Fewer
  <1>6. /\ Cardinality(Around(b)) \in Nat /\ Cardinality(Around(x)) \in Nat
        /\ Cardinality(Around(x)) <= Cardinality(Around(b))
        /\ Around(x) # Around(b) => Cardinality(Around(x)) < Cardinality(Around(b))
    BY <1>1, <1>3, Fewer
  <1> QED BY <1>4, <1>5, <1>6 DEF Reduces

\* The passes of a check run out, for any cards, grants and exiles: PassesRunOut of
\* the loop that panics after maxStateBasedActionPasses.
THEOREM PassesEnd == SBSpec => PassesRunOut
  <1>1. ASSUME SBInv, Pass, step' = "checking"
        PROVE  \/ Cardinality(board'.exiles) < Cardinality(board.exiles)
               \/ board'.exiles = board.exiles /\ Remaining' < Remaining
    <2> DEFINE returned == ReturnUntilSourceLeavesExiles(board)
               read == ReadEvents(returned)
               losses == doomed \ out
    <2>1. PICK x \in Board :
            /\ board' = x /\ Follows(read, x) /\ Clears(read, x)
            /\ losses # {} \/ Released(board) # {} \/ Reduces(read, x)
      BY <1>1, PassIs
    <2>2. out' = out \union losses /\ doomed' = doomed
      BY <1>1 DEF Pass
    <2>3. /\ ~(doomed \subseteq out) <=> losses # {}
          /\ doomed' \subseteq out'
      BY <2>2
    <2>4. board \in Board /\ Sound(board) /\ Free(board, out) /\ out \in SUBSET Player
      BY <1>1, NothingIsFree DEF SBInv, SBTypeOK
    <2> HIDE DEF losses
    <2>5. CASE Released(board) = {}
      <3>1. returned = board
        BY <2>4, <2>5, ReturnIs
      <3> HIDE DEF returned
      <3>2. read \in Board /\ Sound(read) /\ read = [board EXCEPT !.arrivals = {}]
        BY <2>4, <3>1, ReadingIs
      <3> HIDE DEF read
      <3>3. read.zone = board.zone /\ read.grants = board.grants /\ read.exiles = board.exiles
        BY <2>4, <3>2 DEF Board
      <3>4. Field(read) = Field(board) /\ Around(read) = Around(board)
        BY <3>3 DEF Field, Around
      <3> DEFINE most == Cardinality(board.grants) + Cardinality(Field(board)) + Cardinality(Around(board))
                 less == Cardinality(x.grants) + Cardinality(Field(x)) + Cardinality(Around(x))
      <3>5. most \in Nat /\ less \in Nat /\ less <= most /\ (Reduces(read, x) => less < most)
        BY <2>1, <3>2, <3>3, <3>4, ReducedIs
      <3>6. /\ Remaining = most + (IF losses = {} THEN 0 ELSE 1)
            /\ Remaining' = less
        BY <2>1, <2>3, <3>5 DEF Remaining, Field, Around
      <3>7. board'.exiles = board.exiles
        BY <2>1, <3>3 DEF Clears
      <3> HIDE DEF most, less
      <3> QED BY <2>1, <2>5, <3>5, <3>6, <3>7
    <2>6. CASE Released(board) # {}
      <3>1. returned.exiles = board.exiles \ Released(board)
        BY <2>4, ReturnIs
      <3>2. read.exiles = returned.exiles
        BY <2>4, ReturnIs DEF ReadEvents, Board
      <3> HIDE DEF returned, read
      <3>3. x.exiles \subseteq board.exiles /\ x.exiles # board.exiles
        BY <2>1, <2>6, <3>1, <3>2 DEF Clears, Released
      <3> QED BY <2>1, <2>4, <3>3, Fewer DEF Sound
    <2> QED BY <2>5, <2>6
  <1>2. SBInv /\ [SBNext]_SBvars =>
          [Pass /\ step' = "checking" =>
             \/ Cardinality(board'.exiles) < Cardinality(board.exiles)
             \/ board'.exiles = board.exiles /\ Remaining' < Remaining]_SBvars
    BY <1>1
  <1> QED BY <1>2, SBInvariant, PTL DEF SBSpec, PassesRunOut

=============================================================================
