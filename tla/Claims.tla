--------------------------------- MODULE Claims ---------------------------------
(***************************************************************************)
(* What a deposit-wallet batch moves and what it lets others move:         *)
(* polymarket/claim.rs against the batches polymarket/wallet.rs and        *)
(* relayer_actions.rs build, executed by the wallet on chain.              *)
(*                                                                         *)
(* Before a batch is signed its effects are computed: the pUSD it debits   *)
(* and the addresses that get pUSD or authority.  A batch whose effects    *)
(* cannot be stated is refused, which is all that the effects do: the      *)
(* claim the host gets declares nothing, because every class that batches  *)
(* are signed under is one the Broker reviews by itself (approval.rs).     *)
(* The chain is external: a batch runs as a whole or not at all, and       *)
(* whoever was given an allowance or made an operator may move the         *)
(* wallet's pUSD or positions at any later time.                           *)
(***************************************************************************)
EXTENDS Integers, SequencesExt

CONSTANTS None,
          Funds,        \* bound on the pUSD that reaches the wallet
          MaxAllowance, \* U256::MAX
          Floor,        \* allowance_floor: 2^160
          Callees       \* the addresses that single calls name

ClaimsConstants ==
  /\ Funds \in Nat /\ Floor \in Nat \ {0} /\ MaxAllowance \in Nat
  /\ Floor + Funds <= MaxAllowance

PUSD_SPENDERS == {"ctf_exchange", "neg_risk_exchange", "neg_risk_adapter",
                  "collateral_adapter", "neg_risk_collateral_adapter"}
CTF_OPERATORS == PUSD_SPENDERS \ {"neg_risk_adapter"}
Adapters == {"collateral_adapter", "neg_risk_collateral_adapter"}
Addresses == PUSD_SPENDERS \cup {"owner", "stranger"}

VARIABLES batch,      \* the prepared batch, a sequence of calls, or None
          effects,    \* the effects it is signed with, or None
          pusd, positions, allowance, operators,   \* the wallet on chain
          stated      \* every address the effects of a signed batch gave

wallet == <<pusd, positions, allowance, operators>>
vars == <<batch, effects, wallet, stated>>

Call == [op : {"operator"}, to : Callees, on : BOOLEAN, pol : {FALSE}]
        \cup [op : {"redeem", "other"}, to : Callees, pol : BOOLEAN]

Init ==
  /\ batch = None /\ effects = None
  /\ pusd = 0 /\ positions = TRUE
  /\ allowance = [s \in Addresses |-> 0] /\ operators = {}
  /\ stated = {}
--------------------------------------------------------------------------------
(* The batches: approve_amount_call, set_approval_for_all_value_call, ...  *)
Transfer(to, n) == [op |-> "transfer", to |-> to, amount |-> n, pol |-> FALSE]
Approve(to, n) == [op |-> "approve", to |-> to, amount |-> n, pol |-> FALSE]
Operator(to, on) == [op |-> "operator", to |-> to, on |-> on, pol |-> FALSE]
Redeem(to) == [op |-> "redeem", to |-> to, pol |-> FALSE]

CallsOver(spenders, n, on) ==
  LET approvals == SetToSeq(spenders)
      grants == SetToSeq(CTF_OPERATORS)
  IN [i \in DOMAIN approvals |-> Approve(approvals[i], n)]
       \o [i \in DOMAIN grants |-> Operator(grants[i], on)]

ApprovalCalls == CallsOver(PUSD_SPENDERS, MaxAllowance, TRUE)
RevokeCalls == CallsOver(PUSD_SPENDERS, 0, FALSE)

(* withdraw_amount: "all", or an amount within the balance, never zero.    *)
WithdrawAmounts == 1..pusd
--------------------------------------------------------------------------------
(* A slip: an operator is not named.                                       *)
NamesNoOperator(c) ==
  c.op \in {"transfer", "redeem"} \/ (c.op = "approve" /\ c.amount > 0)

(* A call whose effects can be stated.                                     *)
Known(c) ==
  \/ c.op = "transfer" /\ c.amount > 0
  \/ c.op = "approve" /\ c.to \in PUSD_SPENDERS
  \/ c.op = "operator" /\ c.to \in CTF_OPERATORS
  \/ c.op = "redeem" /\ c.to \in Adapters

Debit(c) == IF c.op = "transfer" THEN c.amount ELSE 0

(* The calls that move value or let someone move it give a destination.    *)
Names(c) ==
  \/ c.op \in {"transfer", "redeem"}
  \/ c.op = "approve" /\ c.amount > 0
  \/ c.op = "operator" /\ c.on

(* wallet_batch_effects.                                                   *)
Effects(calls) ==
  LET called == {calls[i] : i \in DOMAIN calls}
      naming == {c \in called : Names(c)}
  IN IF calls = <<>> \/ \E c \in called : c.pol \/ ~Known(c) THEN None
     ELSE [moves |-> naming # {},
           debit |-> FoldLeft(LAMBDA sum, c : sum + Debit(c), 0, calls),
           to |-> {c.to : c \in naming}]

ClaimEffects ==
  [moves : BOOLEAN, debit : 0..MaxAllowance, to : SUBSET (Addresses \ {"stranger"})]

TypeOK ==
  /\ effects \in ClaimEffects \cup {None}
  /\ pusd \in 0..Funds /\ positions \in BOOLEAN
  /\ allowance \in [Addresses -> 0..MaxAllowance] /\ operators \subseteq Addresses
  /\ stated \subseteq Addresses
--------------------------------------------------------------------------------
Prepare(calls) ==
  /\ batch = None
  /\ batch' = calls
  /\ UNCHANGED <<effects, wallet, stated>>

(* calls_for and the approval batch; and, as a record read back from the   *)
(* store, any single call: wallet_batch_effects must refuse what it cannot *)
(* state.                                                                  *)
PrepareSome ==
  \/ Prepare(ApprovalCalls) \/ Prepare(RevokeCalls)
  \/ \E a \in Adapters : Prepare(<<Redeem(a)>>)
  \/ \E n \in WithdrawAmounts : Prepare(<<Transfer("owner", n)>>)
  \/ \E c \in Call : Prepare(<<c>>)
  \/ \E a \in Callees, n \in {0, MaxAllowance} : Prepare(<<Approve(a, n)>>)

(* What the claim a batch is signed under may declare.                     *)
BROKER_REVIEWED_CLASSES ==
  {"polymarket.order.poly1271", "polymarket.relayer_batch", "polymarket.onboard"}
MovesNothing == [moves |-> FALSE, debit |-> 0, to |-> {}]
Declarable(class, e) == IF class \in BROKER_REVIEWED_CLASSES THEN MovesNothing ELSE e

(* The claim the host gets with the batch being signed.                    *)
Class == IF batch = ApprovalCalls THEN "polymarket.onboard" ELSE "polymarket.relayer_batch"
Presented == Declarable(Class, effects)

(* prepared_batch_effects, for the hash being signed.                      *)
Sign ==
  /\ batch # None /\ effects = None
  /\ LET e == Effects(batch) IN
     IF e = None THEN batch' = None /\ UNCHANGED <<effects, stated>>
     ELSE /\ effects' = e
          /\ stated' = stated \cup e.to
          /\ UNCHANGED batch
  /\ UNCHANGED wallet

Transferred == FoldLeft(LAMBDA sum, c : sum + (IF c.op = "transfer" THEN c.amount ELSE 0),
                        0, batch)

(* The last call of the batch about s decides, if there is one.            *)
CallsAbout(op, s) == {i \in DOMAIN batch : batch[i].op = op /\ batch[i].to = s}
LastAbout(op, s) == batch[Max(CallsAbout(op, s))]

Executed ==
  /\ pusd' = pusd - Transferred
  /\ positions' = (positions /\ ~\E i \in DOMAIN batch : batch[i].op = "redeem")
  /\ allowance' = [s \in Addresses |->
       IF CallsAbout("approve", s) = {} THEN allowance[s] ELSE LastAbout("approve", s).amount]
  /\ operators' = {s \in Addresses :
       IF CallsAbout("operator", s) = {} THEN s \in operators ELSE LastAbout("operator", s).on}

(* The relayer executes the signed batch, or it reverts or expires.        *)
Execute ==
  /\ effects # None
  /\ \/ pusd >= Transferred /\ Executed
     \/ UNCHANGED wallet
  /\ batch' = None /\ effects' = None
  /\ UNCHANGED stated

(* A trade settles: a spender takes pUSD, an operator a position.          *)
Take(s) ==
  /\ \/ /\ pusd > 0 /\ allowance[s] > 0
        /\ pusd' = pusd - 1
        /\ allowance' = [allowance EXCEPT ![s] = @ - 1]
        /\ UNCHANGED positions
     \/ /\ s \in operators /\ positions
        /\ positions' = FALSE
        /\ UNCHANGED <<pusd, allowance>>
  /\ UNCHANGED <<operators, batch, effects, stated>>

(* pUSD reaches the wallet, Funds of it in all.                            *)
Arrive ==
  /\ pusd = 0 /\ \A s \in Addresses : allowance[s] = 0 \/ allowance[s] = MaxAllowance
  /\ pusd' = Funds
  /\ UNCHANGED <<positions, allowance, operators, batch, effects, stated>>

Next == PrepareSome \/ Sign \/ Execute \/ Arrive \/ \E s \in Addresses : Take(s)

Spec == Init /\ [][Next]_vars
--------------------------------------------------------------------------------
(* read_chain_approvals: what onboarding takes for "approved".             *)
ApprovalsRead ==
  /\ \A s \in PUSD_SPENDERS : allowance[s] >= Floor
  /\ \A s \in CTF_OPERATORS : s \in operators

Authority == {s \in Addresses : allowance[s] > 0 \/ s \in operators}

(* Nobody but the five contracts of Polymarket ever can move the wallet's  *)
(* money or positions, whatever record a batch was signed from, and the    *)
(* effects of some signed batch gave each of them: "each spender is a      *)
(* destination".                                                           *)
AuthorityStated == Authority \subseteq stated \cap PUSD_SPENDERS

(* The signed batch executes, or reverts.                                  *)
Settles == effects # None /\ effects' = None

(* What a batch transfers is what its effects debit, to an address they    *)
(* give.                                                                   *)
TransfersDebited ==
  Settles /\ pusd' # pusd => pusd - pusd' = effects.debit /\ "owner" \in effects.to

(* Effects that move nothing are true: the batch neither moves anything    *)
(* nor lets anyone more move it.                                           *)
QuietIsQuiet ==
  Settles /\ ~effects.moves =>
    /\ pusd' = pusd /\ positions' = positions
    /\ Authority' \subseteq Authority

(* revoke_calls "revoke every grant onboarding made": whoever was granted  *)
(* anything by any batch, nobody is left when it executes.                 *)
RevokeIsTotal ==
  Settles /\ batch = RevokeCalls =>
    ~effects.moves /\ (Authority' = {} \/ UNCHANGED wallet)

(* Once the approval batch executes, the chain reads as approved, and      *)
(* still does however much is then taken under it, until a batch settles   *)
(* that revokes something.                                                 *)
GrantsSeen ==
  /\ Settles /\ batch = ApprovalCalls => ApprovalsRead' \/ UNCHANGED wallet
  /\ ApprovalsRead /\ ~Settles => ApprovalsRead'

(* "each signed Polymarket payload ..., as the Petal use claim states it"  *)
(* is not so of the claim presented with a batch: no run checks it.        *)
PresentedTells == effects # None => Presented = effects

(* All of it: the effects are those of the batch, whichever batches ran.   *)
EffectsHold ==
  [][AuthorityStated' /\ TransfersDebited /\ QuietIsQuiet /\ RevokeIsTotal /\ GrantsSeen]_vars
================================================================================
