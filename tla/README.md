# A TLA+ model of the Polymarket petal

This directory models the control logic of the petal in `src/route/src`: what it
writes to its private store, what it sends to the CLOB, in which order, and what
is left when an invocation is killed or a call fails between two of those steps.
TLC checks small instances; TLAPS proves the results of the section *Proofs* for
every value of the constants.

The petal is a set of routes. A write to a route (`trade/new`,
`drafts/{id}/revalidate`, `drafts/{id}/post`, ...) is one *invocation* of a
function. It keeps nothing in memory between invocations. All durable state is a
key-value store (`store_get`, `store_put`, `store_put_new`, `store_del`,
`store_del_if_value`, `store_list`); each of those calls is atomic and nothing
larger is. Several invocations may run at once, each may be killed, each host call may
fail, and an answer from the venue may be lost.

## Inventory

| Component | State it keeps | Operations | Talks to | What is hard | What makes it correct |
|---|---|---|---|---|---|
| Wallet lock, `infra_parts/store.rs` | `trade/{wallet}/.lock` | take, break a stale one, release | store, clock, random | races on a stale body, killed and slow holders | one holder at a time; a fresh lock is never removed; an orphan is reaped |
| Trade drafts, `trade_flow_parts/{draft,revalidate,posting,storage}.rs` | `drafts/{id}/` order, review_intent, prepared_signing, approval, post_attempt | create, revalidate, post | lock, market reads, host signing, CLOB | a dozen writes per post, each of which may be the last; a market that moves; an agent that retries | one order per draft; only the acknowledged final review is sent; what the plan says is true |
| Receipts, audit, daily cap, `store.rs`, `policy.rs`, `reconcile.rs` | `receipts/{id}/receipt.json`, `audit.jsonl` | record an answer, sum the day's exposure | store, CLOB open orders | a lost answer; audit without receipt | every order the venue may have leaves a trace; the cap holds at the send |
| Cancelling, `posting.rs` | receipt, draft | cancel a receipt, cancel a discovered order | lock, CLOB | cancelled at the venue, not in the store | a cancelled receipt was cancelled |
| Venue configuration, `policy.rs` | `settings/{wallet}/venue.toml` | write | - | written without the lock | a post uses the one it checked |
| Approval and signing, `approval.rs` | prepared records, approval hints | sign, ask, retire a hint | host | an approval of another payload | a signature is over the stored order |
| Quotes and fees, `polymarket/{order,fees}.rs`, `pricing.rs` | - | rounding, bounds | - | ticks, ceilings, overflow | never above the price bound, never an unbounded fee |
| Onboarding, `onboarding/` | `onboard/{wallet}/` status, prepared batch, signature | begin, continue | CLOB, relayer, chain | submit before persist, failed and revoked transactions | at most one submission per stage in flight; an approval survives a retry |
| Relayer actions, `relayer_actions.rs` | prepared batch, progress, receipt | redeem, revoke, withdraw | relayer | no lock, submission marker, deletion order | a batch is submitted once; no state without an exit |
| Relayer client and configuration | builder keys, `relayer.toml` | submit, poll, repair a key | relayer | a key rejected in the middle of a submission | a repair never submits twice |
| Funding, `fund_flow.rs` | `fund/{wallet}/requests/{id}.json` and its lock | new, confirm | host outbox, chain, Enso | a staged transaction whose id was lost | a transaction is staged once |
| Reads, views, HTTP, crypto | - | - | - | - | read-only, or checked by known-answer tests |

`PROJECT.json` lists the components with their sources, and the hazards each of
them is exposed to.

## Modules

```
WalletLock                 what the lock promises          OneShot  what a value-moving item promises
  ^ implemented by            ^ used (EXTENDS)  ^            ^ implemented by     ^
StoreLock                  TradeFlow          Funding -------+              RelayerAction
                             |  --implements--> DraftLife
```

Modules that are checked and proved together are put side by side in one: `MCRelayer`,
`MCFunding`, `MCOnboarding`, `MCAmounts` and `TradeDay` EXTEND the first and INSTANCE the
others in constants and variables of their own (with names ending in a letter of the
module, `audit_d`, where they would clash). They name no values, a `.cfg` does, so what
is proved in the module that EXTENDS one of them is proved of what TLC is run on.
`MCTradeFlow`, `MCTradeLimits` and `MCProgress` are for TLC alone.

| Proof module | EXTENDS | Proves about | and, by INSTANCE, about |
|---|---|---|---|
| `WalletLockProofs` | `WalletLock` | `WalletLock` | |
| `StoreLockProofs` | `StoreLock` | `StoreLock` | `WalletLock` (the refinement) |
| `TradeFlowProofs` | `TradeFlow`, `WalletLockProofs` | `TradeFlow`: types, reviews, one order | |
| `TradeFlowRecords` | `TradeFlowProofs`, `TradeDay` | `TradeFlow`: receipts, accounting, the cap, `DraftLife` | `DailyCap` |
| `RelayerProofs` | `MCRelayer` | `RelayerAction`, `OneShot` | `BuilderKeys` |
| `FundingProofs` | `MCFunding`, `WalletLockProofs` | `Funding`, `OneShot` | `FundPlan` |
| `OnboardingProofs` | `MCOnboarding` | `Onboarding` | `Login` |
| `QuoteProofs` | `MCAmounts` | `Quote` | `Fees`, `OpenOrders`, `Claims` |

Modules that lay open what another one abstracts:

| Module | Abstracts it | What it lays open |
|---|---|---|
| `DailyCap` | `TradeFlow` | the moving 24 hours, and the limit of `audit.jsonl` |
| `OpenOrders` | `TradeFlow` | which open order is taken for the one sent |
| `Quote`, `Fees` | `TradeFlow` | what a quote is, and the fee bound it counts |
| `Login` | `Onboarding` | the reusable approval, its hint and its spent grant |
| `BuilderKeys` | `Onboarding`, `RelayerAction` | the key a relayer submission authenticates with |
| `Claims` | `Onboarding`, `RelayerAction` | the effects computed for a batch, and what it does |
| `FundPlan` | `Funding` | what the transactions of a session move |

`StoreLock` is `acquire_trade_lock` and `StoreTradeLock`, one store operation
per step. The key holds a *body* (a random token and a time), so a body is a
member of `Bodies` that nobody else uses, and time is the age of each body.
`PutNew`, `Inspect`, `RemoveStale` and `Release` are `store_put_new`,
`trade_lock_stale_bytes`, `store_del_if_value` and the `Drop`; `Fault` is a
killed invocation or a failed host call. `FundLock` is the same code under another key.

`WalletLock` is the abstract lock: `Take`, `Free`, `Die` (killed while holding),
`Reap` (a later call removes the orphan) and `Evict` (only with `SlowHolders`: a
live holder outlived `TRADE_LOCK_STALE_MS`). `StoreLock` is shown to implement
it and `TradeFlow` uses its actions, so the trade flow is checked against a
lock the code has.

`TradeFlow` is the life of a wallet account's drafts. Each invocation has a
program counter and a record of what it holds in memory (`mem`: the draft it
loaded, the review it checked, the order it prepared, the answer it heard), and
each store write and each call to the host or the venue is one step. The store
is one function per file of a draft. The venue is a function from salts to
orders; it may refuse, keep, match or kill an order, or receive it later than
the petal's timeout. The correspondence, in the order of the code:

| Steps | Code |
|---|---|
| `Create`, `CreateDraft`, `CreateReview` | `create_trade_draft`: `next_id` outside the lock, then two writes |
| `Revalidate`, `LoadForRevalidate`, `Clear*`, `ReviseLive`, `Preflight`, `DropReview`, `StageReview`, `StoreDraft` | `revalidate_trade_draft` |
| `Post`, `LoadForPost`, `Check*`, `Acknowledge`, `Prepare`, `Bind`, `PreparedAttempt`, `Sign`, `SignedAttempt`, `SignedDraft`, `Send` | `post_trade_draft` up to `POST /order` |
| `Reconcile`, `ReconcileAttempt`, `Audit`, `WriteReceipt`, `DropPrepared`, `DropApproval`, `AnswerDraft`, `AnswerAttempt` | its four branches; `After` is the order of the writes in each |
| `Cancel`, `LoadReceipt`, `CancelDelete`, `CancelReceipt`, `CancelDraft` | `cancel_trade_receipt`, `mark_trade_draft_cancelled` |
| `CancelDiscovered`, `CancelOpen` | `cancel_discovered_order` |
| `WriteVenueConfig` | `write_venue_config` |
| `BreakStaleLock`, `HostCallFails`, `Kill`, `VenueActs` | the lock's stale rule, a failed host call, a killed invocation, the CLOB |

`DraftLife` is the abstract life of a draft: open, denied, committed, done, and
how many orders left for it.

`RelayerAction` is `execute`: redeem, revoke and withdraw, one store operation or
relayer call a step, without a lock because the code takes none. A batch is its nonce
and its form, and its digest is the batch. The steps `Load`, `Build`, `StoreReview`,
`StorePrepared` are the first write; `Verify`, `ReadProgress`, `Sign`, `Mark`,
`Submit`, `Record` the submitting one; `Poll`, `Note`, `PutReceipt`, `Drop*` the later
ones; `Stop` is any early return or a kill, a lost answer included. `Settle` and
`OtherAction` are the relayer and the other batches of the wallet.

`Onboarding` is `begin_onboarding` and `continue_onboarding` with
`run_onboard_stages` (deploy, fund, approve, sync), and the readers of `status.json`,
which refresh and store it. `Misread` is a read of `status.json` that fails and counts as
one without ids; `Signing` is `relayer_batch_signature` over `sign_prepared`, with the
hint that the host refuses. `Login` is the middle of `begin_onboarding` in detail.

`Funding` is `create_fund_request` and `confirm_fund_request`: `Load`, `Prepare`,
`Inspect`, `Mark`, `Stage`, `Confirm`, `Save` under the session's lock, with the host's
outbox as the environment. `OneShot` is what both it and `RelayerAction` implement: an
item is unsent, sent once, and then done or failed, and never "twice". `FundPlan` is
`prepare_funding` and what its transactions do to the balances and the allowance.

`BuilderKeys` is `ensure_builder_credentials`, the repair in
`relayer_submit_configured` and `revoke_builder_key`. `Claims` is
`wallet_batch_effects` and `prepared_batch_effects` against the batches the petal builds
and a deposit wallet that executes them. These computed effects refuse a record that
nobody can state; the host is told none of them, since `declarable_effects`
(`approval.rs:86-102`) puts `moves_nothing` in their place for every class the petal signs
under (`Presented`; so nothing here says that the owner or the host saw them). An order's
fee bound is treated alike: what `Fees` shows of it is that it covers the fee in what the
petal itself counts against `max_order_usd` and `max_daily_usd`.

`Quote`, `Fees` and `OpenOrders` are computations. Their state is only what makes them
hard: a draft that is quoted again against another book, an order that fills in pieces,
an answer that lists rows one after the other. `DailyCap` is the post seen by a clock.

### Abstractions

- A *quote* stands for everything `review_intent_matches_draft` compares (limit
  price, size, maker, taker, fee, policy status, and a SELL's preflight fields)
  and is the order's cost in USD, amount plus fee bound. Every live read may see
  any quote.
- `review_intent_hash` is the review itself: two reviews are equal exactly when
  their hashes are.
- `quote.json` and `policy_check.json` are left out: no code reads them to decide
  anything. A failed write of one of them ends the invocation where the
  neighbouring step's failure does.
- The GTD refusals are left out: `create_trade_draft` admits no GTD draft.
- `append_trade_audit` reads the file and writes it back. It is one step because
  every caller holds the wallet's lock; with evicted holders a line could be lost,
  and no property that depends on `audited` is claimed there.
- In `TradeFlow` the receipts are those of one day (`DailyCap` has the clock), and
  the per-market rules of the policy are one switch, `enabled`.
- `mem[p].cap` is an auxiliary: the daily cap the post was checked against.
- In `TradeFlow` an open order is recognised by its salt; `OpenOrders` checks that
  this is what `open_order_matches_draft` amounts to. It takes salts for distinct,
  which they are but for a chance of 2^-53.
- `RelayerAction` leaves out `approval.json`: an exact approval of the same batch may
  sign again, so signing is a step that succeeds or ends the invocation.
- `Onboarding` keeps of `status.json` the two transaction ids, since the stage is
  computed afresh at every read. One `Login` approval stands for the reusable one.
- In `Login` the host is what the comments of `approval.rs` and `onboarding/mod.rs`
  say of it: one action per request identity, an eligibility action first, a
  spent grant kept for `APPROVAL_TTL_MS`. That `LOGIN_RETRY_WAIT_MS` is not below it
  is an assumption (`LoginConstants`), as the comment there has it.
- `FundPlan` leaves out trades that move the deposit wallet's pUSD meanwhile, and the
  checks of a route's chain, sender, router and calldata: a route is one that passes.
- `Claims` takes `U256::MAX` and `allowance_floor` as small numbers that keep their
  order, and one pUSD for an amount.
- `Quote` and `Fees` use fewer decimals than six, with the code's formulas; ticks of
  several sizes, amounts of no whole lot, and a width that overflows are kept.

## What each run checks

TLC is started once for a group: the variable `instance` of the group's module, chosen
at the start, says which part of it moves in a behaviour, and under which restriction
(`Follows`, `Prompt`, `Unrevoked`, ...: a condition on steps that the module of the part
defines). A restriction says what the environment does not do in that instance; each is
named where it is needed, and *The hypotheses* below says what is lost without it. An
invariant of the group is that of each of its parts, an action property is theirs too
(the others stutter), and where a property holds only of some instances it says so
(`instance = "confirms" => ...`). Some instances have smaller bounds than the others;
those are constants too (`RaceTx`, `FewFaults`, `SlowCalls`, ...).

Runs that pass:

| Run | Module | Instances | Shows |
|---|---|---|---|
| `lock` | `StoreLock` | 2 invocations, 4 bodies, stale after 2, 2 faults, prompt holders, fairness | `KeepsFreshLock`; `OrphanReaped`; `StoreLock` implements `WalletLock`: never two holders, never an eviction |
| `trade_one` | `MCTradeFlow` | 1 draft, 2 invocations, 5 calls, 2 faults, 2 salts, a resting BUY, a killed BUY, a SELL, trading on or off | `PlanTellsTruth`, `OneOrderPerDraft`, `ReceiptTruth`, `AcceptedIsAccounted`, and the refinement of `DraftLife` |
| `trade_limits` | `MCTradeLimits` | "prompt": 2 drafts, 3 salts, 7 calls, 1 fault, a cap of 3 or 1. "slow": 1 draft of a BUY that cannot rest, 2 invocations that evict each other, 4 calls, every order flagged. "day" (`TradeDay`): a day of 2 ticks, a clock to 3, 3 orders, 1 fault after an audit line | `CapHoldsAtSend`, with configuration writes between check and send and an audit line without its receipt; `ReviewedAsSent`; `DayHolds` (`RollingCap`) |
| `relayer` | `MCRelayer` | Two invocations, 2 forms. "confirms" (`Follows`, `ReadsTruly`): one at a time that may stop anywhere, nonces to 3, 3 transactions. "misread" (`Follows`): reads fail too. "race": two at once, reads that fail, nonces to 1, 2 transactions. "keys" (`Follows`): 3 builder keys, revoked at the venue | `ConfirmsForgetNone` (`NoneForgotten`) and `ConfirmsOnce` (the refinement of `OneShot`) in "confirms"; `ConfirmsReceipted` (`SettledReceipted` in "confirms", `ReceiptFirst` in "misread"); `RecordsTruth` in all; `UsedKeyIsStored`, `ActiveKeyKept` |
| `funding` | `MCFunding` | 3 invocations, slow holders and racing creates admitted. "prompt" (`Prompt`): under the lock, 2 transactions, 3 faults. "slow": 2 at once that evict each other. "redrawn": 2 at once and creates that draw the id again from a failed list, once. "plans": 4 sessions over one allowance, 2 in one ERC-20 token, 1 native, 1 in pUSD, 3 of them measured at a time | `PromptForgetsNone` (`NoneForgotten`) and `StagedOnce` (the refinement of `OneShot`) in "prompt"; `EndsInOrder` (`InOrder`, `CompleteIsTrue`); `PlansHold` (`SpendCapped`, `ReachesTarget`, `NoAllowanceLeft`, and `NeverShort` while the token is not shared) |
| `onboarding` | `MCOnboarding` | 2 invocations, 3 transactions that may fail, a clock to 2 and deadlines of 2. "unrevoked" (`Follows`, `Unrevoked`): `legacy_eoa_mode` on and off, ids misread, 2 faults. "unswitched" (`Follows`, `Unswitched`, `ReadsTruly`): revoked and onboarded again, 1 fault. "read" (`CallsFollow`, `Unrevoked`, `Unswitched`): readers, one at a time, refresh `status.json` beside the invocation that moves it, time passes between the calls (`OneReader`; the proofs do without it), 1 fault. "login", "unkilled" (`Unkilled`, `WaitWritten`): 2 invocations of the login, 2 timestamps, 2 faults | `BatchRetried` (`SameBatchRetried`) and `ApprovalKept` in "unrevoked" and "read"; `IdsKept` in "unswitched"; `LoginWaits` (`WaitSuffices`) in "unkilled" |
| `progress` | `MCProgress` | one onboarding (a clock to 2 and deadlines of 2, so that a batch expires while its approval is waited for; `SettledInTime`), one login, one funding session, faults, fairness | `OnboardingCompletes`, `ClobLoginCompletes`, `FundingProgresses` |
| `amounts` | `MCAmounts` | "quote": 4 decimals, lots of 2, ticks of 1 and 2 decimals, zero and overflowing amounts. "fees": every schedule shape, 3 fills, a width that the largest maker overflows. "claims": 5 spenders, 4 operators, 3 callees of single calls. "orders": 2 rows over 3 fields and the salt | `WithinBound`, `LegsFair` (`SpendsWhatWasAsked`, `LegsAtLimit`, `DustBelowTick`); `FeesCovered` (`CountCovers`, `LegacyCountsMost`); `EffectsTrue` (`AuthorityStated`, `TransfersDebited`, `QuietIsQuiet`, `RevokeIsTotal`, `GrantsSeen`); `FindsExactlyOwn` (`TakesOwn`, `FindsOwn`) |

What a module asks of its constants is an ASSUME in the modules a run extends, and a
definition (`FeesConstants`, `LoginConstants`, ...) in those that are instantiated, of
which the module that instantiates them makes an ASSUME.

Each property has a *slip*, a wrong variant of one definition, that breaks it
(`mutants` in `PROJECT.json`); the variants stand before the definitions and are used
by nothing else.

Runs that find a disagreement between the code and what the repository says of
it (`findings` in `PROJECT.json` quotes the lines):

| Run | Shows |
|---|---|
| `trade_sell_read` | A SELL awaiting its approval is revalidated, the preflight read fails, and the prepared order and approval are gone, where the comment says they are kept |
| `trade_wedge` | A prepared order left by a post that stopped early is kept by revalidate and refuses every later post once the market has moved |
| `relay_race` | Two confirms submit the same prepared batch |
| `onboard_revoke` | After a revoke each continue retires the approval it asked for |

### Other disagreements

The model shows these too; no configuration is kept for them. Each is found by TLC
with the module, the property and the constants named here, the other constants as in
the run of the module's group.

| Module, property, constants | Shows | Code | Against |
|---|---|---|---|
| `MCTradeFlow`, `PlanTellsTruth`, `ListFails = TRUE` | A failed `store_list` reads as no drafts: id 1 is used again, and a posted draft reads as still pending | `infra_parts/lists.rs:16` | `plan.md.rs:54` "Signing and posting are still pending." |
| `MCTradeFlow`, `PlanTellsTruth`, `Creators = {p1, p2}` | Two creations draw the same id outside the lock, with the same effect | `trade_flow_parts/draft.rs:94` | the same |
| `MCTradeFlow`, `SignedMeansNoAnswer` | The receipt has the CLOB's answer while the plan says none was recorded | `trade_flow_parts/posting.rs:343`, `:358` | `plan.md.rs:56` "The order is signed, but no answer from the CLOB has been recorded." |
| `RelayerAction`, `SubmittedOnce` under `FollowSpec`, `ReadsFail = TRUE` | A failed read of `progress.json` reads as no progress: the batch is submitted again | `relayer_actions.rs:238` | `relayer_actions.rs:297` "submission may have succeeded without returning an id; refusing to resubmit" |
| `RelayerAction`, `ProgressIsOfPrepared` under `OrderlySpec` | A confirm that stops among its deletions leaves progress that refuses every later batch | `relayer_actions.rs:278` | `relayer_actions.rs:94` "prepare and submit the exact persisted transfer batch" |
| `RelayerAction`, `MarkerMeansDoubt` under `OrderlySpec` | The marker is written before the credentials are loaded: a confirm that sent nothing is taken for one that may have | `relayer_actions.rs:320`, `:323` | `relayer_actions.rs:297` |
| `BuilderKeys`, `KeepsActiveKey` under `Spec`, `Procs = {p1, p2}` | Two repairs at once: the second deletes the first one's new key | `infra_parts/relayer.rs:89` | `infra_parts/relayer.rs:86` "refusing destructive rotation" |
| `Onboarding`, `Completes` under `FairSpec`, `TxMayFail = TRUE` | A transaction that failed keeps its id, and `next_action` leads nowhere | `onboarding/flow.rs:34` | `src/README.md:8` "`status.json` names the next action at every stage." |
| `Onboarding`, `[][KeepsIds]_vars` under `Spec`, `Procs = {p1, p2}` | A reader's refresh erases a transaction id that was just stored | `onboarding/status.rs:185` | `app_tests.rs:252` asserts that a refresh keeps both ids |
| `Onboarding`, `SameBatchRetried` under `Spec`, `Procs = {p1}`, `MaxNow = MaxNonce = 3`, `MaxTx = 4`, `MaxFaults = 2` | After a revoke each continue replaces the prepared batch, so a submission whose answer was lost is followed by one of another batch while both may still execute (their nonce lets one of them) | `onboarding/flow.rs:128` | `onboarding/mod.rs:183` "An exact deposit-wallet approval must survive retries of this continuation." |
| `Funding`, `NoneForgotten` under `Spec`, `SlowHolders = FALSE` | Two fund requests draw one id; the overwritten one had staged a transaction | `fund_flow.rs:42` | `app_types.rs:452` "retries must fail closed instead of restaging" |
| `Funding`, `NoneForgotten` under `Spec`, `SlowHolders = FALSE`, `Procs = {p1}` | A failed `store_list` reads as no sessions: one create draws id 1 again and overwrites a session that had staged a transaction, which is then staged anew | `fund_flow.rs:42`, `infra_parts/lists.rs:16` | the same |
| `RelayerAction`, `SettledReceipted` under `FollowSpec`, `ReadsFail = TRUE` | After a misread the batch is submitted again; `progress.json` names the second transaction, which fails, and the executed batch never gets a receipt | `relayer_actions.rs:238` | `relayer_actions.rs:297` |
| `MCProgress`, `OnboardingCompletes` without `SettledInTime` | A batch that expires after it was submitted fails at the relayer, and its id is polled for ever, though the relayer fails nothing that could succeed (`TxMayFail = FALSE`) | `onboarding/flow.rs:144`, `:180` | `src/README.md:8` |
| `Onboarding`, `[][KeepsIds]_vars` under `UnswitchedSpec` without `ReadsTruly`, `Procs = {p1}` | A failed read of `status.json` counts as no ids: a continue submits beside an open transaction, or persists the failure with no ids | `infra_parts/store.rs:102`, `onboarding/flow.rs:16`, `onboarding/persistence.rs:86` | `app_tests.rs:252` |
| `Onboarding`, `ApprovalSurvives` under `UnrevokedSpec`, without the exemption `~Refused` in `KeepsApproval` | The host refuses the hint of an exact approval (the Broker cannot be reached, an eligibility action): `approval.json` is deleted, neither signed nor expired | `approval.rs:201` | `onboarding/mod.rs:183` |
| `Login`, `WaitSuffices` under `UnkilledSpec` without `WaitWritten` | The put of `login_retry_after.json` fails, which is ignored: no wait is left, `status.json` names begin, and that is denied under the spent grant | `onboarding/mod.rs:153` | `src/README.md:8` |
| `Claims`, `PresentedTells` | The claim presented with a batch declares none of its effects | `approval.rs:98` | `polymarket/claim.rs:1` "What each signed Polymarket payload moves, as the Petal use claim states it." |
| `DailyCap`, `EverySendReceipted` | `audit.jsonl` outgrows its limit: orders leave without a receipt, though nothing failed | `infra_parts/store.rs:147` | `post.rs:3` "then write a private receipt" |
| `DailyCap`, `RollingCap`, `StopsUnheard = TRUE` | An order whose post was killed before its audit line is not counted by the cap | `trade_flow_parts/posting.rs:325` | `trade_flow_parts/policy.rs:499` "refusing rather than trading uncapped" |

The fee bound has a disagreement of its own with the venue and not with a text:
`approval.rs:79-85` says that nothing bounds the fee an operator charges above the
schedule that was read, so `CountCovers` is of charges under that schedule.

`relay_race` and the rows with two creators, two invocations or racing creates need a
second invocation; the others need one.

### Bounds

- Two invocations are enough for what the lock is for: a pair inside it. A third
  one matters for the lock itself (one reads a stale body, a second releases, a third
  takes), and slow holders do; `FreshLockKept` is proved for any number of both.
- Five calls are create, revalidate, post and two more: a second revalidate, post
  or cancel against the first. Seven calls are two drafts created,
  revalidated and posted, and one configuration write.
- Two faults let an invocation die after the venue has the order and a later one
  fail too.
- Two quotes are a market that moved; with Configs they are below and above the
  order limit, the warning threshold and the daily cap. Three salts allow a second
  order of one draft beside another draft's.
- The "prompt" instance of `trade_limits` has one invocation at a time:
  `WriteVenueConfig` needs none, and what two of them can do to one another is in
  `trade_one` and the "slow" instance, whose four calls are create, revalidate and two
  posts.
- One confirm, or one begin or continue, at a time is what the passing runs claim most
  for, because the violations show what a second one breaks; `RecordsTruth` and
  "read" say what is left. Three transactions are one that failed, its successor and
  one more.
- Nonces to 2 or 3 let another batch overtake a prepared one; a clock to 2 with a life
  of 2 lets the batch that was prepared first expire at any later step (where
  `SettledInTime` does not keep it from expiring once it is signed) and another be
  prepared after it.
- One draw from a failed list (`Redraws`) is what overwrites a session.
- Three confirms of a session are one killed inside the lock, one that reaps it and
  one against the latter; two transactions are what a plan has at most.
- A day of two ticks in a clock of three has a send inside, at the edge of and past
  the window; the stamps of one order differ by any number of ticks.
- Two rows are one before the order's own, which is all that taking the first match can
  get wrong; three fields are one more than the match needs.
- Amounts in `FundPlan` are a need of at most 4, inputs of 200 and quotes such that the
  division loses something, the padding is cut off and is not.
- Salts and bodies are only compared for equality, so permuting them is sound.
- `CHECK_DEADLOCK FALSE` in the trade runs: calls are bounded, and a wallet
  nobody writes to stops. The lock runs check deadlock.

### Fairness

`lock` assumes weak fairness of the clock, of every started invocation (the
host runs it to its end or kills it, and kills are bounded by `MaxFaults`) and of
the agent asking for the wallet again. The last one is needed because the code
has no timer: an orphan is removed by the next call, or never. 
`OnboardingCompletes` assumes that an invocation that runs is run on
(weak), that the agent again and again writes the action `status.json` names (strong:
the action named may change while an invocation runs), and that owner and relayer
answer. `FundingProgresses` assumes the same of confirms, strong for taking the lock, which
others hold in between, and for an outbox confirmation, which the owner may refuse at
first but not for ever. `ClobLoginCompletes` assumes strong fairness of writing begin and of the
owner's approval, and `Prompt`: what is asked is approved and used before it expires;
an owner who is always late is never logged in. Faults are bounded in all of them. No
other property needs fairness.

## Proofs

Every safety property that a passing run checks is a theorem, for every value of the
constants that meets the hypotheses below. The liveness properties are left to TLC.

The theorems about one module, each for a specification of that module:

| Theorem | Statement | Assumes beyond the modules' ASSUMEs |
|---|---|---|
| `StoreLockTypes` | `StoreLock`: `Spec => []TypeOK` | - |
| `FreshLockKept` | `Spec => []KeepsFreshLock` | - |
| `StoreLockImplements` | `Spec => ImplementsWalletLock` | - |
| `LockIsExclusive` | `WalletLock`: `LockSpec => []Exclusive` | - |
| `TradeFlowTypes` | `TradeFlow`: `Spec => []TypeOK` | - |
| `OrdersAreReviewed` | `Spec => []ReviewedAsSent` | - (slow holders too) |
| `UnsentIsUnsent` | `Spec => []PlanTellsTruth` | `Careful` |
| `OneOrderLeaves` | `Spec => []OneOrderPerDraft` | `Careful` |
| `ReceiptsTellTruth` | `Spec => []ReceiptTruth` | `Careful` |
| `OrdersAreAccounted` | `Spec => []AcceptedIsAccounted` | `Careful` |
| `DraftsLiveOnce` | `Spec => ImplementsDraftLife` | `Careful` |
| `BuysLeaveWithinCap` | `Spec => CapHoldsAtSend` | `Careful` |
| `AnyDaySpendsWithinCap` | `DailyCap`: `Spec => []RollingCap` | `~StopsUnheard` |
| `RecordsAreTrue` | `RelayerAction`: `Spec => []RecordsTruth` | - (racing, reads that fail) |
| `NoneIsForgotten` | `OrderlySpec => []NoneForgotten` | `Follows`, `ReadsTruly` |
| `ReceiptBeforeClearing` | `FollowSpec => []ReceiptFirst` | `Follows` (reads that fail) |
| `SettledHasReceipt` | `OrderlySpec => []SettledReceipted` | `Follows`, `ReadsTruly` |
| `RelayerImplementsOneShot` | `OrderlySpec => ImplementsOneShot` | `Follows`, `ReadsTruly` |
| `UsedKeysAreStored` | `BuilderKeys`: `FollowSpec => []UsedIsStored` | `Follows` |
| `ActiveKeysAreKept` | `FollowSpec => KeepsActiveKey` | `Follows` |
| `StagedInOrder` | `Funding`: `Spec => []InOrder` | - (slow holders, racing creates) |
| `CompleteIsSaidTruly` | `Spec => []CompleteIsTrue` | - (the same) |
| `FundingForgetsNone` | `PromptSpec => []NoneForgotten` | `Prompt`, `ListsTruly` in it |
| `FundingImplementsOneShot` | `PromptSpec => ImplementsOneShot` | `Prompt`, `ListsTruly` in it |
| `SessionsSpendWithinCap` | `FundPlan`: `Spec => []SpendCapped` | - |
| `SessionsReachTarget` | `Spec => []ReachesTarget` | - |
| `SessionsLeaveNoAllowance` | `Spec => []NoAllowanceLeft` | - |
| `SessionsNeverShort` | `Spec => []NeverShort` | - (it speaks of the states where `Unshared`) |
| `OnboardingKeepsIds` | `Onboarding`: `UnswitchedSpec => [][KeepsIds]_vars` | `Follows`, `Unswitched`, `ReadsTruly` |
| `OnboardingRetriesSameBatch` | `UnrevokedSpec => []SameBatchRetried` | `CallsFollow`, `Unrevoked` |
| `OnboardingKeepsApproval` | `UnrevokedSpec => ApprovalSurvives` | `CallsFollow`, `Unrevoked` (it exempts `Refused`) |
| `LoginsAskOnce` | `Login`: `Spec => []AskedOnce` | - |
| `LoginsWaitLongEnough` | `UnkilledSpec => []WaitSuffices` | `Unkilled`, `WaitWritten` |
| `QuotesWithinBound` | `Quote`: `Spec => []WithinBound` | - |
| `QuoteLegsFair` | `Spec => []LegsFair` | - |
| `CountsCoverFees` | `Fees`: `Spec => []CountCovers` | - (charges under the schedule read) |
| `LegacyReceiptsCountMost` | `Spec => []LegacyCountsMost` | - |
| `ReconcileTakesOwn` | `OpenOrders`: `Spec => []TakesOwn` | - |
| `ReconcileFindsOwn` | `Spec => []FindsOwn` | - |
| `EffectsAreTrue` | `Claims`: `Spec => EffectsHold` | - |

The type invariants are `RelayerTypes`, `FundingTypes`, `OnboardingTypes`, `QuoteTypes`,
`FeeTypes`, `OpenOrderTypes`, `ClaimTypes` and `DayCapTypes`, with no further
hypothesis. A theorem about an INSTANCEd module assumes what that module asks of its
constants (`FeesConstants`, ...).

The theorems about a group, for the specification that its run checks. They name the
run's properties; which instance a property speaks of is part of the property.

| Group | Theorem | Property |
|---|---|---|
| `MCRelayer` | `RelayerSideTypes` | `Types` |
| | `RacingRecordsAreTrue` | `RecordsTruth` |
| | `ConfirmsForgetNothing` | `ConfirmsForgetNone` |
| | `ConfirmsHaveReceipts` | `ConfirmsReceipted` |
| | `ConfirmsSendOnce` | `ConfirmsOnce` (the refinement of `OneShot`) |
| | `UsedKeyIsAlwaysStored` | `UsedKeyIsStored` |
| | `ActiveKeyIsKept` | `ActiveKeyKept` |
| `MCFunding` | `FundingSideTypes` | `Types` |
| | `SessionsEndInOrder` | `EndsInOrder` |
| | `PromptSessionsForgetNone` | `PromptForgetsNone` |
| | `SessionPlansHold` | `PlansHold` |
| | `SessionsStageOnce` | `StagedOnce` (the refinement of `OneShot`) |
| `MCOnboarding` | `OnboardingSideTypes` | `Types` |
| | `OwnerWaitsEnough` | `LoginWaits` |
| | `WalletRetriesSameBatch` | `BatchRetried` |
| | `WalletKeepsIds` | `IdsKept` |
| | `WalletKeepsApproval` | `ApprovalKept` |
| `MCAmounts` | `AmountTypes` | `Types` |
| | `AmountsAreFair` | `WithinBound`, `LegsFair` |
| | `FeesAreCovered` | `FeesCovered` |
| | `OwnOrderIsFound` | `FindsExactlyOwn` |
| | `BatchEffectsAreTrue` | `EffectsTrue` |
| `TradeDay` | `TradingDaysHold` | `DayHolds`, with `~StopsUnheard` as the run has it |

### The hypotheses

`Careful` and `~StopsUnheard` are choices of the constants. The others are restrictions
on steps, conjuncts of the specification that a theorem is about and of the instance
that TLC checks. Without each of them TLC finds a property of the theorems that assume
it violated.

| Hypothesis | Is | Without it |
|---|---|---|
| `Careful` | `~SlowHolders`, `~ListFails`, at most one creator | the first two rows of *Other disagreements*; a second post of a slow holder can send again |
| `Follows` | an invocation starts only while no other runs: one confirm of an action, one call on the builder key, one invocation of onboarding at a time | `relay_race`, `ReceiptFirst`; `KeepsActiveKey`, `UsedIsStored`; a reader's refresh erases an id |
| `CallsFollow` | a begin or continue starts only while no other runs, readers of `status.json` aside | two of them prepare and submit two batches |
| `ReadsTruly` | in `RelayerAction`, `progress.json` is not read as absent while it is there; in `Onboarding`, `status.json` is not read as one without its ids | the batch is submitted again, and may never get a receipt; a continue submits beside an open transaction, or erases its id |
| `Prompt` | an invocation ends before its lock is stale, no two creates draw one id, and none draws it from a list that failed (`ListsTruly`) | an evicted holder stages again; racing creates, or one after a failed list, lose a session |
| `Unshared` | one session at most has planned to spend the ERC-20 token: its allowance is one number, which each approval overwrites | a swap is short |
| `Unswitched` | no continue finds `legacy_eoa_mode` switched on | the refusal drops `status.json` with its ids |
| `Unrevoked` | the approvals are not revoked | `onboard_revoke`; `SameBatchRetried` above |
| `Unkilled` | a login that signed runs until it succeeded or failed | nobody writes the wait |
| `WaitWritten` | a login that failed has put `login_retry_after.json` | the same |
| `SettledInTime` (`MCProgress`, of TLC only) | a batch that passed the last look at its deadline is settled before it | it fails, and its id is polled for ever |
| `~StopsUnheard` | a post is not killed between its send and its audit line | `RollingCap` above |

`Follows` and `CallsFollow` say of the environment what the code does not enforce: no
lock is taken there. They do not limit how many invocations follow one another, where
one is killed or what fails. `ReadsTruly`, `ListsTruly` and `WaitWritten` do limit what
fails: one read, list or write each, whose failure the code ignores.

`ApprovalSurvives` has an exemption in itself: the retirement of a hint that the host
refused (`Refused`).

The ASSUMEs the proofs added to the modules: `NoneIsNoSession`, and that `None` is no
pair of ids (`None` is a value of its own), `SaltsFinite` (a wallet has finitely many
orders, so their costs have a sum), and in `Quote` `ScaleAssumption` and `PowersOfTen`:
that `10^m` is positive and `10^(m+n)` is `10^m * 10^n`, a law of arithmetic that the
provers do not know and TLC evaluates for the scales of the run.

### The arguments

*The lock.* `KeepsFreshLock` is not inductive: one must know that bodies in use are
distinct (a body is drawn unused) and that a body remembered as stale is stale for ever, so
the compare-and-delete can only hit a stale one. The refinement then maps each
store operation to an abstract step or a stutter; with prompt holders no body of
a live holder is ever stale, so an eviction is impossible.

*Types of the trade flow.* `TypeOK` alone is not inductive: `Bind` writes
`mem[p].order.salt`, which has a salt only because an order was prepared at an earlier
step. `TypeInv` adds, for each step, which fields of `mem` are filled in by then.

*Reviewed as sent.* `ReviewInv` carries the agreement of order and review from
`prepared_signing.json` (an order is built from its review, and the stored one is
loaded only under the same hash) through `mem` to the venue. It needs no lock: all of
the evidence is in the invocation's memory and in the immutable record. This is why the
result survives two slow holders.

*Unsent and one order.* `TruthInv` says that a draft with an order sent has a
status outside the ones post and revalidate accept, that an invocation on its way to
`Send` has no order sent for its draft, and that what it remembers of the draft
is what the store has. The last needs the lock (`Exclusive`) and that no creation
touches the draft.

*Receipts and accounting.* A receipt is written from what the post remembers, steps
after the order left, and the order moves meanwhile. `RecordsInv` follows the post from
`Send` to its last write: a salt is of one draft, the order in its hand is the one it
sent, a refusal it heard is final, its draft stays signed until the outcome is written,
and a receipt is there by then. `DraftsLiveOnce` maps each step from there to a step
of `DraftLife` or a stutter.

*The cap.* The sums of `MapThenSumSet` are folds, on which the provers cannot do
induction. `Weight(f)` is the same number as the cardinality of the set of units
`<<x, u>>` with `u < f[x]`, so that the library's facts on cardinality do what
induction would. `CapInv` then keeps what was checked true until the send: no other call
writes a receipt in between, and what is on the venue counts no more than the receipts
do. In
`DailyCap` the day moves: every order's audit line and receipt are stamped no earlier
than its send, so whatever left within a day before a send is still in the window its check
summed, and the window's weight is at most `Posted`.

*Relayer actions.* `RecordsInv` pairs each id an invocation holds with its own batch and
needs nothing else. For one confirm at a time `OrderlyInv` says that the transactions
are in the order of their nonces, that of those with one nonce one at most was
executed, and that all but the prepared batch's are overtaken: so the receipt that is
written is as late as any, and the deletions come after it. With reads that do not fail
`OneInv` has no two transactions of one batch, and a marker wherever the prepared batch
was submitted, so that it is not submitted again, and the one transaction of an executed
batch that is still prepared is the one `progress.json` names.
*Builder key:* for each step, what the invocation knows of the key it holds and of the
stored one.

*Funding.* `TypeInv` has what every copy of a session satisfies, an old one that a slow
holder writes back included: its ids are of its transactions in order, and those before
`next` succeeded. Nothing is taken back from the outbox, so this stays true of old
copies. `PromptInv` adds that the stored session knows whatever is in the outbox by its
id or its marker. *Plans:* per session, what its done steps moved; and that the
allowance is at most the first one, or at most the input of a session whose swap is
next, since an approval overwrites the one before it.

*Onboarding.* `IdsInv` says that an id in `status.json` whose transaction is open is the one
in the invocation's hand at every step that may overwrite it. `BatchInv` says that a batch
that was asked for, or submitted and may still execute, is the prepared one
(`PreparedOnly`), wherever the invocation was killed. That rests on the batch files and
the chain, and of `status.json` only on its ids being those of batches: this is why
readers that write old ids back, and reads that fail, do no harm. *Login:* whatever
timestamp it carries, an attempt asks under the one reusable binding, so the host has one
action at most; and while that one is spent, its wait is written or its invocation on the
way to write it.

*Quotes and fees.* Lemmas on quotient and remainder; each leg is a multiple of its lot
and at most what was asked, the loss of a floor is below the divisor, and a sum of
ceilings below the sum and one for each.

*Open orders.* A row that matches shows the draft's salt, and the first of the rows that
match is one of them. *Claims:* the batch is one that `wallet_batch_effects` did not
refuse, and its effects are of its calls; only spenders have an allowance, and where it
is not zero it is at least `MaxAllowance` less what was taken, which is why grants are
still seen; whoever has authority was given by the effects of a signed batch.

*Groups.* The inductive invariant of a group (`MCInv`) is that of each of its parts, for
the instances whose restrictions it needs; a step is one of a part under the
restrictions of its instance, and leaves the variables of the others alone.

### Only model-checked

`OrphanReaped`, `OnboardingCompletes`, `ClobLoginCompletes` and `FundingProgresses`:
liveness under fairness, which needs ENABLED and is out of the prover's reach.

With slow holders `PlanTellsTruth`, `OneOrderPerDraft`, `ReceiptTruth` and
`AcceptedIsAccounted` do not hold, and none is claimed: they rest on a post
finishing within the five minutes of `TRADE_LOCK_STALE_MS`.

## Plan

The core came first because it moves money and has the most steps; the parts around
it followed in the order of what they can lose: relayer actions, onboarding, funding,
then the computations they rest on; then the proofs of what the runs check. What is left:

1. Proofs with weaker hypotheses: what racing confirms and slow holders still leave true
   beyond `RecordsAreTrue`, `StagedInOrder` and `OrdersAreReviewed`.
2. The composition of `StoreLock` with `TradeFlow`: so far it is by the two theorems
   that `StoreLock` implements `WalletLock` and that `TradeFlow` uses its actions.
3. The rules of `evaluate_local_polymarket_order` and of a market's section in
   `venue.toml`, as a table against a reference definition.

## Not modelled

Cryptography and encodings (EIP-712, HMAC, JSON forms) are checked by known-answer
tests of the repository. Public reads and account views project remote data and
change nothing. Transport appears as calls that fail or whose answers are lost.
`relayer_config.rs` validates one file and stores it in one write. The per-market rules
of the venue configuration are one switch. `polymarket/order_store.rs` is compiled for
tests only.

A relayer batch that has expired or was overtaken is refused by the relayer for ever,
and no route replaces it; the model has it (`RelayerAction`), but the repository
promises nothing else, so no property is claimed. An evicted slow holder of a funding
lock may stage a transaction that another stages too; `ImplementsOneShot` is claimed for
holders within `TRADE_LOCK_STALE_MS` only.
