# A TLA+ model of DNGG

DNGG records amateur basketball games: a group signs up, keeps its players and teams, records every
shot and foul of a game on a tablet, reads rankings and abilities from the records, and pays for the
service by a monthly or yearly subscription. The backend (`src/backend`, NestJS with TypeORM on
PostgreSQL at READ COMMITTED) holds all state; the web client (`src/frontend`, Next.js) keeps a session
and copies of what it shows, some of them changed before the server has answered.

This directory holds TLA+ modules of the parts where the order of things matters, the TLC
configurations that check them, and TLAPS proofs of what should hold for every size of them.

    tlc -workers 2 -config SubscriptionSafety.cfg MCSubscription
    tlapm SubscriptionProofs.tla

## 1. The system

### 1.1 Components

Backend:

| component | state | operations | what makes it correct | module |
|---|---|---|---|---|
| Subscription billing (`modules/subscription`) | `Subscription`, `Payment`, `Group.customerKey`; the cards and charges at Toss | `subscribe`, `cancel`, `resume`, `cancelForGroup`, `getStatus`, the daily renewal cron | no order is charged twice, every charge is recorded or recovered, periods are paid for, a cancellation is honoured, nothing stays overdue | `Subscription`, `PaymentLedger`, `SubscriptionPage` (customer key) |
| Game saving, free limit, monetization (`game.service`, `admin.service`) | `Group.freeGamesUsed`, `AppSetting`, `Game` | `saveGameAndLogs`, `deleteGame`, `updateGameStatus`, `startMonetization` | no more free games than the limit, the counter moves with the games, one start | `GameGating`, `FreeQuota` |
| Season (`season.service`, `game.service`) | `Season`, `Group.currentSeasonId`, `Game.seasonId`, no foreign keys | create, delete, set current, assign games; a save copies the current season | pointers stay in their group and name seasons that exist | `Season` |
| Game record (`log.service`, `game.service`) | `Log` with its sequence, `Game.currentQuarter`, `Game.status` | record, undo, redo, quarter, status | undo takes the last record, records are in the order in which they were made | `GameLog` |
| Team and player (`team.service`, `player.service`) | `Team`, `TeamPlayer` (unique per player and group), `Player` | create, update, delete, delete all, bulk upload; a player created, renamed, deleted | a player is in one team, an update replaces a team, concurrent edits converge | `Team` |
| User, email verification, group (`user.service`, `email-verification.service`, `group.service`) | `User`, `EmailVerification`, `Group`, the `Logitem`s of a group | request, confirm, consume a code; signup, reset, deletion of a user; `createGroup`, seeding at boot; `deleteGroup` | a code is guessed a few times and serves once, mails are spaced, a group has its items; a deleted group is not charged | `Account`; deletion of a group: `Subscription` |
| Inquiry (`inquiry.service`) | `Inquiry`, mails | create, list, answer | an answered inquiry was mailed | `Inquiry` |
| Daily records, rankings, ability, team impact (`log.service`, `*.util.ts`, their repositories) | none | functions of the logs | several aggregations of the same rows agree | `Statistics` |
| Date range, calendar (`common/date-range.ts`, `subscription.util.ts`) | none | functions of dates | periods are whole months, a range names real days | `Calendar` |
| Login, tokens (`user.service`, `jwt.strategy`, `admin.service`) | none but what a token says | login, `switch-group`, the check of a token | a token names a user and the group it may write to | `Session` |
| Access checks, throttling, health, filter, logging, configuration | none | | | not modelled |

Web client (what a page shows, what it has asked for, and what it sends):

| component | what makes it correct | module |
|---|---|---|
| Record page (`app/record/[id]`) | its copy of the game agrees with the server when it is quiet | `GameLog` |
| Games page (`app/games`) | its lists are those of the server; only games that are shown are selected for a season | `GamesPage` |
| Home page (`app/page.tsx`) | its list and its banner are of the selected group | `HomePage` |
| Daily page (`app/daily`) | it stands on a day of its list and shows that day | `DailyPage` |
| Rankings and player pages, season selector and dialog | what is shown is of the season that is selected | `SeasonView` |
| Teams page (`app/teams`) | edits that are shown at once and sent later end at what the server has | `Team` |
| Subscription page (`app/subscription`) | an authorisation is sent once; the status is the group's | `SubscriptionPage` |
| Inquiry form, administrator's inquiries | an inquiry is stored once; the list is the server's | `InquiryForm`, `Inquiry` |
| Signup, password reset, the code form | the form says what is true of the server | `AuthForms` |
| Login, header, settings, `lib/axios.ts`, the stores | what a tab shows, stores and sends is one session | `Session` |
| The other pages, the install prompt, notices, styles | | not modelled |

### 1.2 How they interact

Handlers call each other and the database within one process; nothing else connects them. A handler
stops at each `await`, so any two handlers interleave between statements. What they share is rows:
`Group` (the counter, the current season, the customer key, `isDeleted`) is written by four
components. `deleteGroup` calls `cancelForGroup`; `saveGameAndLogs` reads `Subscription` and
`AppSetting`, and copies `Group.currentSeasonId`; a signup makes a group with its items in one
transaction and consumes a verification in it; the renewal cron runs in the same process as the
requests. Outside it are Toss (charges, with an Idempotency-Key), SES (mail) and the browser.

A page sends requests without waiting for earlier ones, and most pages take an answer whatever they
have asked for since; tabs share the browser's storage and nothing else.

### 1.3 What is hard

* A charge and its record are two systems: the process can stop, the database or the network can fail
  between them, and the next run of the cron has only the rows to go by. So are a mail and its row.
* The cron decides on rows it read before its first charge; requests change them meanwhile.
* Many checks read in one statement and write in another; some are closed by an index, a conditional
  `UPDATE`, a row lock or a transaction, and some are not.
* There are no foreign keys on seasons and players; the handlers clear pointers by hand.
* Soft-deleted rows come back: `updateGameStatus` writes any status; and each aggregation must leave
  them out on its own.
* Pages change their own copy at once, send it later, and are answered in any order.

`PROJECT.json` lists the hazards one by one with their lines and the properties that watch them.

## 2. Conventions

A handler is a process with a program counter; each of its actions is one statement or one
transaction, and what a handler keeps in local variables between them is a variable of the model.
Rows are functions from ids to records, or sets of records; an id is used once. A page is its state
(`useState`, `useRef`, the stores), the requests it has under way and their answers, in any order; a
request that only reads takes what the server has when it is served. Where a handler has a module of
its own, the module of a page takes it in one step and says so.

Variables called history record what happened and steer nothing: most properties of pages and
of racing handlers say what holds *unless* something happened, and history is how they say what. Each
exception is a race the code has and does not claim to close; where the code or a document claims
more, a run shows the claim to fail. The hazards in `PROJECT.json` whose own case is
excused in this way say so in their note, with the history variable and what becomes of the case: the property is
no evidence about that case. Mutants (operators marked so, used by no action) are the plausible bugs
each property is known to catch; `PROJECT.json` says which mutant breaks which property.

## 3. Modules

### 3.1 `Subscription` (with `PaymentLedger`, `MCSubscription`, `SubscriptionProofs`)

| model | code |
|---|---|
| `sub`, `payment` | tables `Subscription`, `Payment`; `payment[s][e]` is the row whose `orderId` is made of the subscription and the end of the period, `payment[s][0]` the first payment |
| `IndexAllows` | the partial unique index `uq_active_subscription_per_group` |
| `approved`, `rejected`, `TossApproves`, `TossRejects` | Toss: a key that was answered is answered the same way again |
| `Subscribe` ... `RecordCheck` | the steps of `subscribe`: count, issue the billing key, charge, one transaction, and the compensating rows |
| `Cancel`, `CancelWrite`, `Resume`, `ResumeWrite` | `cancel`, `resume`: read the row, then update it by id |
| `CancelForGroup`, `SoftDelete` | `deleteGroup` |
| `CronStart`, `due`, `handling` | the query of `renewDueSubscriptions` and the rows it returned |
| `CronCharge` ... `CronPersist` | the body of its loop |
| `RenewalKey` | the Idempotency-Key with the number of recorded rejections |
| `Tick`, `Crash` | time, 4 AM with or without a run; the process stops |

Time is counted in fractions of a day so that a period can end, a cancellation arrive and the grace
run out between two runs. The calendar is in `Calendar`, the customer key in `SubscriptionPage`;
amounts and billing cycles are left out: no property here tells them apart.

`UnrecordedRenewalIsRetried` says what the code makes sure of when a charge could not be recorded: the row stays one
that the next run reads, with the end and the count of rejections it had, and is asked about under the very key that was
charged, *unless the group has stopped the subscription*. The comment at `subscription.service.ts:388` and the log at
`:432-433` promise more, that the next run records the charge. `RenewalsAreRecovered` is that promise, and the run
`subscription_recovery` refutes it: a `cancel()` that is stored between the failed transaction and the next run makes that run
end the row before it asks Toss (`:309-311`), and after `deleteGroup` no run reads the row.

`PaymentLedger` is the promise: an order is charged once, only after everything charged before for its
subscription is in the books, and only money that was taken is booked. `Ledger` maps `charged` to the
approved keys and `recorded` to the orders with a successful row.

### 3.2 `GameGating` (with `FreeQuota`, `GameGatingProofs`) and `PaidService` (with `MCPaidService`)

| model | code |
|---|---|
| `monetized` | the row `MONETIZATION_STARTED_KEY` of `AppSetting` |
| `freeGamesUsed`, `lock`, `written` | the column as committed, the transaction that holds the row of a group, and what it has written there |
| `ReadSetting` ... `Rollback` | the statements of `saveGameAndLogs` for a new game; `Consume` is the conditional `UPDATE` |
| `Backfill`, `BackfillRow` | the one `UPDATE` of `startMonetization`: its subquery counts when it begins, the rows are locked one by one |
| `InsertSetting`, `StartFails` | the insert that decides which start wins; any error rolls back |

`Refuse` needs no lock: at READ COMMITTED a row that fails the `WHERE` in the statement's own snapshot
is not waited for. A save's own inserts are one step with its commit: nobody else sees them before.
`FreeQuota` is the promise: from the start on, a free game and its count are one step, below the
limit, and nothing gives one back. A save that read the setting before the start is not free in this
sense; it may be missing from the backfill (see the hazards).

`PaidService` puts the gate and the billing side by side for one run, as 3.10 does for the other parts: `part` says which one
moves. It is where liveness is checked, with the fairness of each and every kind of fault of billing: a database error, a lost
answer, a crash and a run that is missed.

### 3.3 `Season` (with `MCSeason`, `SeasonProofs`)

| model | code |
|---|---|
| `season`, `currentSeasonId`, `seasonId` | `Season`, `Group.currentSeasonId`, `Game.seasonId` |
| `pc`, `arg` | the requests being served and what they have read or asserted |
| `DeleteAssert`, `DeleteRead`, `DeleteSeason` | `deleteSeason`: two reads, then its transaction |
| `SetCurrentAssert`, `SetCurrentSeason`, `ClearCurrent` | `setCurrentSeason` |
| `AssignAssertGames`, `AssignAssertSeason`, `AssignSeason` | `assignSeason` and `updateSeason` |
| `ResolveCurrent`, `InsertGame`, `ResolveExisting`, `OverwriteGame` | the season of a save, new or overwriting |
| `raced` | history: seasons that were deleted while a handler held a stale read of them |

The transaction of `deleteSeason` is one step. Its statements are visible to others only together,
and a handler that reads between them behaves like one that read before.

### 3.4 `GameLog` (with `GameProofs`)

| model | code |
|---|---|
| `log`, `lastId` | the rows of `Log` of one game and their serial; `seen` of a row is history: the newest row when its call read the last one |
| `ReadLast`, `Insert` | `createLog` and `redoLog`: the last row is read, then the next sequence is stored |
| `UndoTap`, `Delete`, `Refresh` | `undoLastLog`: the last row is read, then deleted by its id; the page loads the game again |
| `QuarterTap`, `WriteQuarter` | `updateGameQuarter`: the status is read, then the quarter written |
| `view`, `picked`, `RecordAnswer`, ... | the record page: its copy of the game, its selection, and what it makes of each answer |
| `Chips` | the quarters it offers: regulation, overtime that is on or has records, the next one |

Nothing in the code keeps two `createLog` calls apart, and two tablets may well record one game:
`OrderedUnlessConcurrent` says that this is the only way to records that share or swap their sequences. A page that
has two calls in flight may show what neither left; `QuietPageAgrees` is about a page that waits.

The query of a game asks for no order of the logs (`game.repository.ts:55-62`), so a load brings the rows in any (`Loads`), and
what the page must show is each row once.

### 3.5 `Team` (with `MCTeam`, `TeamProofs`)

| model | code |
|---|---|
| `rows` | `TeamPlayer` as committed; `dead` and `born` of a call are what its transaction has deleted and inserted |
| `BeginUpdate`, `Steal`, `Clear`, `Insert`, `Commit` | `updateTeam` with `replaceTeamPlayers`: take the players from other teams, empty the team, insert |
| `BeginBulk`, `BeginCreate`, `BeginDelete`, `Drop` | `bulkCreateTeams`, `createTeam`, `deleteTeam`, `deleteAllTeams` |
| `Taken`, `Held` | the unique key of a player and its waits: an insert waits for an uncommitted row of that key, a delete for one that is being deleted |
| `squad`, `free`, `timers`, `Fire`, `Leave` | the page: an edit is shown at once and sent 400 ms after the last edit of that team, or when the page is left |
| `Wait`, `seen` of a call | a `DELETE` that waits keeps the rows its statement saw, and misses those inserted since |
| `Abort`, `FailedAnswer` | a deadlock, an error or a lost answer; a failed update loads everything again |
| `LostCall` | the connection drops while the transaction still runs: the page reloads, the server goes on |

### 3.6 `Account` (with `MembersProofs`)

| model | code |
|---|---|
| `RequestCode` ... `UndoCode` | `requestCode`: the last row, the count of the day, the new row, the mail, and the deletion of the row when the mail fails |
| `ConfirmCode`, `BumpAttempts`, `VerifyCode` | `confirmCode`: read, then write the attempts or the verification |
| `CreateUser`, `InsertGroup`, `InsertUser`, `CommitUser` | `createUser`: `assertVerified`, then one transaction for group, user, items and consumption; the unique name and address |
| `ResetPassword`, `FindUser`, `CommitPassword` | `resetPassword` |
| `CreateGroup`, `SeedGroup` | `createGroup`, which no page calls: two transactions |
| `Boot`, `CountTemplate`, `SeedTemplate`, `Locked` | `onModuleInit` under its advisory lock |

### 3.7 `Inquiry`, `InquiryForm`, `AuthForms`, `Session` (with `MembersProofs`)

`Inquiry` has the transaction of an answer (`Lock`, `Mail`, `Commit`), its failures, and the administrator's page with its
infinite query, its count of the pending and the rows it is answering, while another administrator answers too.
`InquiryForm` is the page on which an inquiry is written.

`AuthForms` has the forms of signup and reset over one-step services: what the form says about its code
(`codeSent`, the countdown `cooldown` beaten by an interval with its own `phase`), and the token it hands
on.

`Session` has the two stores of each tab, the three entries of the storage that all tabs share, and the
requests that carry a token: login, logout, `switch-group`, deletion of the group, a change of name, and
any other request that is answered 401 (`lib/axios.ts`). The interceptor asks only whether the request carried a
token, so a wrong password logs out the session that another tab stored meanwhile. The header offers the groups it
loaded once, also those deleted since.

### 3.8 The pages: `GamesPage`, `HomePage`, `DailyPage`, `SeasonView`, `SubscriptionPage` (with `GameProofs`, `PagesProofs`)

| module | state of the page | what makes it hard |
|---|---|---|
| `GamesPage` | the two lists, `finishedPageRef`, `finishedLoadingRef`, `finishedGenerationRef`, the selection and the range | an answer of an older generation is dropped (`Current`); games move between the lists by hand; a second game may be created while the first is on its way |
| `HomePage` | list, page, banner | an answer is not asked which group it is of |
| `DailyPage` | the date, what each query has loaded, errors | a query shows what it had at once and loads again; the date is settled by an effect over the list of days |
| `SeasonView` | the stored selection, the list of seasons, what each part shows | the stored season may be deleted (`Resolve`); each part is loaded for itself and never cancelled; what a modal does when it is answered is the closure of the render it was tapped in (`ReloadRequest`) |
| `SubscriptionPage` | the `authKey` in the address, the ref that remembers it, the status, the mutations | the address is read again after a reload; `ensureCustomerKey` is check-then-act on the server |

### 3.9 `Statistics` (with `StatisticsProofs`) and `Calendar` (with `PagesProofs`)

`Statistics` has the functions that are computed from the logs as operators over counts of rows: the
records of a day (`log.service`), the rankings (`rankings.util`), percentiles (`ability.util`), streaks,
close games, recent form and chemistry (`team-impact.util`), and what the record page, the player's page and the cards of
the first page compute for themselves. Nothing tells a reader which of several sums is right, so
the properties relate each to another: the table of a day to the rankings, the parts of a record to the whole,
a player's list of teammates to theirs. Its steps record a log, change a game's status or delete a
player, so that TLC reaches every small set of records with every deletion.

A list that the code sorts by a comparator is any list of that set the comparator allows (`Sorted`): the code relies on
nothing about the order of ties, which is that of the rows in the answer of the API. Records are rows of any value, and
a share of the team's points counts the items that score (`Shots`, `isScoring`), as `team-impact.util` does. Percentages are
rounded half up (`Round`), percentiles count a tie as one half, and teammates are ranked before the list is
cut to its limit.

`Calendar` computes with years, months and days as `Date` does, where a day past the end of a month
runs over into the next. `PeriodsAreWhole` says what that means for who pays: never a day too few, at
most three too many, and once the day has moved it stays.

### 3.10 `GroupPages` and `Members` (with `MCGroupPages`, `MCMembers`)

The modules of 3.4 to 3.9 share no state, and most are small. Each of the two modules is one run over
several: the variable `part` says which one moves, and the others stay as they begin, so the
graph is the union of theirs and nothing is multiplied. A property of a part is `part = "..." => ...`.
`GroupPages` and `Members` have the specification, the properties and what the proofs assume of the
constants (each an `ASSUME`, which TLC evaluates on the run); their MC modules choose the constants and
let what does not move begin in one state.

## 4. What TLC checks

| run | instance | shows |
|---|---|---|
| `subscription_safety` | 3 requests to one group, 5 days (4 runs of the cron), periods of 2 days, a grace of 1, 2 faults (database error, crash, missed run); 276 thousand states up to symmetry | `TypeOK`, `NoDoubleCharge`, `UnrecordedRenewalIsRetried`, `PeriodsArePaid`, `FirstChargeIsRecorded`, `ExpiredIsFinal`, `NoUnaskedLapse`, `RefinesLedger` |
| `subscription_recovery` | one group, 2 requests, one database error | `RenewalsAreRecovered` fails: a cancellation after the failed record of a charge makes the next run end the row and never ask |
| `subscription_lost_answer` | as the first, 2 requests, only lost answers | `NoDoubleCharge` fails: a charge whose answer is lost is counted as a rejection and charged again |
| `subscription_late_cancel` | 2 requests, no faults | `CancelHonoured` fails: a cancellation stored while the cron works on its rows is not seen |
| `subscription_deleted_group` | 2 requests, no faults | `DeletedGroupNotBilled` fails: a subscribe in flight outlives the deletion of its group |
| `paid_service` | gate: 2 groups, 3 saves to one of them, one by an administrator, 2 starts, a limit of 1; billing: 2 groups with a request each, 1 fault (database error, lost answer, crash or missed run); 367 thousand states | `TypeOK`, `FreeGamesWithinLimit`, `CounterMovesWithGames`, `RefinesQuota`, `SavesAreAnswered` (gate); `OverdueIsSettled` (billing) |
| `season_safety` | 2 groups, 3 seasons, 2 games, 2 requests at a time; 708 thousand states up to symmetry | `TypeOK`, `SeasonsStayInGroup`, `DanglingOnlyByRace` |
| `season_dangling` | the same | `PointersAreLive` fails: `setCurrentSeason` and `deleteSeason` miss each other |
| `group_pages` | the eight parts of `GroupPages`; 2.1 million states up to symmetry | `TypesOK`; `OrderedUnlessConcurrent`, `UndoTakesTheLast`, `QuietPageAgrees` (record); `AggregatesAgree`, `ResultsAgree`, `PagesAgreeUnlessDeleted` (statistics); `DatesAgree` (calendar); `ListsAgree` (games and home page), `SelectionIsShown` (games page); `ShownIsSelected` (season and daily page); `BillingPageAgrees` (subscription page) |
| `members` | the six parts of `Members`; 3.4 million states up to symmetry | `TypesOK`; `OneTeamPerPlayer`, `UpdateReplaces`, `EditsConverge` (team); `CodesAreSpaced`, `VerificationsServeOnce`, `GroupsStartWhole` (account); `AnsweredMeansMailed`, `PageShowsInquiries` (inquiry); `SessionIsWhole` (session); `FormSpeaksTrue` (forms and inquiry form) |
| `team_concurrent_assign` | 2 players, 2 teams, 2 calls | `AssignmentsConverge` fails: two devices that assign one player to two teams at once end in a violation of the unique key |
| `statistics_deleted_games` | 3 players, 2 games, 2 rows | `DeletedGamesAreExcluded` fails: a player's page counts the rows of deleted games |

### 4.1 Bounds

Three requests are enough for a subscription that exists, a second that races for the
group's place, and a cancel, resume or deletion of either. Four runs of the cron cover a renewal, a
rejection with its retry, expiry, and a later run that meets the expired row; two faults cover a fault
and another while recovering. In `GameGating` a limit of one makes two saves race for the last game,
and the second group gives the backfill a row to lock after the contended one. In `Season` ids are not
bounded by requests: two slots serve requests forever, so the graph holds every history over the ids.

The parts of `group_pages`:

| part | bounds |
|---|---|
| record | 2 pages, `Regulation` 2, `LastQuarter` 3 (one overtime), 4 calls or changes of status, each with its faults: two records that overlap, an undo of either, and a third call that meets the result |
| statistics | 3 games on two days, in and out of a season, 3 players who meet as teammates and as opponents, 3 items worth 3, 1 and −1, two of them shots, up to 2 rows, 1 deleted player, any status of each game; charts from 2 axes on. Two rows are enough to tie, to beat and to share |
| calendar | every day of 2027 and 2028 (a leap year) as the first, 4 renewals: January 31 and what follows it |
| games page | a page size of 1, 2 finished games, one of them in the range, and one that may be created, 3 requests or changes after the first two: a further page is under way while a range is applied and cleared |
| season | 2 seasons, 6 requests, 2 changes of the seasons |
| home | 2 groups with 2 and 1 games, a page size of 1, 3 selections, 2 more pages |
| subscription page | 2 tabs, 1 authorisation, 5 calls, 1 reload, 1 lapse |
| daily | 2 groups with records on 2 days and on 1, one change, 2 moves of the user or failures: a change while a load is under way, and the return to what was loaded before |

The parts of `members`:

| part | bounds |
|---|---|
| team | 2 players, 2 teams and one that may be created, 2 calls next to a load, one of them of another device, 2 taps: an edit while another is being sent, and two updates over one player |
| account | 2 calls at a time, 4 in all, 2 group names, 2 ticks; a wait and a life of 1 tick, a limit of 2 mails a day and 2 guesses: the limit is reached and passed |
| inquiry | 2 inquiries, a page size of 1, 2 answers with 2 texts from 2 administrators |
| session | 2 tabs, 2 groups, 3 tokens, 3 requests: one session takes the place of another while a request is under way |
| forms | 2 addresses, 2 ticks to a second, 4 ticks, 4 calls, 2 steps with a code: three codes within one step |
| inquiry form | 2 forms, 4 sends |

`m1` and `m2` stand for two of anything in the part that moves (pages, tabs, players, slots, texts):
they are interchangeable in every part, so the symmetry is sound, and no liveness property is
checked under it. Bounds stand in the guards of the actions that count against them. Except
for `Season`, which never stops, models stop when their bounds are reached, so their
configurations switch the deadlock check off.

### 4.2 Fairness

`Subscription!FairSpec`: the scheduler fires every day and a run that has started moves
on (weak fairness of `CronStep` and `Tick`), because `fetch` gives up on a call that is not answered
and errors are caught; a handler that has begun continues. No request is obliged to arrive, and faults are
never obliged to happen. `PaidService!Fairness` says the same of each part while it moves. For the gate (`GameGating!FairSpec`): a transaction that has begun continues whenever its next
statement can run, which is what PostgreSQL's lock queue and the client's connection give it; that no
transaction waits forever is then a consequence of the lock order, which `SavesAreAnswered` checks.

The pages have no such property: an answer may be lost, and what is checked is what they show once
nothing is under way, which needs no fairness.

## 5. What TLAPS proves

`SubscriptionProofs`, for all groups, requests, periods, days and any number of database errors,
crashes and missed runs, **assuming** `"lost" \notin Faults` (with lost answers the results are false,
as `subscription_lost_answer` shows):

* `BillingInvariant`: the inductive invariant. `TypeOK` and `NoDoubleCharge` are not inductive: that a
  run does not charge again follows only from knowing that what it will compute as a key
  (`RenewalKey`) is still the key that was charged. `RenewalInv` says so: while a renewal is charged and
  not recorded, its row keeps its end and its count of rejections. It rests on `SnapshotInv` (a
  snapshot has the end its row still has), `AnswerInv` (the run's position agrees with what Toss did),
  `RowInv` and `FirstChargeInv`.
* `TypeCorrect`, `NeverChargedTwice`, `ImplementsLedger`, `ExpiryIsFinal`.

and, on top of `BillingInvariant` and under the same assumption:

* `ChargesAreRetriedUnlessStopped`: no failure between the charge of a renewal and its record keeps the next run from asking
  Toss under that key. `RenewalInv` gives the key and the end; `RetryInv` adds that a row whose renewal is
  charged and not recorded is overdue and not expired, since a run that could expire it has been refused by Toss
  and Toss had approved. That the group has not stopped it is a hypothesis, not a result (`subscription_recovery`).
* `EveryPeriodIsPaid`: `PaidInv` says that the start of a period is an order that was paid, or that
  only the first was. A run moves a period to the end it has charged for, and `RowInv` says that nothing
  was paid beyond that end.
* `EveryFirstChargeIsRecorded`: `FirstPaidInv` follows a first charge through the handler: it is about
  to be recorded, is recorded, or met a fault.
* `NoSubscriptionLapsesUnasked`: of the steps that end a live row, the group's deletion marks it, the
  run's cancellation had read the mark, and the run's demotion compares the day with the end its
  snapshot has, which `SnapshotInv` says is the row's.

`GameGatingProofs`, for all groups, requests, starts, scan orders and limits (`Request` finite, because
games are counted):

* `GateInvariant`: a row has at most one holder and nobody moves a locked counter, so what the holder
  wrote is right when it is published; every free game is in the counter.
* `GateTypeCorrect`, `LimitIsKept`, `CounterIsExact`, `ImplementsQuota`.

`SeasonProofs`, for all groups, seasons, games and numbers of requests at a time:

* `SeasonTypeCorrect`, `SeasonOwnership`, `DanglingNeedsRace`, from one invariant: a writer holds a
  season of its own group that is there, or was until a deletion that saw the race (`HeldInv`).

`GameProofs`, for any number of pages, quarters and calls:

* `RecordInvariant`: `OrderedUnlessConcurrent` says nothing about a call that has read and not yet
  stored, so it is not inductive. `Sound` adds what such a call knows: the sequence it is about to store is above
  that of every row it saw, and no row it saw was stored by a call that had seen the one it is about to delete.
* `RecordsAreOrdered`, `UndoIsOfTheLast`.
* `QuietPagesShowTheGame`: `PagesInv` says of a page that nobody disturbed what the answer under way
  will do (`Due`): the row it appends is the newest of the server, the quarter it sets is the server's, a refresh brings the
  log as it is, in whatever order. That a log with one row more or less is a list of the old with that row appended or
  removed is a fact about bijections from a range of numbers.
* `GamesStayTyped`.

`TeamProofs`, for any number of players, teams, devices and calls:

* `TeamInvariant`: that the committed rows obey the key does not follow from itself, since a commit
  publishes what was inserted long before. `Tx` says that the rows of each open transaction, laid over the committed ones,
  obey the key, and `Apart` that no two transactions delete or insert for the same player.
* `PlayersAreInOneTeam`, and `UpdatesReplace`, for which `Tx` follows what an update has deleted and
  inserted as long as no other transaction over its team was committed.
* `TeamTypeCorrect`: the bounds on ids and calls need that ids are given out once.
* `PagesConverge`: `ShowInv` compares the page with the rows there will be (`Ending`) once the updates on their way are
  committed in the order in which they were sent: but for the teams whose timer runs, the page shows those rows
  (`InSync`). A call other than an update is on its way alone, and `Alone` says what its answer will change. It rests on `Tx` (through `TeamInv`) and on the types.

`MembersProofs`, for the parts of `Members`. `MembersAreParts` says that a behaviour of `Members` is one of each
part (the part that moves takes a step, the others stutter), so that a theorem about the part carries over.

* Account, for any number of calls, names, codes and servers, and any waits and limits that are numbers
  (`CodeAssumption`):
  `MembersVerifyOnce`: `Knows` says what a call may rely on from the moment it read a row until it
  acts: the row is of the call's purpose, and unless two of its calls overlap it has served none, and the
  count that a wrong code will store is one more than the row has. A commit that finds no other call let in with the
  same row is therefore its first. It also needs that two signups never commit at once.
  `MembersStartWhole`: between `InsertGroup` and the commit a transaction has the name to itself
  (`GroupsInv`), and one server at a time is past the lock of the template.
  `CodesAreMailedApart`: the wait and the limit are said of rows that are stored, and checked by a call two
  statements earlier. `SpacedInv` says that a check that was passed stays passed: what a call has looked at only
  grows older and fewer, as rows that come later have ids above those it saw.
* Session, for any number of tabs, tokens and requests, **assuming** that null is not a user
  (`NullIsNobody`, a fact about the two kinds of values in the code): `MembersSessionsAreWhole`.
  What a tab shows says nothing about a tab that fell behind and loads again.
  `SessionInv` adds that the storage alone is one session while it is not torn, and that every user held
  anywhere, also by a request in flight, came with a token that was signed for its group.
* Inquiry, for any page size and any number of inquiries and answers: `AnswersAreMailed` (`MailInv`: one
  transaction at a time has the row, and what it is about to commit is the last mail) and
  `InquiriesAreShown` (`LoadInv`: a load under way has the pages it asked for, unless a change made it stale).
* The inquiry form and the forms before login: `MembersFormsSpeakTrue`. `WritingInv` counts for each form that is left
  or open how often what it wrote was stored and what it was told. `FormInv` follows a code from its request to
  the token: the countdown never runs ahead of the mail by more than the beat it took over (`WaitInv`),
  and the token is for the address that was verified (`TruthInv`).
* All six parts: `MembersStayTyped`, from the assumptions on the constants alone (`TeamTypeCorrect` of `TeamProofs` is
  the part of `Team`; `SessionAssumption` says that there is a group to log in to). Domains need more than domains:
  the attempts that a row stores stay within the limit, however many calls try its code at once, as each call
  writes one more than it has read and it has read less than the limit (`CallsFit`; the tries themselves may be
  more, which is why `VerificationsServeOnce` compares them only where no calls overlap). The administrator's page
  never asks for a page without a row, also when rows are added while a load is under way (`PagesInv`). An inquiry
  that is stored was sent, and one that is still under way is not stored yet (`SentInv`). A request to switch the
  group or to rename has a user who sent it, and every token that is stored was signed (`SessionTypes`).

`GameProofs` and `PagesProofs`, for the pages of `GroupPages`, with `PagesAreParts`, for any numbers of games, seasons,
groups, days, tabs and requests, whatever the order of the answers:

* Games page: `GamesAreShown`. `GamesInv` says of each answer under way what it will do to the lists: an
  older generation is dropped, of two loads of a generation the answer of either is what the server has unless a
  move crossed it, and the finished games that are loaded are the newest ones there are, so that the next page
  continues them.
* First page and games page: `ListsOfGamesAgree`; `SelectedGamesAreShown`.
* Pages of a season and of a day: `PagesShowWhatIsSelected`. `ViewInv`: for each part of the page the last request that was
  sent is for what is selected and is under way or was answered (`Coming`, `Came`). `DailyInv`: a load
  under way brings what the server has, or its key is known to be stale.
* Subscription page: `BillingPageShowsTheGroup`. `PostInv` counts how often an authorisation was sent
  against the tabs and reloads that may still send it; `StatusInv` says that an answer under way is the
  group's, unless it is stale.

* Record page: `RecordPagesAgree`, from `GameProofs`.
* Dates: `DatesAlwaysAgree`, for all years from 100 on (`DateBounds`; `Date.UTC` reads a year below 100 as one of
  the twentieth century). A month has 28 to 31 days and `Fields` inverts `MakeDay` within it (`MonthLength`, `DayOfFields`);
  what n months do to the day is carried from one renewal to the next by `DatesInv`.
* `PagesStayTyped`: the types of all eight parts. That the statistics' counters are numbers, the first page's
  lists are no longer than what was asked for, and what is under way answers a request that was sent, needs the
  invariants above.

`StatisticsProofs`, for any finite sets of games, players and items, any number of rows, any integers as values of items, ids and
days, any lists no shorter than one and any margin of a close game (`StatBounds`):

* `RecordsOfPlayersAgree`: streaks, close games, recent form and averages are parts of one record, and two players read the
  games they share alike. `StatInv` is all that is needed of the steps (only who is on a side has rows, which are counted
  by numbers); the rest are laws of what is computed from any such rows.
* `AggregationsAgree`: the table of a day, the score of the day and the rankings; ranks that are shared; the percentiles of an
  axis, which average 50; the shares of a team, which are those of a whole but for their rounding.
* `PagesOfRecordsAgree`: the cards of the first page, the record page and a player's page, but for rows of players or games
  that were deleted.

The laws, each stated once and cited:

* Sums. `MapThenSumSet` is a fold, of which the library says what one element more adds. A sum over S is followed
  through the subsets of S, ordered by how many elements they have (`SubsetsInduct`, `Grow`), which is
  the induction over the numbers of a set of cardinalities and needs no operator as a parameter. From it: a sum of sums may be taken in either
  order, over a union of disjoint sets, and is bounded by its terms.
* Sorted lists. There is one (`SomeSort`: take a least element, and sort the rest), and it has each element of the set once
  (`SortHasAll`), so that what is said of places in it is said of the set.
* Ranks and percentiles: equal amounts share a rank, which is one more than the number of those who are better;
  over everyone who is compared, half-counted ties add up (`HalvesAddUp`).
* Rounding: at most one half from the quotient (`RoundBounds`).
* Runs: the current run is the longest that reaches the last game (`CurrentIs`), and the best run is one of the
  runs and no shorter than any (`BestRunIs`).

### What the proofs corrected

A proof attempt that failed showed in each of these cases a state within the constants' assumptions that the
runs' bounds do not reach.

* `AuthForms`: the history `missing` forgot the reset code that is asked for an address without an account, and is
  therefore not stored.
* `GamesPage` sorted by a choice among the permutations of a list, about which nothing can be proved without an
  induction; it now takes the k-th of a set (`Nth`), which is the same list.
* `EditsConverge` was false beyond the run's bounds, because the history `behind` did not name everything that can come
  between a page and the server. It now also names two transactions over one team that overlap
  (the later commit does not write what the page sent last); a call other than an update that is sent while one
  is under way (the players that `handleResetTeams` loads may be those from before a `deletePlayer`); and
  a player who is deleted while selected and then assigned. Other devices name only players that
  were given an id. The page does nothing against any of these: what it shows is corrected by the next load.
* The counters of `Statistics` have no bound of their own in `TypeOK`: the guard bounds the number of rows.
* `DayAgreesWithRankings` was false once an item has a negative value, which the code allows: a player may then have a total of
  zero and rows. The runs' items were worth 3, 1 and 0; one is now worth −1.
* `Statistics` sorted by a choice that TLC makes among the sorts of a set, one particular order of ties, which
  the code does not promise. It is now any order that the comparator allows.
* The share of the team's points was taken of all items; the code leaves out those that do not score.

### Only model-checked, and why

Every safety property of every passing run is a theorem. What is left are the liveness properties `OverdueIsSettled` and
`SavesAreAnswered`, which need fairness and `ENABLED` and are out of the prover's reach.

## 6. Plan

Done: every module of section 3, its run, and the proofs of section 5.

Left:

1. `Account` as the implementation of an abstract code that is mailed, guessed and used once.
2. Games saved together with their logs, and the quarter they end in.
3. The efficiencies of `computeAbility` and of the team impact.

## 7. Not modelled

* Login throttling, the administrator's guard, health, the HTTP filter, logging and configuration hold no state that handlers
  share, or are the framework's.
* Every handler compares the group of the token with that of its rows before it writes; `Season`
  models that comparison where ids of two groups meet, the other modules start behind it.
* Games saved with their logs store rows without a sequence; `GameLog` begins with a game that has none.
* `createLogitem`, `renameSeason`: one row that nothing else waits for.
* The upload of teams that an older page kept in its storage (its transaction is in `Team`), the administrator's
  card about monetization, the install prompt, notices, the sort of tables and styles.
* Pages that only render what the API returns.
