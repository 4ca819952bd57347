# A TLA+ development of alitellm-auth

alitellm-auth puts OIDC sign-in, a console and an OAuth authorization server in
front of a LiteLLM proxy. The modules in this directory model the parts of it in
which several actors touch the same state, TLC checks them on small instances,
and TLAPS proves the most important results for every size.

Paths below are relative to the repository. `PROJECT.json` maps each definition
to the lines it stands for, and lists the runs, the mutants, the hazards, the
findings and the theorems.

## 1. The system

| part | source | state it keeps | operations | whom it talks to |
|---|---|---|---|---|
| front key | `src/api/app/internal.py` | the `frontkey` record and the `mint` lock of each user, in the store | `resolve_front_key` | store, LiteLLM; called by the gateway and by the console |
| AS store | `src/api/app/oauth_as/store.py` | kind/key records with a TTL (Redis, or memory for one process) | get, put, pop, acquire, release | everything under `oauth_as/`, front key, Den API |
| authorization server | `src/api/app/oauth_as/routes.py`, `grants.py` | `client`, `pending`, `chain`, `code`, `device`, `device_user`, `refresh`, `dexrt` records | register, authorize, Dex callback, consent chain, device authorization and confirmation, token | store, Dex, the service brokers, LiteLLM's user table |
| token signer | `src/api/app/oauth_as/tokens.py` | the signing key | sign, verify, JWKS | – |
| gateway | `authz/*.go` | key cache with inflight marks; discovered JWKS | `Decide`, `KeyFor`, `Verify` | Envoy, `/api/internal/front-key` |
| provisioning | `src/api/app/litellm_client.py` | none; LiteLLM's users, teams, members and keys | `ensure_team_and_user`, `ensure_personal_team`, `generate_litellm_key` | LiteLLM; called by sign-in, the AS callback, the console and the front key |
| key migration | `scripts/migrate-personal-teams.py` | a plan in memory | classify, create, confirm, move | LiteLLM |
| console session API | `src/api/app/session.py`, `auth.py` | the session cookie | sign in and out, list, create, block, move, delete keys; statistics | LiteLLM, front key |
| Den API | `src/api/app/openwork.py` | hand-off grants and desktop tokens in the store | hand-off, exchange, sign-out, MCP tokens | store, front key |
| admin, public, statistics, configuration | `admin.py`, `public.py`, `stats.py`, `latency.py`, `config.py`, `opencode_config.py`, `main.py` | none | read, aggregate, delete a user | LiteLLM |
| genai-token | `clients/genai-token` | a state file and its lock | login, refresh, print, logout | authorization server |
| console shell | `src/ui/src/App.tsx`, `stores/`, `lib/api.ts`, `lib/theme.ts` | session, config and theme stores; the document itself, which navigations replace | load, retry, expire, sign in and out, change theme | session API, other tabs through the cookie |
| console keys | `src/ui/src/hooks/use-keys.ts`, `components/keys/`, `routes/Dashboard.tsx` | the cached list, mutations in flight, dialogs, fresh secrets, toasts | create, revoke, enable and disable | session API |
| console reading pages | `src/ui/src/routes/`, `hooks/use-stats.ts` and its neighbours, `components/stats/`, `components/models/` | query cache, date range, filters, sorting | pick a range, sort, filter, search | session API |
| console figures | `src/ui/src/lib/`, `components/stats/` | none | series, ranking, merging, slices, budget | – |

What is hard here is rarely inside one function. The API runs in several
replicas, so two requests of one user meet in Redis and in LiteLLM; most of the
functions are a chain of awaits with a check at the front and a write at the
back. Records expire between the two. Dex rotates a refresh token that several
sessions share. LiteLLM offers no transactions, a call that fails may have been
applied, and any replica can die in any of these gaps. An administrator edits
the same rows in LiteLLM's own UI. The gateway caches, and refreshes in the
background. The browser caches too: its dialogs close and its pages unmount while
answers are on their way, the session ends behind its back, and a figure on the
screen is the answer to a question that may have changed since.

What makes each part correct:

* front key: nobody gets another user's key; concurrent requests do not mint
  over each other; a key that was discarded stays discarded; a held
  mint lock is that of a mint at work or of a dead replica;
* device and code grants: one authorization, one pair, for the client that asked
  and a person who logged in for it; the browser is not sent round for ever;
* refresh grant: a session never forks, a disabled user is out, a session does
  not get back a service it lost, and a refusal means what it says;
* gateway: a key stands for the credential it replaced; the order of the headers
  is a contract; the cache comes round to the user's key;
* provisioning: no key in a team that does not exist; hand-made changes and
  other systems' teams and keys survive;
* console shell: nobody is thrown out of a live session, an expired one does not
  flicker back, the loading card gives way; the theme shown is the theme chosen;
* console keys: a secret that is sent once is seen once; what was revoked stays
  gone; a list at rest is true of what nobody else has changed;
* console pages: the range is one the server accepts, a panel speaks of the range
  selected, "none" is said only of an answer that says so, and the figures add up.

## 2. Modules

A module models one component, at the grain of its awaits: every call to the
store, Dex or LiteLLM is one atomic step, and anything may happen between two of
them. In the browser, an event handler and the render it causes are one step;
a fetch is its request, the server's answer and its delivery. `MC<module>`
instantiates it for TLC. Definitions named as mutants in a comment are deliberately
wrong versions of the definition after them; they are not part of `Next` and exist
to show that the properties can fail.

| module | models | state ↔ code | actions ↔ code |
|---|---|---|---|
| `KeyRegister` | what `resolve_front_key` promises: one slot per user | – | Mint, Install, Take, Forget, Empty |
| `FrontKey` | `internal.py` | `frontkey`, `lock` are the store's records, `owner`, `live` LiteLLM's keys, `pc`, `key` the locals at each await | one action per await of `resolve_front_key`; `GenerateLost`, `PutFails`, `Crash`, `LockExpires` are the failures |
| `DeviceGrant` | the device grant in `routes.py` | `device`, `index` are the two records; `bpc…`, `ppc…` the handlers | `DeviceConfirm`, the as-callback, the read, write and index removal of `_device_settle`; a poll's read, take and issue; expiry; callbacks and polls dying |
| `RefreshGrant` | the refresh grant, `_revalidate_at_dex`, and the login that replaces the Dex token | `dexrt`, `refresh` in the store, `dexGen`, `honours` at Dex | each await of the grant, one look at the grants per service, each answer of Dex, logins in between, expiry of both records, crashes; grants revoked and given again |
| `AuthCode` | authorize, callback, consent chain, redemption | `pending`, `chain`, `code` records; `fscopes` the requested services, a list that may repeat them; `ask`, `got` the walk over it | one action per store call and per look at the grants; brokers and consents are external |
| `KeyCache` | `authz/keys.go` | `cache`, `inflight` under the mutex, `front` what the API holds | cached, stale and cold `KeyFor`; a fetch answers, stores or fails, clears its mark |
| `Gateway` | `authz/decide.go`, `server.go`, `config.go` | one request: path, headers, decision | the branches of `Decide` and `userPath`; verification and key resolution succeed or fail |
| `Provisioning` | provisioning in `litellm_client.py`, the migration script | `team`, `user`, `member`, `key`, `row` in LiteLLM (`key` where a key is, `row` what its listing says of prefix, source and owner); `proc` the locals of each call, `script` those of the migration | one action per LiteLLM call; the script lists, classifies, checks, creates, confirms and moves; an administrator attaches groups, opens permissions and moves keys to teams of ach |
| `ConsoleSession` | the console shell: `App.tsx`, the stores, `lib/api.ts`, `Login`, `AppShell` | `page`, `nav` the document and where it is going; `status`, `me`, `hasLoaded` the session store; `req` the fetches; `cookie` the server's session | `loadSession` and its delivery, the 401 hook, the redirect effect, clicks; reload, unload, back/forward cache; the session ends, another tab signs in |
| `ConsoleTheme` | `lib/theme.ts`, `stores/theme.ts`, `ThemeToggle`, the pre-paint script of `index.html` | `stored`, `denied` the storage the tabs share, `system` the preference; `tab` each document's class and store | a document is painted, its store is made, the theme is toggled; the system changes |
| `ConsoleKeys` | the keys dashboard over `session.py`'s key operations | `list`, `inv`, `fetch` the query; `mut` each mutation and how far it got; `keys`, `blocked` LiteLLM's rows; `fresh`, `result`, `target` the dialogs | each handler of the dialogs and rows; the server lists one page, checks and then acts, each able to fail or to lose its answer; others delete, block, unblock and mint |
| `StatsFigures` | the pure functions behind the panels | – | series, `sortRows`, `mergeTopKeys`, `rankSlices`, `displayNames`, KPI cards, budget |
| `ConsolePages` | Stats, Models, MCP, A2A, the dashboard's tiles and the model picker of the how-to page, over the query cache | `cache`, `fetch` by query key; `range`, `cal`, `usage`, `panel`, `modes`, `caps`, `search` the local state of pages and panels | presets, calendar, sorting, filters, navigation, reconnects, failures, midnight |
| `Subjects` | the people that `Gateway` and `KeyCache` name alike | – | – |
| `…Proofs` | theorems about the module they extend; `TokenPathProofs` about `AuthCode`, `Gateway` and `KeyCache`, the path of a token from the ceremony to the proxy | | |

`FrontKey` composes with `KeyRegister` by refinement, and `KeyCache` takes the
API to be what `KeyRegister` promises: it answers with the user's key at some
moment during the call, re-minting a dead one. `ConsoleKeys` composes the browser
with the server's key operations, and `ConsolePages` extends `StatsFigures`: the
figures are evaluated on whatever the cache holds when a panel is drawn. The
definitions of `Gateway` and `KeyCache` carry the prefixes `Request` and `Cache`
(`RequestSpec`, `CacheSpec`, …), so that one module can speak of both.

Sorting and filtering are given by rank (`Arranged`: the n-th element is the one
with n - 1 before it), which is what a stable sort and `Array.filter` return, and
which can be reasoned about without induction.

What is abstracted: tokens, codes, e-mails and keys are model values; a signed
token cannot be forged; a Dex refresh token is its generation, and Dex honours
only the newest; a TTL is an expiry that can come at any time (of every record but
`mint`, whose expiry under a live holder is switched by `LockOutlived`); an access
group is a name; a user's budget is set or not; a header value is a prefix and a
token. Deletion of a team in LiteLLM takes its keys along and is left out; no
code changes the stamp that makes a team ours once it exists, and no action does.
`/team/new` may answer without effect where the script creates a team, because the
script distrusts the answer; a sign-in believes it, and there it is true. In the
console a day is a number, the months and years its functions; a model name is a
number whose tens are its provider; a search is "matches some" or not; a figure
the API may omit is `Missing`; the token columns of the usage table are one
column; the statuses of outcomes are lower-case, as the API sends them. What the
wording, layout and formatting of a panel depend on is kept, the text is not.
TanStack Query is external and modelled from how the hooks use it: one fetch per
key, aborted when nobody observes it, an entry that outlives its page,
`invalidateQueries` dropping the read under way when there is data.

## 3. Runs

`tlc -config <cfg> MC<module>` in this directory. The runs of one module differ
in the question, not in the model.

| run | bounds | what it shows |
|---|---|---|
| `front_key_orderly` | 3 requests, 2 users, 2 keys; no lock expires under its holder | `OwnKey`, `MintedUnderLock`, `NoOverwrite`, and `ImplementsRegister`: the lock protocol is one register per user |
| `front_key_worst` | 2 requests, 1 user, 3 keys; locks expire under their holder | `NoResurrection`, `RejectedNotReturned`, `LockHasHolder`, and that requests end |
| `device_grant` | 2 pages whose callbacks do not race (`PagesRace`), 2 polls, 2 clients, 2 people | `SingleRedemption`, `TokensAreApproved`, `SettledOnce`, and that an approved code is redeemed unless it expires or its poll dies |
| `device_redeem_twice` | 2 pages whose callbacks race | finding: one code, two pairs |
| `refresh_grant` | 2 requests, 2 logins of one user, 2 tokens, 3 Dex generations, faults | `DisabledIsOut`, `SessionNeverForks`, `ServicesOnlyLeave` |
| `auth_code` | 2 ceremonies, 2 handlers, 2 clients, 1 user, 2 services; scopes that name none, two, or one twice | `OnePairPerAuthorization`, `PairIsTheCeremonys`, `DeclinedIsLeftOut`, `CeremonyEnds` |
| `key_cache` | 2 checks, 2 goroutines, 3 keys | `OneRefreshPerUser`, `CacheConverges` |
| `gateway` | 2 declared headers, every value of every header | `KeyStandsForCredential`, `ForeignAuthorizationKept`, `OrderIsTheContract` |
| `provisioning` | 2 calls at a time, 2 groups, 1 key of any prefix, source, owner and place, the script, an administrator | `NoFailOpen`, `NeverBare`, `OneCapWriter`, `ForeignTeamKept`, `OnlyOursMoves` |
| `console_session` | 2 users, 2 loads, 2 queries, 1 mutation, 2 routes | `LoadsNeverStack`, `ThrownOutOnlyIfLapsed`, `ExpiredIsFinal`, `CardGivesWay` |
| `console_keys` | a foreign key and one to be minted, 2 toggles, pages of 1 key, 3 mutations of the document or of others | `SecretNeverDropped`, `RevokedStaysGone`, `SettledRowsAreTrue` |
| `console_pages` | 4 days in 2 months, 2 of them today, a cap of 2 days, 2 events | `RangeSound`, `PanelsTellTruth`, `KeysListedOnce`, `FiguresAddUp` |

Why the bounds are enough to be of interest: each race in these protocols is
between two actors, and a third request is there only where a lock or a register
could behave differently with one more waiter. A process starts again
when it ends, so two processes give unboundedly many calls, two at a time. Two
pages are one that settles and one that comes too late. Two scopes of two services
are the shortest list that repeats one, and a list with two hops. Three
keys let one be dead, one current and one freshly minted at once. Three Dex
generations are a login, a rotation and another. One user is enough where records
of different users never meet; `FrontKey` has two where a mix-up is what is
being excluded. `Keys`, `Tokens`, `MaxGen` and `MaxKey` bound the counters of the
server's modules; a run in which they are used up continues with what is left.

In the console: a second load exists for a stacked reload to use, and a second
toggle for overlap. A page of one key, with two in the account, is the smallest
instance of "more keys than the listing returns". `MaxOps = 3` mutations, of the
document or of others, are a create, a delete and a toggle, or two toggles and a
change by somebody else. `MaxEvents = 2` counts
clicks, reconnects and failures of a document; reads and answers are not counted,
so two range changes already give three ranges with answers in any order. The caps
(`MaxRangeDays`, `TopN`, `SliceN`) and the preset windows are scaled down to where
four days and four rows exceed them. The answers in `MCConsolePages` are chosen so
that each state of each panel occurs: rows without id, alias or share, two rows of
a regenerated key, an idle namesake of an active key, ties,
models beyond the slices, failures above the requests, a budget reached and
exceeded, a degraded gateway. All four properties are proved for every value of
these bounds and every answer.

The largest runs are `refresh_grant` and `provisioning` (2.7 million distinct states
each); `console_keys` has a million, `console_pages` 600,000, whose properties take
the longest to evaluate. `ConsoleTheme` is small and is proved rather than run:
`ConsoleTheme.cfg` checks it on two tabs (2,084 states).

`CHECK_DEADLOCK FALSE` appears in `DeviceGrant` and `RefreshGrant`, where all
codes or tokens can be spent and nobody has anything left to do, and in
`ConsolePages`, where the last day may have come and the events be used up.

Fairness, in the five runs that check liveness:

* `FrontKey` (`front_key_worst`): weak fairness of a request's own steps. A call to
  LiteLLM has a client timeout; a call to Redis has none, and is taken to be
  answered or to break with its connection. And of lock expiry, because the store
  sets a TTL;
* `DeviceGrant`: strong fairness of the polls of the terminal that asked for a code,
  which polls it again and again (`DEVICE_INTERVAL`), and of the steps of a poll,
  because not every one of them dies with its replica. Nothing is assumed of
  browsers;
* `AuthCode`: a handler is never stuck at an await; a pending or chain record is
  followed up or expires. Nothing is assumed of consent;
* `KeyCache`: users keep coming, the TTL passes, a fetch ends by its timeout, and
  not every fetch fails. Without the last one a cache in front of a dead API
  could not converge, and does not;
* `ConsoleSession`: a fetch settles, because the browser gives up on a silent
  server, and its continuation runs; effects run; a navigation that was started is
  carried out. Nothing is assumed of the user, the session or the login ceremony.

## 4. Findings

1. `device_redeem_twice` (`PagesRace = TRUE`). `_device_settle` reads, checks and
   writes without comparing again (`routes.py:567-572`). The write of a slow
   callback recreates a code that has been redeemed, and it is redeemed a second
   time. The comment at `routes.py:763` says "approved: single redemption".
   `SingleRedemptionCorrect` and `SettledOnceCorrect` prove, for any number of
   pages, that nothing but this race does it.

Six more statements of the code's own documentation fail in the models. They are
kept in their modules, outside the runs; adding one to the named configuration
makes TLC print the behaviour.

2. `DiscardedKeyIsDead` (`FrontKeyOrderly.cfg`, as PROPERTY). The pop after a failed
   liveness check removes whatever the record holds by then (`internal.py:86`). Two
   requests that read the same revoked key: the second discards the key the first
   has just minted. The docstring (`internal.py:4-12`) says "a revoked or expired
   key is discarded" and "both callers end at the SAME key". `DiscardWithoutOverlap`
   proves the statement where nobody else runs for the user between the read of the
   key and its pop.
3. `RefusalMeansDishonoured` (`RefreshGrant.cfg`, as INVARIANT). A refusal by Dex is
   retried only if the stored token has changed; between a sibling's rotation at Dex
   and its put it has not, and the session of a user in good standing ends
   (`routes.py:675-687`). The docstring (`routes.py:667-668`) says "a refusal is
   retried once with the token stored now". `RefusalWithoutOverlap` proves
   the statement where nobody else of the user is at Dex meanwhile and every token
   Dex makes reaches the store, with rotation and expiry.
4. `GroupsOnlyGrow` (`Provisioning.cfg`, as PROPERTY). `access_group_ids` is read,
   merged and written in separate calls; a group attached in between is dropped
   (`litellm_client.py:1327-1376`), although the docstring (`:1256-1258`) says that
   a login "never removes a group". No administrator is needed: a mint that created
   the team knows no SSO groups, and writes over those a concurrent sign-in has
   attached. `GroupsGrowWithoutOverlap` proves the statement where no two calls, and
   no call and the administrator, attach at the same time. The backfill of a user's
   budget (`:430`) has the same shape.
5. `AchTeamsKept` (`Provisioning.cfg`, as PROPERTY). The script plans from one listing
   and sends `/key/update` (`migrate-personal-teams.py:327`) without reading the row
   again: a key put in a team of ach meanwhile is moved out of it. Its help (`:42`)
   says "NEVER touch keys currently in a team whose id starts with "ach-"".
   `OnlyOursMoves` is what holds: no such key moves but one that came there after
   the listing.
6. `FirstRenderMatches` (`ConsoleTheme.cfg`, as PROPERTY). The comment of the theme
   store (`stores/theme.ts:5-6`) says that it "matches the class already on <html> at
   first render — no flash, no mismatch". Storage and system preference are read
   twice; a change between the two, by another tab or the system, breaks it, and so
   does a storage that cannot be read, where `index.html` leaves the dark class
   whatever the system prefers.
7. `EveryKeyListed` (`ConsolePages.cfg`, as INVARIANT). The header of `top-keys.ts`
   (`:4-6`) says that the panel "should still list the user's keys (idle ones
   included)". A key is left out when an activity row has its alias (`:29`), and two
   keys may share a friendly name (`litellm_client.py:538`): the idle one of the two
   is dropped. `KeysListedOnce` is what holds.

Also visible in the models, without a run of its own:

* when a mint takes longer than its 10 s lock, its `release` frees the lock of
  whoever holds it by then, so two mints can overlap (`LockOutlived`; `OwnKey`,
  `NoResurrection` and `RejectedNotReturned` still hold); two racing callbacks can
  change a verdict; a poll that dies between its GETDEL and the new pair has spent
  the approval (`spent` in `ApprovedIsRedeemed`); two concurrent logins can store the
  older of their Dex tokens last;
* a document that the Back button restores after its session expired keeps the
  loading card: the redirect effect (`App.tsx:102`) ran before. `CardGivesWay`
  excludes it by `restored`. In the same way the sign-in button comes back
  disabled. Another tab that signs in as somebody else goes unnoticed until the
  next `/me`;
* a mutation that failed reads nothing again (`use-keys.ts:120`), so after an answer
  lost behind a change the row stays wrong. A change by another tab or by an
  administrator shows only at the next read, and there is none on focus, nor within
  30 s of the last (`query-client.ts:14-16`). `SettledRowsAreTrue` excludes both by
  `late.list`, the keys changed behind the console's back since the list was read. A
  session that expires unmounts the shell, and a secret in the dialog with it, which
  `ConsoleKeys` does not model. The row menu starts a toggle from the row it shows,
  also while one is in flight (`KeysTable.tsx:288`);
* a listing is one page (`litellm_client.py:693`): a key beyond it is never shown and
  every action on it is refused. No property says otherwise, as no line of the code
  does;
* a tab does not hear of a theme chosen in another tab, nor of a system that changes:
  it keeps what it shows until it is loaded again (`outdated` in `ThemeAgrees`);
* a mode selected on Models can vanish with a refetch; the table is then empty, the
  mode chips are hidden (`Models.tsx:371-383`), and only navigation brings them
  back; `PanelsTellTruth` counts it among the user's own filters;
* a custom range is not clamped in the browser (`Stats.tsx:146`), so the server may
  refuse it: the cap in `RangeSound` is about presets;
* comments the models disagree with: `UsageDonut.tsx`'s header says that a list of
  models without spend is "empty", the code asks only for its length;
  `budget-meter.tsx:21` says that the caller guarantees a positive maximum, while
  `BudgetPanel` passes the 0 that `stats.py:521` lets through; `ErrorsDonut` compares
  outcomes without regard to case, `errorRate` (`LatencyPanel.tsx:44`) exactly.

## 5. Proofs

`tlapm <module>.tla`. Every theorem holds for all values of the constants that
satisfy the module's `ASSUME`, which says that the "none" values are not members of
the sets, that flags are Boolean and caps positive; that a request names a list of
services; that the services are finitely
many and the declared headers a list (both are read from the configuration); that a
check of the gateway is not one of its goroutines; of `ConsolePages`' calendar that
a month starts no later than its days and has finitely many, of its tables that
the headers clicked are theirs, of the API that a figure is a natural number or
missing and that the list of the user's keys has one row per id, which is the hash
of an alias that LiteLLM keeps unique (`litellm_client.py:535-543`). Activity rows
may share an id: `resolve_key_display` (`stats.py:598-616`) gives the two hashes of a
regenerated key one.

* **`FrontKeyProofs`**: `TypeOK`, `OwnKey`, `NoResurrection`,
  `RejectedNotReturned`, `LockHasHolder` without further assumptions; `MintedUnderLock`,
  `NoOverwrite` and the refinement of `KeyRegister` assuming that no lock expires
  under its holder. None of these is inductive alone. `IInv` adds where a key can
  be at each await: what the local `key` is (`KeyAtStep`); that a minted, unstored
  key is known to its minter only (`FreshKey`), which is why a late put cannot
  bring a discarded key back; that a key found dead has been dropped once it is
  popped (`RejectedIsDropped`); and that whoever is critical holds the lock
  (`LockHeld`). The refinement maps a minted key that is not stored yet to one
  nobody holds; each await is then a register step or a stutter.
  `DiscardWithoutOverlap` is the second finding's statement under `[]PopsAlone`: what
  is popped is then the key that was read and found dead (`PopsWhatItRead`).
* **`DeviceGrantProofs`**: `TokensAreApproved` for any number of pages, from the
  trail an approval leaves (`ApprovalTrail`: browser, record, pair).
  `SingleRedemption` and `SettledOnce` hold for any number of pages, assuming that no
  two callbacks read the code pending before either writes, which the first finding
  shows to be necessary; `OneSettler` says what such a callback may rely on: from its
  read to its write the code is neither settled nor taken nor redeemed.
* **`RefreshGrantProofs`**: `TypeOK`, `SessionNeverForks`, `DisabledIsOut`,
  `ServicesOnlyLeave`, with or without rotation and faults. A session is in exactly
  one place: a login that has not issued, a token in the store, or the request that
  consumed it (`SessionInOnePlace`). Hence the services of its one token are all it
  can hand on, and what it lost, no token of it names; a grant missing ever since a
  request arrived is missing at every look (`ScopeInv`).
  `RefusalWithoutOverlap` is the third finding's statement under `[]DexAlone`, nobody
  else of the user is at Dex meanwhile, and `DexTokenStored`, what Dex makes is
  stored: the token on file is then Dex's newest, absent, or about to be replaced by
  it (`FileIsCurrent`).
* **`ProvisioningProofs`**: `TypeOK`, `NoFailOpen`, `NeverBare`, `OneCapWriter`,
  `ForeignTeamKept`, `OnlyOursMoves`. `CallInv` is what a call knows at each step (past
  `/user/new` there is a user, past `/team/new` a team, and a team it holds for
  its own is ours); `Monotone`, that no step takes any of this away, carries it
  past the steps of others. `CapInv` says that the creator of the user is the
  only one on its way to the cap. `OnlyOursMoves` follows from what is true of
  the plan for as long as it is held (`PlanInv`), which begins with what `classify`
  lets through (`ClassifiedIsOurs`). `GroupsGrowWithoutOverlap` is the fourth
  finding's statement under `[]OneAttach` and `ByHandApart`: a call that is about to
  write the groups knows all of them (`GroupsRead`).
* **`TokenPathProofs`**, for any number of ceremonies, handlers, headers, checks and
  goroutines. `AuthCode`: `TypeOK`, `OnePairPerAuthorization`, `PairIsTheCeremonys`,
  `DeclinedIsLeftOut`. A ceremony is in one place, pending, with one handler, in a
  chain record, in a code or over, because every take is a pop (`InOnePlace`); what
  a handler still has to look up, and what it found granted, is of the request
  (`WalkInv`), so what a code carries was asked for and consented to (`Proper`).
  `Gateway`: `KeyStandsForCredential`, `ForeignAuthorizationKept`,
  `OrderIsTheContract`. The header the decision speaks of is ours throughout: the
  first declared one that is present, or a Bearer token when none is (`Ours`; that
  there is a first one is `FirstSlot`, from the well-foundedness of the numbers).
  `KeyCache`: `CacheTypeOK`, `OneRefreshPerUser`, from the mark a goroutine holds
  until it ends (`MarkedInv`).
* **`ConsoleSessionProofs`**: `LoadsNeverStack`, `ThrownOutOnlyIfLapsed`,
  `ExpiredIsFinal`. A load holds the status at null and is alone
  (`LoadsAlone`), so neither the retry button nor a page is on the screen; a page
  has requests only over a session that was loaded (`PagesOverSession`); a 401 of
  the session API, and the state it leads to, mean that the session ended since
  (`LapseKnown`). And of `ConsoleTheme`, for any number of tabs, `ThemeAgrees`:
  where nobody has changed the theme since, the script painted what the store is
  about to read, and what the store read is what was painted (`ReadsStand`).
* **`ConsoleKeysProofs`**: `SecretNeverDropped`, `RevokedStaysGone`,
  `SettledRowsAreTrue`. The answer of a create finds the dialog empty, and an open
  dialog shows what it holds (`SecretKept`); ids are not minted twice (`DeleteDone`);
  deleting and toggling start from a list, so the read of before is always dropped
  (`ActsOnData`); a row on its way, or in a list that will not be read again, is
  true unless a mutation that took effect is about to read again, or the key was
  changed behind the console's back since the server listed it (`FetchTrue`,
  `ListTrue`).
* **`ConsolePagesProofs`**: `RangeSound`, `PanelsTellTruth`, `KeysListedOnce`,
  `FiguresAddUp`. `RangeInv` adds that the two ends picked in the calendar are in
  order, and lemmas that `clampRange` and `presetToRange` return a window of at
  least one day within the cap; `CacheInv` that an entry and a read in flight sit
  under the key of the query that was asked and hold an answer to it, which with the
  injectivity of `queryKey` gives that an observed entry answers the observed
  question; `PanelInv` that each table is sorted by one of its columns. The rows
  shown rest on lemmas about the operators: a strict order on a finite set lists it
  without repetition (`ArrangedLists`), so filtering keeps what passes
  (`RowsAtKeeps`), sorting keeps the rows and puts them in order (`SortedByKeeps`),
  and the merge lists every key but a namesake of an active one, none beside its
  activity (`MergeListsEveryKey`). The sums of `FiguresAddUp` are a recursive
  function, and no induction theorem can be instantiated here, so each fact about
  them is proved from its least counterexample (`LeastNumber`): a column has running
  totals (`TotalsExist`), only these (`TotalsUnique`), and its sum is the last of
  them (`TotalIsLast`). Hence a sum loses what is taken out of the column
  (`TotalWithout`), splits anywhere (`TotalSplit`) and does not depend on the order
  (`TotalAnyOrder`). The donut sorts the models, names the first and adds up the
  others (`SlicesRanked`), so it is worth all of them; and a model that spent more
  than a named slice stands before it in the sorted list, which bounds how many
  there are (`DonutIsSound`). The other parts have a lemma each: `BarsAreSound`,
  `TypesShow`, `BreakdownShows`, `LatencyShows`, `BudgetIsSound`.

Only model-checked: liveness (`RequestsEnd`, `ApprovedIsRedeemed`, `CeremonyEnds`,
`CacheConverges`, `CardGivesWay`), which needs fairness, which this prover does not
handle. Every invariant and action property that a passing run checks is a theorem.

## 6. Not modelled

* Redirect URI matching and client metadata: strings without state. The token
  signer: cryptography. The in-memory store on its own: it serves one process. The
  rediscovery of a moved `jwks_uri`.
* In the session API: moving a key to another team (`useChangeKeyTeam` exists, no
  component calls it), the choice of a team in the create form, the group claim
  and the OIDC state of the login.
* Aggregation of spend and latency (`stats.py`, `latency.py`), configuration,
  public and administrative reads: no state, and no interleaving to explore.
* The Den API (`openwork.py`) and `clients/genai-token`: both have state of their
  own and hazards listed in `PROJECT.json` that no property covers.
* Of the console: layout, wording, formatting, clipboard, charts' geometry, the
  snippets of the how-to page and the generic widgets of `components/ui`.
* The mocks, the chart, CI.

`PROJECT.json` gives the reason for each component.

## 7. How the development is ordered, and what is left

The modules were written by the weight of what can go wrong: the front key and its
register; the device, refresh and code grants; the gateway; provisioning; then the
console, with its session, its keys against the server's key operations, and its
reading pages over their figures. Runs are kept few: a module brings one, and two
where one specification answers two questions.

What would come next, in this order:

1. `OpenWorkDen`: hand-off, exchange, sign-out and MCP tokens, on the same store;
2. `GenaiToken`: the state file and its lock against the server's rotation,
   composed with an abstract refresh grant that `RefreshGrant` is to implement;
3. `Jwks`: discovery, rediscovery and the verifier of several issuers
   (`authz/jwt.go`);
4. spend and latency aggregation as operators with reference definitions; the
   lemmas on sums of `ConsolePagesProofs` apply to them.
