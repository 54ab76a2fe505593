# Verification of graph-azure

`graph-azure` is a JupiterOne integration: it reads one Azure tenant (Microsoft Graph) and its
subscriptions (Azure Resource Manager) and turns what it finds into entities and relationships of
the JupiterOne graph. This directory holds TLA+ models of it, the TLC runs that check them on small
instances, and TLAPS proofs about them for every instance. Source lines are named in
`PROJECT.json` under `map`.

## 1. Inventory

| part | source | state | operations | correct when |
| --- | --- | --- | --- | --- |
| resource-manager client | `src/azure/resource-manager/client.ts` | cached credentials; per listing: next link, response; per request: remaining attempts | `getAuthenticatedServiceClient`, `retryResourceRequest`, `request`, `requestWithAuthErrorhandling`, `iterateAllResources` | each resource is handed over once, in order; nothing is lost without an absorbed error; only retryable errors are retried; listings end |
| graph client | `src/azure/graph/client.ts`, the listing loops of the three clients under `src/steps/active-directory` | access token, refresh flag, attempts, next link | `request`, `retryRequest`, `iterateResources` | an expired token is replaced and not sent again; callback errors do not end a listing; listings end |
| service clients | the `client.ts` of every service, 40 classes | none of their own | 172 methods that a step calls | every page arrives, none twice; outages are retried; a missing permission is reported and costs no step; a call ends |
| step executor | JupiterOne SDK (external), `src/index.ts` | state of each step | start, settle | a step starts after everything it builds on; no step waits for one that is disabled |
| start states | `src/getStepStartStates.ts`, `src/config.ts` | configuration flags, disabled ingestion sources | `getStepStartStates` | no group of steps needs a step of another |
| active-directory steps | `src/steps/active-directory/index.ts` | job state: entities, relationships, two data items | twelve execution handlers | no edge without its ends; no edge lost to the schedule; no key added twice; account and registration details are there in time |
| access packages, conditional access | `src/steps/active-directory/{access-groups,conditional-access-policy}` | job state | 26 handlers | as for the steps below |
| resource-manager steps | `src/steps/resource-manager/*`, 34 directories | job state; maps passed by `setData` | 186 handlers | each waits for what it looks up; what it throws without is there; no edge without its ends; no loss without a failed step that declares it |
| converters | `*/converters.ts` | none | pure functions | keys agree between the step that adds an entity and the one that relates it |

**Interaction.** `index.ts` registers 224 steps. The executor starts a step when the steps in its
`dependsOn` have settled, successfully or not, and runs independent steps concurrently; three steps
(`dependencyGraphId: 'last'`) wait until nothing else can run. A step that depends on a disabled one
never starts. A step makes a client, lists resources through it, and for every resource the client
awaits the step's callback, which adds to the shared job state or looks up (`hasKey`, `findEntity`,
`iterateEntities`, `getData`) what earlier steps left there. What a failed step, or one that depends
on it, declares in `entities` and `relationships` is kept from the last run.

**What is hard.** Errors in the middle of a paginated listing: some are retried, some absorbed and
some thrown, at three levels (retry loop, `request`, listing loop), and what was delivered before
stays; the hand-written listings of the services have each their own answer. Tokens that expire
between attempts. Lookups whose result depends on the order of concurrent steps, among 224 of them
whose `dependsOn` is kept by hand. Steps that fail half way, with dependents that start anyway.
Configurations that enable a step without what it needs. `PROJECT.json` lists these hazards one by
one, each at its line, with the properties that cover it.

## 2. Modules

| module | what it is |
| --- | --- |
| `PagedListing` | abstract: what any listing promises to the step |
| `ResourceManagerClient`, `ResourceManagerClientProofs` | one client object in one step: token, retry loop, `request`, `iterateAllResources`; it implements `PagedListing` |
| `GraphClient`, `GraphClientProofs` | the same for Microsoft Graph, with tokens that expire |
| `ServiceClients`, `ServiceClientsProofs` | every method of the forty clients, and one call of one of them |
| `StepScheduler`, `StepSchedulerProofs` | the executor as the steps rely on it (external) |
| `DirectorySteps`, `DirectoryStepsProofs`, `DirectoryDeliveryProofs` | the twelve directory steps on `StepScheduler`, object by object |
| `StepEffects` | what a handler does to the job state, as a sum of effects |
| `ActiveDirectorySteps` ... `SynapseSteps` (22 modules) | the steps of the services, each with its handler |
| `StepTable`, `StepStartStates` | `integrationSteps` of `index.ts`; which of them a configuration enables |
| `Ingestion`, `IngestionProofs` | one run of the integration over any table of steps |
| `MCResourceManagerClient`, `MCGraphClient`, `MCDirectorySteps`, `MCIngestion` | values of the constants for TLC; `MCIngestion` puts the table into `Ingestion` |

**ResourceManagerClient.** `phase` says at which `await` the code is. A resource is a number, a
listing is `Pages` pages that end at `PageEnd[p]`, and `nextLink` is the page a link leads to, with
one more value for the invalid skiptoken of `client.ts:455-462`. `attemptsRemaining` and `failures`
belong to the current call of `retryResourceRequest`. Errors are the classes the code tells apart,
nothing else about them matters. The service answers every request in every way; whether it may
answer a page with an empty response (404, subscription not registered) is the constant
`EmptyPages`, and whether the endpoint passed in has a `listNext` is `FollowsLinks`. A step may make
a further listing after one that threw. The SDK's retry policies under the loop are not modelled: an
answer is what comes out of them.

**GraphClient.** `token` is the cached access token of `GraphAuthenticationProvider`, `rejected`
remembers that Graph has refused it in this request. The token may expire at any time. `Status401Too`
chooses the loop of `iterateResourcesforApprover`. `nextLink` is stored before the callbacks run, as
in the code.

**ServiceClients.** The two modules above follow a listing request by request; this one asks what
each of the 172 methods makes of them. The first half classifies a method by what the code decides:
after which errors it asks again, how it asks for further pages, what it takes for an answer
without resources, which errors it absorbs, whether it goes on when a callback throws, what it does
outside `request()`, and what a storage account must offer (`Kinds`, `SkuTiers`) before it is asked.
The second half is one call of one method: it waits for the token first, outside every catch
clause but that of `getASGs`, asks for a page until it is answered or the attempts are used up, and
hands it over. Errors are told apart as far as some method does. A 403 is `forbidden`, or `denied`
when its body has a code: `request()` throws that code in place of the status (`client.ts:359`), and
the catch clauses that look for the number 403 miss it (`client.ts:474`). `foreign` is the 401 with
AKV10032 in its message. An undefined for a next link is asked for again (`Undefined`, `AskAgain`).
An error can be replaced by one of the catch clause itself (`storage/client.ts:381` takes a number
or an undefined for words).

**StepScheduler.** A step is pending, running, done or failed and may start when its `dependsOn`
have settled. Nothing else is assumed: not the order of independent steps, nor how many run at once.

**DirectorySteps.** One action per callback. `todo[s]` holds the items the listing of step `s` has
still to hand over, in any order; a callback's `addEntity` and `addRelationship` are one action (no
step looks at an entity in order to find the relationship added with it). A listing can lose items
at any point (an absorbed 403 or 404, a callback error) or throw. What `GraphClient` shows about
listings is the interface: items are handed over at most once, and a listing that lost none hands
over all. The tenant does not change during a run. `addedTwice` records what the job state would
refuse as a duplicate. A role assignment is a principal, a role and a scope, and its relationship is
made of the first two alone. `getAccountEntity` ends a run when it finds no account; that is the value of
`withoutAccount`.

**The table of steps.** A handler is the sum of its effects, and its definition has the name it has
in the code: `fetchSubscriptionUsageDetails == Account (+) Under("azure_subscription", "HAS",
"azure_usage_details")`. Entities are told apart by `_type`: which of two virtual machines a disk
belongs to is data, that the disks are related to virtual machines found in the job state is
control. The effects say what is read with and without a default (`gets`, `reads`), iterated, found,
added (`adds`, or `each` for every entity of another type), related, and without what the handler
throws (`demands`); `needs` and `knows` say what else a relationship depends on. `id`, `dependsOn`,
`entities` and `relationships` are those of the code, its mistakes included.

**Ingestion.** `Handler`, `DependsOn` and the rest of the table are constants, so that the theorems
hold for any table. An entity of a type is there when a step that adds it has ended; a handler looks
at the job state when it ends, and `NothingArrivesLate` says that it might have looked at any time
since it started. A step fails because its handler throws for want of something, or, `Losses` times,
for a reason of its own, with what it added or without it. `focus` limits the interleavings for TLC:
the steps outside it run as soon as they can, all at once. With `Foci = {Steps}` there is no limit,
and the theorems are for every `Foci`. `FullStates` are the sets of steps that a configuration
enables when no source is disabled. `FullEntities`, `FullData` and `FullRelationships` are what the
runnable steps can leave at most; `OutcomeIsDetermined` compares the job state with them.

Three sets name what the code does not keep, so that the properties can be stated of all the rest:

- `Races`: a step looks up what another adds and does not wait for it. `rm-skipped-subscription` and
  `rm-management-groups` against all readers of their types; `rm-storage-resources` against five
  network steps that make diagnostic settings; `ad-groups` and `ad-role-assignments`;
  `ad-group-members` and the devices and service principals.
- `Undeclared`: relationships a step makes and does not declare, such as those of
  `ad-role-assignments`, whose declared target is a step id, the lock whose declaration is turned
  round, or `azure_vm_scale_set USES azure_image`.
- `Unchecked`: keys made up without a look at the job state: the network interfaces of load
  balancers and security groups, conditional access, and `azure_group_member`, which no step adds.

Operators marked `FAULT` belong to no specification. Each is a bug the definition after it could
have; substituted for it, it must break the property that `PROJECT.json` names under `mutants`.

## 3. Runs

| run | shows |
| --- | --- |
| `rm_client` | 2 listings of 3 pages (2, 0 and 1 resources), 2 attempts for a token and 3 for a page, empty responses anywhere: types, order, completeness, retry discipline, errors that reach the step, one token, the promise, termination |
| `graph_client` | 2 listings of 3 pages, 3 attempts, 2 expiries: types, no rejected token is sent again, an expiry alone does not fail a listing, only exhausted attempts do, completeness, the promise, termination |
| `service_clients` | one call of each of 172 methods, up to 3 pages, 2 attempts, every answer: what arrives, once and in order, what is retried, what a missing permission costs, and that the call ends |
| `directory` | all schedules of the 12 steps and all item orders without losses: types; nothing is added twice but the relationship of a principal with a role it has at two scopes (`RolesAtTwoScopes`) |
| `directory_losses` | any one step loses items or throws, in a smaller tenant: every step that neither lost anything nor looks up what another lost delivers all it declares, and nothing else is related but by chance; no dangling edge, account found, registration details not lost, the run ends |
| `ingestion_pairs` | the whole table, all enabled; each step, and each pair of a step and one whose entities or data it looks for, interleaved with the rest; at most one failure: types, no dangling edge, no handler throws unless a step it waits for has failed, nothing is lost without a failed step that declares it, nothing arrives late, and where no step fails of itself none fails and every order ends in the same job state, up to the races |
| `ingestion_start_states` | all 16 configurations with every ingestion source disabled in turn, 176 sets of enabled steps: groups are isolated, no handler throws, every configuration ends in the one job state of its steps, and what can run runs in the end, the last graph too; and, of the table, that `dependsOn` is complete, that each step makes all it declares when the steps it waits for succeed, declares all it may make, and is enabled with what it depends on |
| `rm_client_not_found` | *violated*: a 404 for a next link repeats for ever |
| `rm_client_no_list_next` | *violated*: without `listNext` a page is delivered twice |
| `graph_client_approver` | *violated*: an expired token is reported as a missing permission |
| `directory_group_members` | *violated*: an ingested device is related as `azure_group_member` |
| `ingestion_cannot_be_disabled` | *violated*: a source that cannot be disabled has a step that does not run when the storage accounts are disabled, as they are by default |

The last five are statements of the repository's own comments and configuration that the code does
not keep; the findings in `PROJECT.json` quote them.

**Exceptions of `service_clients`.** Each property of this run names the methods it does not hold of,
for they are the ones written differently: `FirstPageOnly` (a misspelt `nexLink`, or `list()` without
a loop), `FailsAtNextLink` (a `listNext` taken off the service client is called as a method of
another object and finds no client there; this relies on the classes of the service packages, which
are external), `WithoutNext` (an endpoint without `listNext`), `WithoutRequest` (no retry but that of
the service package), `ForbiddenFails` (a 403 fails the step), `CatchClauseFails` (the
error may be replaced by a `TypeError` of `storage/client.ts:381`) and `CodeHides403`.

The last is the longest list: all methods that go through `request()` of the resource-manager client
and do not catch every error. For them a missing permission is reported only when the 403 comes
without a code in its body; with one, which is how Resource Manager usually answers, the step fails.
`client.ts:359` replaces the status by the code and `client.ts:474` compares it with 403, so two
lines of one file disagree. No statement of the repository says which of them is meant, so this is
a named exception and a hazard, and no finding. `CallEnds` excepts a service that answers a next
link with an undefined over and over, which `rm_client_not_found` follows request by request.

**Bounds.** Three pages are a first, a middle and a last one, and the middle one is empty because
Azure does send empty pages with a next link. Three attempts allow a first, an inner and a last
failure; where only the use of attempts matters, two. Two listings show what one leaves behind for
the next: the token, and nothing else. Two expiries are the most that three attempts can survive.
The tenant has one object of each kind, a nested group, a group with every kind of member, a
principal with two roles of one app, an app with one directory role at two scopes, and a verified
domain that is not ingested; more objects of a kind meet no other code. The tenant of
`directory_losses` has one group, one app role, and a declared and a chance role assignment. A
duplicate ends no step, as the listing catches what a callback throws. In `ingestion_pairs` the
order of two steps matters only where one looks for what the other leaves, so the foci are the 321
pairs of this kind and the single steps; the account and names for any type are left out of the
pairs, `TableIsComplete` and the theorems cover them. One loss reaches every guard against a missing
entity; the proofs hold for any number. `CHECK_DEADLOCK` stays on: the end of a run is an explicit
action (`StepOver`, `RunOver`, `CallOver`).

**Fairness.** `WF_vars(Progress)`: Node resumes an `await` whose promise is settled and fires timers,
and the executor starts a step that can start. The environment is not obliged to begin listings, to
expire tokens, or to make a step fail (`Failure` is no part of `Progress`). A request for the invalid
skiptoken is never answered, which is why the code must not send one. The end of an empty-response
loop is not assumed, so `ListingEnds` of the resource-manager client and `CallEnds` except it by name.

## 4. Proofs

| theorem | says, for all values of the constants |
| --- | --- |
| `ResourceManagerClientProofs`: `TypeCorrect`, `TokenIsFetchedOnce`, `RetriesAreDisciplined`, `FinalErrorsReachTheStep` | the first four safety properties of the resource-manager client |
| `ResourcesComeInOrder`, `ListingsAreComplete`, `ClientKeepsPromise` | order, completeness and the refinement of `PagedListing`, for endpoints with a `listNext` or listings of one page (`NoLinkIsLost`) |
| `LostLinkIsNeverMadeGood` | in the other case no listing gets past its first page or ends complete, whatever the service answers |
| `GraphClientProofs`: `TypeCorrect`, `RefusedTokensAreReplaced`, `FailuresUseAllAttempts`, `ExpiriesAreSurvived` | the token and the attempts of the graph client |
| `ListingsAreComplete`, `ClientKeepsPromise` | completeness and the refinement of `PagedListing` |
| `ListingsShrink` (in both) | every step of a listing ends it or leaves less to do; the resource-manager client's under `NoLinkIsLost`, and but for an empty response to a next link |
| `ServiceClientsProofs`: `CallTypes`, `PagesArrive`, `PagesComeOnce`, `OutagesAreOutlasted`, `PermissionsAreReported` | the safety properties of a call of any method, but for the exceptions each names, for any number of pages and attempts |
| `CallsAdvance` | every step of a call ends it, goes on to a further page, uses up an attempt or comes closer to an answer, but for the step that asks again for a next link answered with an undefined |
| `StatusTyped`, `StartedAfterAncestors` | the scheduler: a step that has started finds settled every step it builds on |
| `NeverStuck` | where no step waits for itself, a step is running or can start until all have settled |
| `DirectoryIsScheduled`, `DirectoryNeverStuck` | the directory steps implement the scheduler and inherit its theorems; their `dependsOn` has no cycle |
| `DirectoryTypes`, `EdgesHaveBothEnds`, `AccountIsFound`, `RegistrationReachesUsers` | for every tenant, schedule and number of failing steps |
| `DirectoryDeliveryProofs`: `EverythingIsAddedOnce` | no key is added twice but that of a principal with a role it has at two scopes |
| `NothingIsInvented` | whatever is lost, nothing is related but what a step declares of the directory, and `ChanceEdges` |
| `EveryEdgeIsDelivered` | losses stay local: all that a step declares is there in the end, unless it or a step it looks up entities of lost something |
| `IngestionTyped` | the job state holds only what an enabled step may put there |
| `InputsAreFinal` | if `dependsOn` is complete but for the races, nothing turns up that a started step looks for |
| `EdgesHaveTheirEnds` | if handlers look for the ends of what they relate, no relationship lacks one, whatever fails |
| `ThrowsHaveACause` | if what a handler demands is surely left by a step it waits for, it throws only after one has failed |
| `LossesAreDeclared` | if each step makes all it may when the steps upstream succeed, and declares it, nothing is lost but what the runtime keeps from the last run |
| `TableSureIsSure` | what `TableSure` finds to be certain is certain (`AreSure`), for every table |
| `OneOutcome` | with the premises of `ThrowsHaveACause` and `LossesAreDeclared`, a run in which no step fails of itself has no failure at all and ends in one job state, whatever the order, up to the races |
| `GroupsStandAlone`, `GroupsRunToTheEnd` | if the enabled steps are closed under `dependsOn`, no step builds on a disabled one, however indirectly, and at rest all have settled |
| `NoneIsLeftBehind` | a run comes to rest only when every step whose dependencies are enabled has settled, in both graphs |

Assumptions are the named `ASSUME`s on the constants, which TLC evaluates in the runs, and the
premises in the theorems. The premises of `InputsAreFinal`, `EdgesHaveTheirEnds`, `ThrowsHaveACause`,
`LossesAreDeclared`, `OneOutcome` and `GroupsStandAlone` are about the table, and `TableIsComplete`
checks them of the table of this repository: for `sure`, of which they speak, it takes `TableSure`,
what is certain after four rounds from the steps that depend on nothing. One premise, `AreSure`, it
need not evaluate: `TableSureIsSure` proves it of `TableSure` for every table. So the theorems hold of
this table for every schedule, every choice of enabled steps and any number of failures.
`StepsAssumption` of `Ingestion` (finitely many steps, none its own ancestor) is what the executor
demands of a table; `KeysAssumption` of `DirectorySteps` says that objects of two kinds have different
ids, as Graph's are unique and the domains' keys prefixed, those of the objects no step ingests and of
the verified domains included.

*Resource-manager client.* `Typed` adds to the types that a page is being delivered only after a
response. `Retries` adds that `Len(failures)` and `attemptsRemaining` together make up the granted
attempts (`Budget`), without which the bound on retries is not inductive. `InOrder` ties `delivered`
to the position: it is `1..n` where `n` is the cursor, the end of the last page, or the beginning of
the page to come, depending on the phase (`Position`). Completeness and the refinement follow from it.
They hold if no link can be lost, because the endpoint follows them or there is none; where one can,
`StaysOnFirstPage` is inductive and shows the finding of `rm_client_no_list_next` for every listing.

*Graph client.* `Refusal`: as long as a refused token is cached the loop has its refresh flag set,
also after a refresh that failed. `Expired`: a loop that has met nothing but expired tokens has met
no more than there were expiries, and one less when the token has expired since; with `Budget` the
attempts then outlast the expiries. `Position` is as above, but for the link that is stored early.

*Both clients.* `ListingsShrink` gives a listing its `Work`: the pages still to come, what is to be done
before the next request, the items left of the page or the attempts left of the loop, and the awaits
left of an attempt. With `Position` these are natural numbers, and every step of the client lowers the
first of them that it changes, so that only fairness stands between this and `ListingEnds`.

*Service clients.* The proofs have two halves. The first is about the table: `ClientsConform` shows,
client by client, that every method outside the exceptions reads every page, hands it over once,
retries outages, and reports a missing permission of either kind (`Conforms`). The second is about a
call of a method that does, with an invariant for each property: `AllArrive` (the pages before the
one asked for were handed over, if nothing was warned of), `InOrder` (they all come before it),
`Survived`, `Reported`, and `Kept`, that no error was replaced. They need `Begun`, that the phase is
one the method has.

*Scheduler.* `NeverStuck` rests on `OneWaitsForNone`: among any steps there is one that waits for none
of them, one with a minimal set of ancestors. The proof takes it from the well-foundedness of strict
inclusion on finite sets, and so needs no induction.

*Directory steps.* `Sound` follows the values from step to step: a settled ACCOUNT step has left the
account (`Inputs`), a step with items has found the entities its edges start from (`Supplied`), so
every edge has both ends. `Details` says that the registration details no longer change once
fetchUsers has begun. What the steps deliver follows the items. Until a step takes an item, what it
will add for it is not there (`Fresh`), as no two items bring the same key (`OneAdder`, `OneMaker`);
the app roles of one principal share a relationship, and there the code looks before it adds. The
assignments of one role at several scopes share one as well, and there it does not look: `OneMaker`
leaves them out. After it has, what it adds is there, unless a loss harms the step (`Handled`),
since all it looks up was added by steps that had settled (`SuppliesAreThere`). `Unharmed` is what
makes this inductive in the presence of losses: a step that loses something stops being unharmed in
that very step, with those that look up what it adds, and no other step's claim is touched
(`LossKeepsHandled`). That nothing else is related (`NothingIsInvented`) is shown callback by
callback, whatever was lost.

*Ingestion.* `Order` says that a step which has begun finds its ancestors settled and, in the last
graph, the other graph at rest; it is inductive by `EveryStepMoves`, which takes the actions together,
and `BegunAfterAncestors` and `DefaultGraphRests` (`OrderHolds`). Writers that precede a step have
then ended when it looks (`InputsAreFinal`). Every relationship is anchored in entities that are
there or in data whose writer added them (`EdgesHaveTheirEnds`). `Leaves` says what the steps that
succeeded are sure to have left, and a step finds it unless one upstream failed
(`ThrowsForAReason`, `ThrowsHaveACause`). It then also has the ends of all it relates, so that what a
successful step may relate is there (`Related`), and at the end of a run whatever is missing belongs
to a step that failed, or to one that waited for it, and is declared (`LossesAreDeclared`). That every
enabled step has ended by then is `RunnableHaveEnded`, from `OneWaitsForNone`.
`OneOutcome` closes the circle. From above, whatever is in the job state was put there by a step that
has started (`HasOrigin`), and only a runnable step does (`StartedIsRunnable`). From below, `Leaves`
and `Related` have all that the successful steps may make. And no step failed: among those that did,
one builds on no other (`OneBuildsOnNone`), and a handler never throws without a failure upstream
(`NoneHasFailed`). `AncestorsAreTransitive`, which `TableSureIsSure` and these need, is proved by a
minimal counterexample, without induction; so is `ClosedUnderAncestors` for `GroupsStandAlone`.

**Only model-checked.** Liveness (`ListingEnds`, `RunEnds`, `CallEnds`, `EveryRunnableStepSettles`),
since liveness under fairness and `ENABLED` are outside the prover used here; their safety halves are
proved (`ListingsShrink`, `CallsAdvance`, `NeverStuck`, `DirectoryNeverStuck`, `NoneIsLeftBehind`,
`GroupsRunToTheEnd`). `TableIsComplete`, which is a statement about the one table of this repository
and the source of the theorems' premises: TLC evaluates it on that table. And what the five violated
runs show, of which `LostLinkIsNeverMadeGood` proves one for all listings.

## 5. Plan

1. *Done*: the two clients and their proofs, the directory, the whole table of steps with the start
   states, the clients of all services.
2. *Policies*: find-or-create against one entity per definition, with a policy set that is found
   before it is complete (`findOrCreatePolicyDefinitionEntityFromAssignment.ts:78,136`).
3. *Keys*: access packages (approvers of different requests with one key, a catalog that grows after
   it was added) and conditional access (a user named twice by one policy).
4. *Network*: security-group rules and the subnets of an address as pure operators against a
   reference definition.
5. *Proofs*: done for every state invariant of the passing runs but `TableIsComplete`; next,
   the theorems of what the points above add.

## 6. Not modelled

- Converters (pure data; an entity is its type, or its key in `DirectorySteps`), and
  `network/mappers.ts`, 31,142 lines of generated serialisation tables, half of the code.
- `validateInvocation` and the permission checks that only read a token: they keep no state, and the
  steps start after them.
- Which entity of a type is meant, in the table of steps; `DirectorySteps` does it for the directory.
- Wait times, the SDK's HTTP layer and the retry policies of the service packages.
- The error of `getAccountEntity` marked `fatal`, which ends the whole run: `Ingestion` fails its
  step only, and has the runs that would go on as well.
- Log and event texts, terraform, docs and test helpers.

One divergence met on the way has no run of its own: `getStepStartStates.ts:460` says that no step is
executed for an instance whose subscription disables all, and line 511 enables `ad-account` all the
same (`StepStartStates` follows the code).
