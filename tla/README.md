# TLA+ models of ntm

These modules model parts of ntm's Go source under `src/`. Each module
translates the code. Each MC module instantiates one module for TLC. Each
`.cfg` file is one run. `PROJECT.json` records:

- the parts of the system;
- which definition models which lines (`map`);
- each run, and the mutant that must break each of its properties;
- the findings;
- the hazards: what in this code is hard to test.

Run a check from this directory:

```
tlc -workers 2 -config MCRoutingScan.cfg MCRoutingScan
```

## The system and how its parts interact

ntm drives coding agents running in tmux panes. The repository contains the
following parts.

- **AgentScorer** (`internal/robot/routing.go`) picks the pane to send work to.
  - `ScoreAgents` lists the session's panes once. For each agent pane it asks
    that pane's activity classifier for its state. It then builds a
    `ScoredAgent` and computes the score breakdown:
    - context: 100 − usage;
    - state: the state score shifted to 0..100;
    - recency;
    - affinity.
  - `checkExclusion` then applies five exclusion rules in order, and an
    eligible agent gets the weighted, clamped final score.
  - `GetBestAgent` and `GetAvailableAgents` pick from the resulting list.
    `FilterByType`, `FilterByPanes` and `ExcludePanes` narrow it.
  - The panes are the environment: a pane can close, start generating or
    fail to classify at any point during the loop.
- **Command registry** (`internal/kernel/registry.go`).
  - `Register` validates a command outside the lock. Under `r.mu` it then
    refuses a duplicate trimmed name, or a REST route already bound.
  - Routes are normalised by `restKey`: the method upper-cased and trimmed,
    the path trimmed.
  - On success it writes the REST index, then the command map.
  - Package `init` functions (for example `internal/cli/kernel.go`) call it.
    Go runs them one after another, but `Register` takes `r.mu` and may be
    called from any goroutine. The model lets callers interleave, which
    includes the sequential order of `init`. `MustRegister` panics on an
    error.
  - `Get` looks a name up as given; `List` returns the commands sorted by
    their trimmed name. Both hold `RLock`, so each is one atomic read.
- **kernel CLI** (`internal/cli/kernel.go`): `init` registers `kernel.list`
  with `MustRegister`, and `ntm kernel list` prints `List()` as JSON, as
  "no commands" text, or as a table.
- **Conflict detection** (`internal/tracker/conflicts.go`) takes the changes
  recorded in `GlobalFileChanges`.
  - It groups the modifications by path.
  - It reports a path that more than one change and more than one distinct
    agent touched.
  - Severity: critical with three or more agents, or when the path's changes
    are within 10 minutes of each other. The doc comment says 2 minutes.
- **Layout helpers** (`internal/tui/layout/layout.go`) are pure functions:
  width tiers, rune-aware truncation and the split-view widths.
- **Agent health** (`internal/robot/agent_health.go`) combines `IsWorking`'s
  pane states with caut provider usage.
  - It pre-fetches every supported provider under one shared deadline.
  - It then walks the panes in map order, filling each pane's status, the
    per-provider summary (`updateProviderSummary`) and the fleet counts.
- **Ensemble session store** (`internal/ensemble/session_store.go`):
  `LoadSession` and `SaveSession` keep one `ensemble.json` per session.
  - There is no lock. Processes meet only in the file system.
  - `SaveSession` fills in the caller's state before `MkdirAll` and the atomic
    write, either of which can fail.
- **DCG adapter** (`internal/tools/dcg.go`) runs the dcg binary under a
  context deadline.
  - `CheckCommand` turns its exit code into allowed, blocked, timeout or
    error.
  - `GetStatus`, `Health` (through `Version`) and `Capabilities` read its
    other answers.
- **Dashboard command** (`internal/cli/dashboard.go`).
  - `RunE` resolves `--json`, `--no-tui` and `--debug` against the
    environment.
  - `runDashboard` checks tmux and the session, may start a file-reservation
    watcher, runs the dashboard and stops the watcher in a `defer`.
- The **EffectivenessIntegrator** and **CapabilityMatrix** of `spec.md`
  sections 4.2–4.3 are present only as tests (`internal/assign`). They are
  modelled from the spec and `effectiveness_test.go`:
  - `SetMode` changes the integrator's mode under its lock;
    `GetEffectivenessBonus` reads the mode once;
  - the matrix's `SetLearned` (clamped to [0, 1]) and `ClearLearned` change
    the learned overrides that `GetScore` prefers to the base table;
  - `RankAgentsForTask` reads one score and one bonus per agent type, then
    sorts and ranks. The writers may run between its reads
    (`TestEffectivenessIntegratorConcurrency`).

## Modules

| Module | Models | State and actions |
|---|---|---|
| `AgentScorer` | routing.go: the scoring functions, the views and `DefaultRoutingConfig` | Operators only. `MCRoutingScan` assumes its constants equal `DefaultRoutingConfig`, the configuration `NewAgentScorerFromConfig` uses. Scores are integers: components in tenths of a point, weights in tenths, contributions and final scores in hundredths (100.00 = 10000). With weights that are multiples of 0.1, `math.Round(x*100)/100` is then the identity. |
| `RoutingScan` | routing.go `ScoreAgents` (124–180) | `tmux` (pane status and observation), `classifiers`, `pc`, `listed`, `cursor`, `scored`, `result`. There is one action per way a loop iteration ends: `SkipUserPane`, `ClassifyFails`, `ScorePane`. Other actions: `StartScore` (GetPanes), `GetPanesFails`, `FinishScore`, and the environment's `PaneOpen`, `PaneClose`, `PaneActivity`. |
| `Registry` | registry.go `Register` | `commands`, `restIndex`, and per caller `cmdOf`, `pc`, `outcome`. `Validate(c)` is the lock-free part. `Commit(c)` is the critical section, with its checks in the code's order. |
| `Conflicts` | conflicts.go | Operators: `DetectConflicts`, `conflictSeverity` (the one-pass min/max scan), `LastOf` and `ConflictsSince`. Go map order is unspecified, so results are sets. |
| `AgentHealth` | agent_health.go `AgentHealth` (138–263), `updateProviderSummary` | `phase`, `work` (IsWorking's panes), `cautAvailable`, `expired`, `fi`, `cache` (providerCache), `todo`, `panes`, `summary`, `totalScore`, `fleet`. Actions: `IsWorkingFails`, `IsWorkingReturns`, `FetchProvider`, `FetchDone`, the environment's `DeadlinePasses`, `ScorePane` (one loop iteration, any pane), `Summarise` (TotalPanes, then `int(AvgHealthScore)`, which `OverallGrade` grades). |
| `SessionStore` | session_store.go | `disk` (name → file and ModTime), `dirs`, `now`, and per process `mem` (the `*EnsembleSession` it holds), `pc`, `target`, `buf`, `result`, `calls`. Ghost variables: `lastSaved`, `expect`. `LoadSession` is `ReadFile` then, for a state with no creation time, `StatFile`. `SaveSession` is one action: the failures of `MkdirAll` and of the write are its disjuncts. Callers' own steps are `NewState`, `Modify` and `Tick`. |
| `DCG` | dcg.go | `installed`, `kind`, `phase`, `dangerous`, `exit`, `stdout`, `expired`, `outcome`. The adapter's actions are `CheckCommand`, `GetStatus`, `Health`, `Capabilities` and `HasCapability` (each a launch) and `Returns`. `Returns` applies `CheckOutcome`, `StatusOutcome`, `HealthOutcome` or `CapsOutcome`. The environment's actions are `StartFails`, `ProcessExits` and `DeadlinePasses`. |
| `Dashboard` | dashboard.go | `pc`, `flags` (flags and environment), `mode`, `debug`, `watcher`, `outcome`. Actions: `RunE` (with `SelectMode`), `EnsureInstalled`, `ResolveSession`, `SessionExists`, `StartWatcher`, `RunDashboard` (with the deferred `AfterRun`). |
| `RegistryAbstract` | what registry.go promises | `registered` and `routes`. One action, `Add(cmd)`: a valid command with a fresh name and, if bound, a fresh route is added atomically. `MCRegistry` instantiates it with `registered <- commands`, `routes <- restIndex`. |
| `KernelCLI` | kernel.go `init`, `newKernelListCmd`, `runKernelList` | Extends `Registry` with `printed`. `CLIInit` makes one caller the `init` whose `MustRegister` registers `kernel.list`. `RunKernelList` runs once that caller has returned and no caller panicked. It prints `List()` as JSON (commands and count), as "empty", or as a table. The registry's readers are `Get` and `List`; `Fail` turns a `MustRegister` error into a panic, and a panic stops every step. |
| `Effectiveness` (spec-modelled) | spec 4.2–4.3, `effectiveness_test.go` | `config` ([enabled, mode]), `base`, `learned`, `rpc`, `entries`, `capability`, `ranking`. Matrix: `SetMode`, `SetLearned`, `ClearLearned`. Ranking: `RankStart`, `RankCapability` (one agent type's capability score), `RankBonus` (its bonus, read under the config lock in a later step, so writers can fall between the two reads; spec section 5), `RankFinish` (`SortRanking`, a stable descending sort, and `AssignRanks`). Scores are integers: percent, weights in tenths, composites in thousandths. |
| `RankingAbstract` | what `RankAgentsForTask` promises (spec 4.2, 4.3, 8) | `config`, `base`, `learned`, `rpc`, `pending` (capability scores read whose bonus is not yet read), `taken` (the score read for each agent type during the call), `returned`. `Write` is any mode or matrix write; `ReadCapability(a)` takes one agent's capability score at that instant and `ReadBonus(a)` adds its bonus at a later one; `Return` returns, in one step, a ranking of every agent by descending score with ties in agent-type order. `MCEffectiveness` maps `pending` to `capability`, `taken` to the scores of `entries` and `returned` to `ranking`. |
| `MCScorer`, `MCHelpers`, `MCCommands` | disjoint sums | `MCScorer` joins `MCScorerRules`, `MCScorerViews` and `MCEffectiveness`; `MCHelpers` joins `MCConflicts` and `MCLayout`; `MCCommands` joins `MCDCG`, `MCDashboard` and `MCAgentHealth` (the dashboard's `outcome` renamed `dashOutcome`, agent health's `phase` and `expired` renamed `healthPhase` and `healthExpired`). A `part` variable picked in `Init` selects the half that moves; the others stay in one state. |
| `Layout` | layout.go | Operators. `int(float64(avail)*0.4)` is `(2*avail) \div 5`: the double nearest 0.4 lies above it, so no product is rounded below an exact multiple. |

How data is abstracted:
- Strings become what the code distinguishes. A command name is
  `[word, padded]`, where `TrimSpace` keeps the word. A REST method is
  `[word, lower, padded]`.
- A time since the last output is a whole number of minutes, or `NoOutput`
  for the zero time.
- A recorded change's timestamp is a number of minutes.
- An exit code is an integer. Three sentinels stand for the other results:
  no exit yet, a process that never started, and a process killed by the
  deadline (`ExitCode()` of a signalled process is −1).
  - dcg's output is one of the shapes the adapter tells apart: block JSON,
    status JSON on or off, JSON of the wrong shape, a version, help
    mentioning robot mode, plain text.
- An `EnsembleSession` is `[SessionName, CreatedAt, Rev]`. `CreatedAt` 0 is
  the zero time. `Rev` stands for the rest of the state.
- A caut payload is its `UsedPercent()`, or `NoPct` when that is nil. The
  float running average is kept as its exact total, so its rounding is not
  modelled.

## Runs

| Run | Checks | Bounds |
|---|---|---|
| `scorer` | `BestAgentIsFirstMax`: nil iff all are excluded, else the first eligible agent with the top score. `AvailableSortedPermutation`: exactly the eligible agents, each once, in non-increasing order. `PaneFiltersPartition`: `FilterByPanes` and `ExcludePanes` split the list in input order. `ExclusionVerdict`: excluded iff one of the spec's rules matches, with the first match's reason, score 0, and the breakdown kept. `WeightedSumWithinRange`: components within 0..100, so the clamp never changes a score. Effectiveness part: `TypeOK` (learned scores stay within 0..100 whatever `SetLearned` is given). `RankingRefinesAbstract`: the ranking implements `RankingAbstract`: every returned ranking has every agent type once with ranks 1..N, scores non-increasing with ties in agent-type order, and each score the capability (learned, else base, else 50) at the instant the loop read it plus the mode-weighted bonus at the later instant it read that, while the writers run. | `MCScorer` checks `MCScorerViews` and `MCScorerRules` as a disjoint sum: a behaviour picks one half at the start. Views: every list of up to 4 agents, scores from {50, 60, 80} (ties included), any excluded flags, index lists of up to 2. Rules: every state, health state, context usage around the 85 threshold, age on both sides of 1, 5 and 30 minutes, the rate-limit flag, and prompts with and without text. Effectiveness: three agent types (two with a base score, one without), claude with enough samples and a high score, codex with too few, gemini with none; learned values −5, 95, 120; all four mode values; enabled or disabled. |
| `scorer_views_stable` (violation) | `AvailableStable`: spec 4.1 says ties keep input order. The exchange sort swaps across the elements in between, so scores [50, 50, 60] come out as panes 3, 2, 1. | the views half of `scorer` (`MCScorerViews`) |
| `routing_scan` | `BatchErrorOnlyFromListing` (per-pane isolation, spec sections 5 and 7): once the panes are listed, a pane that closes or fails to classify is dropped and the call returns what it scored, never an error. | 3 panes (a user pane and two agents), each unborn, live or closed, over 4 observations (ready, full context, generating, error). Panes change at every step of the loop. |
| `routing_scan_context` (violation) | `ContextExclusionHonoured`: a pane reporting more than 85% context usage is excluded (spec 4.1 rule d). `ScoreAgents` never copies the usage into `ScoredAgent`, so such a pane is scored as eligible with a context score of 100. | as above |
| `registry` | `TypeOK`. `IndexConsistent`: every REST key names a registered command whose own route normalises to it, and the reverse. `OneWinnerPerBinding`: two successful calls never share a name or a route, up to case and padding, and every refusal lost to a caller that succeeded. `RegistryRefinesAbstract`: `Register` implements `RegistryAbstract`. Every step is a stutter or one atomic `Add` of a valid command, with a fresh trimmed name and a fresh route up to method case and padding. `KernelListShowsRegistry`: `ntm kernel list`, run at any point after `init`, prints exactly the commands whose `Register` had returned nil, `kernel.list` among them, sorted by name. | 3 concurrent callers over 6 commands: a name with and without padding, one route written "GET" and " get " with a padded path, no route, undocumented, and a blank name. Caller c1 is the `MustRegister` of `kernel.list`. |
| `registry_get` (violation) | `GetFindsRegistered`: `TestRegistryRegisterAndGet` expects `Get(cmd.Name)` to find a command `Register` accepted. `Register` stores the trimmed name; `Get` looks up the name as given, so a padded name is registered and never found. | as above |
| `helpers` | Conflicts: `ConflictsMatchReference`: the paths, changes (in order), agents and latest time of `ConflictsSince`, against a definition by positions and sets. `CriticalWhereDocSaysCritical`: critical with ≥ 3 agents or a spread ≤ 2 minutes, the half of the doc comment the code keeps, whatever the order of the changes. Layout: `TruncateWithinMax`: at most max runes, the text itself when it fits, and the whole suffix whenever it fits. `SplitMatchesTier`: a right pane exists exactly when `TierForWidth` is split or wider, the widths plus 8 columns of padding add up to the terminal width, and left ≤ right. | `MCHelpers`, a disjoint sum. Conflicts: Every list of up to 3 changes over 2 paths, 2 change types, agent sets {}, {cc_1}, {cod_1} and {cc_1, cc_2} (sizes 0–2, 3 agents in all), 2 sessions, times {1, 3, 12}, so spreads of 0, 2, 9 and 11 minutes. Layout: Every width 0..300 (all three thresholds). Texts up to 4 runes, max from −1 to 4, suffixes of 0, 1 and 3 runes. |
| `conflicts_severity` (violation) | `SeverityFollowsDocComment`: the doc comment of `conflictSeverity` (conflicts.go:93–95) says critical iff ≥ 3 agents or first and last change within 2 minutes. The code uses 10 minutes, so two agents' changes 9 minutes apart are critical. | `MCConflicts`: the conflicts half of `helpers` |
| `commands` | DCG part: `DangerousNeverAllowed`: `CheckCommand` never returns "allowed" for a command dcg blocks, whatever dcg does (missing, exit 2, garbled output, hang) and whenever the deadline passes. `CallsReturn`: every call returns, because a hung dcg is killed at the deadline. Dashboard part: `ModeFollowsFlags`: `--json` wins, then `--no-tui` or a non-interactive terminal; debug from the flag or `NTM_TUI_DEBUG`. `WatcherBoundToDashboard`: the reservation watcher runs only inside the interactive dashboard, only when enabled, and is stopped however the command returns. Agent-health part: `AgentHealthTypeOK`, whose fleet bands sum to the panes written. `FleetMatchesPanes`: whatever the map order, every reported pane is counted once, in its score band, and the total is the sum of the scores. `SummaryMatchesFetch`: a pane carries usage iff caut was available and its provider was fetched before the deadline. Each provider lists its panes once, and `Accounts` counts them only for payloads with a percentage. `OverallGradeFollowsPanes`: the overall grade is taken from `int(AvgHealthScore)`, which lies between the lowest and the highest pane score (0 with no pane); this depends on `TotalPanes` being set before the average divides by it. | `MCCommands`, a disjoint sum. DCG: one adapter making calls in sequence, with dcg installed or missing, each exit code and output, and the deadline before or after exit. Dashboard: all 64 combinations of flags and environment, and every early return. Agent health: up to 3 panes with two provider-backed agent types and one without, two providers, scores 49/50/69/70, usage 40, 90 or nil, the deadline before, between or after the fetches. |
| `dcg_check_race` (violation) | `BlockedVerdictDelivered`: the comment at line 199 says exit code 1 means the command was blocked. `CheckCommand` reads `ctx.Err()` first, so a dcg that exits 1 just before the deadline is reported as `ErrTimeout`. | `MCDCG`: the DCG part of `commands` |
| `dcg_status_default` (violation) | `StatusDefaultOnlyWhenRan`: the comment at line 165 says the default is for a dcg that "might not have a status command", i.e. one that ran. `GetStatus` returns the default on any failure, so a dcg that never started is reported as an enabled guard. | as above |
| `session_store` | `TypeOK`. `LoadReturnsLastSave`: a load returns exactly what the last successful save of that name wrote, even with the other process saving concurrently. `SavedStateComplete`: every saved state has a name and a creation time no later than its write. | Two processes, two sessions, each absent or a file lacking name and creation time at first. A clock to 2, one change per state, 2 store calls per process. Symmetry over sessions and processes. |

Each property of a passing run has a mutant in `PROJECT.json`: a plausible
bug in the mapped code that TLC shows breaks it. Examples are `>=` for `>` in
`GetBestAgent`, a missing `i == 0` seed of `minT`, and the REST index written
before the duplicate check.

### Why the bounds are enough

- The scoring operators are checked over every combination that reaches each
  branch. Each threshold is probed on both sides: context 85/86 and ages 0,
  1, 4, 5, 29, 30.
- Four agents with three score values already produce every tie pattern that
  the exchange sort can disturb.
- Three panes are enough for a scan to meet each interleaving:
  - a user pane skipped;
  - a listed pane that closes before classification (`ClassifyFails`);
  - a pane changing state between listing and classification;
  - an agent listed after the pane it ties with.
- Three registry callers cover both collisions at once: name and route, with
  a third caller that loses.
- DCG is one adapter making calls in sequence. The deadline is the only
  concurrency, and the model lets it pass at each point of each call.
- The session store needs two processes and two names. Names that differ let
  a state saved under another name show. Two calls per process cover these
  interleavings:
  - a load, then a save, against the other's save;
  - a read and a stat split around a save.
- Three panes over two providers give a provider with two panes (where
  `PanesUsing` and `Accounts` could go wrong), one with a single pane, and a
  pane with no provider.

### Fairness

- `RoutingScan` and `Effectiveness` check safety only and assume no
  fairness. Each ranking or scan is a loop over a fixed list, so that it
  returns would follow from the loop alone and says nothing about the code.
- `DCG` assumes weak fairness of three steps (in `MCCommands`, on the
  adapter's part):
  - the deadline passing, because time passes;
  - `Returns`, because the adapter returns once `Run` has;
  - `StartFails`, because a missing binary fails at once.
  A dcg process may hang, so `ProcessExits` gets none. `CallsReturn` also
  assumes that `Run` returns once the deadline kills dcg. No `WaitDelay` is
  set, so a child of dcg holding stdout open could keep `Wait` blocked; the
  model does not have such a child.
- `AgentHealth`, `SessionStore` and `Dashboard` check safety only and need no
  fairness. `AgentHealth` and `Dashboard` model one call, which stops once it
  has returned, so the cfg of `MCCommands` turns the deadlock check off.
- `Registry` needs none: its runs check safety only. The registry stops when
  every caller has returned and `kernel list` has printed, so its cfg turns
  the deadlock check off.

## Findings

- `GetAvailableAgents` is not stable, although spec 4.1 says it keeps input
  order among equal scores (`routing.go:363`).
- `ScoreAgents` never sets `ContextUsage` (`routing.go:150`), so the context
  exclusion and the context score ignore what the pane reports.
- `conflictSeverity` uses a 10-minute window where its doc comment says 2
  minutes (`conflicts.go:109`). Two agents' changes 9 minutes apart are
  critical in the code and a warning by the comment (run
  `conflicts_severity`).
- `CheckCommand` tests `ctx.Err()` before the exit code (`dcg.go:193`). A
  block verdict (exit 1) that arrives just before the deadline is reported as
  a timeout (run `dcg_check_race`).
- `GetStatus` returns the default `{Enabled: true}` on any run failure
  (`dcg.go:165`). A missing dcg binary is reported as an enabled guard: in
  `DCG`, `StartFails` then `Returns` gives "enabled", against the comment
  that the default is for a dcg without a status command (run
  `dcg_status_default`).
- `Register` stores a command under its trimmed name, but `Get` looks the
  name up untrimmed (`registry.go:64`). A command registered as
  `" kernel.show "` is listed but never found by its own name
  (run `registry_get`).

## Not modelled, and why

- `ActivityMonitor`, the classifiers, `tmux.GetPanes`, caut, `GlobalFileChanges`
  and `util.AtomicWriteFile` are not in the repository. They appear only as
  the environment or as inputs.
- `FilterByType` is a `strings.EqualFold` filter over agent type names;
  the model keeps types as opaque values and does not model case folding.
- `parseEditorCommand` and `IsInteractive` (`cli/util.go`) are string
  parsing and a terminal query. They have no state and no caller in the
  repository whose behaviour a property is about. `runKernelList`'s table
  layout is abstracted to its format.
- In the dashboard, the project-directory warning only prints. In agent
  health, `convertProviderUsage` copies fields and is abstracted to whether a
  pane carries usage. `CalculateHealthScore`, `HealthGrade`, caut and
  `IsWorking` are not in the repository; their results are inputs.
  `ScorePane` takes `strconv.Atoi(paneStr)` as the identity, which assumes
  that `IsWorking`'s keys are pane numbers.
- DCG's `Info` only reads the result that `Health` produces.
- Packages present only as tests (config, cm, bv, cass, checkpoint,
  redaction, ensemble loader and capture, tui dashboard, icons and theme, git
  worktree, robot markdown, cli copy, e2e) have no code to translate.

## Plan

Modelled so far: `AgentScorer` with `DefaultRoutingConfig`, `RoutingScan`,
`Registry` with its readers and its refinement of `RegistryAbstract`, the
kernel CLI, `Conflicts`, `Layout`, `DCG`, `SessionStore`, `AgentHealth`,
`Dashboard`, and the spec-modelled `Effectiveness` with its refinement of
`RankingAbstract`. Next, in order:

1. **Session store**: the lost update of two read-modify-write cycles and the
   `Stat` race on files without `created_at`. Both are reachable in
   `MCSessionStore`; neither has a property, as no comment or spec states
   what should happen.
2. **Agent health**: the remaining helpers of `agent_health.go`.
