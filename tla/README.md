# A formal model of db-tui

`db-tui` is a terminal client for PostgreSQL: a launcher of saved connections,
and a workspace with tables that are browsed page by page and edited in staged
changes, and with tabs that run SQL. This directory models it in TLA+, checks the
models with TLC on small instances, and proves the most important results with
TLAPS for every value of the constants.

The program is an Elm-style loop (Bubble Tea). One goroutine runs `Update` on one
message at a time; whatever `Update` starts, a *command*, runs on a goroutine of
its own and comes back as another message. Nothing orders the commands among
themselves or against the keys and clicks of the user. This is where the hard
behaviours come from, and all modules share the shape that follows from it:
**a handler is one action**, and an operation passes through the stages *intent*
(a message on its way to the root model), *running* (registered and executing),
*reply* (a message on its way back), one action per stage, in any order with
everything else.

## 1. The system

| Component (source) | State it keeps | Operations | Hard behaviours | What makes it correct |
|---|---|---|---|---|
| Grid of a table tab (`internal/grid`) | page, its number and sort, staged inserts, updates and deletes, editor, dialog, the request awaited | page, sort, refresh, retry, stage, edit, revert, apply, cancel; a reply of each kind | clicks act while a request is awaited; late and superseded replies; retries after an unknown outcome | staged work is neither lost nor applied twice; the page is the one its label names; one request at a time; cancelling ends it |
| Apply and page fetch (`internal/postgres/mutations.go`, `browser.go`) | a transaction with its row locks | update and delete by key and `xmin`, insert, commit, roll back | other writers; a failing commit; cancellation between statements | nothing is overwritten unseen; all or nothing; the report is true |
| Profile service and stores (`internal/profile`, `internal/platform`) | profiles file, keychain, passwords of the process | prepare, commit, delete | any call fails, is cancelled, or is the last before the process ends | a failed command changes nothing; a removed profile leaves no password; the newest password is used |
| Launcher (`internal/launcher`) | list, selection, form, question, awaited command | load, edit, save, delete, test, connect, import, cancel | replies that race with Esc and with clicks; a form that outlives a connection | one command, always awaited; the list is what is saved; failures keep the form |
| Workspace shell (`internal/workspace`) | tree, connection, awaited requests, timers | load schemas and relations, health check, reconnect, disconnect | workspaces follow one another, their requests have the same numbers | answers of this workspace only; nothing awaited in vain; the connection is watched |
| Sessions (`internal/app`, `internal/postgres/session.go`) | the session of the root model, those on their way in a reply, those a command will close | connect, reconnect, disconnect | a session arrives after its connect was cancelled or overtaken | one owner, closed exactly once |
| Tabs and contents (`internal/workspace`, `internal/app`) | tabs with an envelope each, a content model per tab | open, select, close, ask, discard, leave; routing of messages | the shell knows of a content only what it was told; intents that outlive a tab | work is never lost unasked; a closed tab's operation is cancelled; replies reach their own tab |
| SQL tabs (`internal/sqltab`) | outputs, their text, stale mark, awaited run | execute, rerun, cancel; a reply of each kind | a cancelled or failed run over the outputs of another | outputs are shown for what they are |
| SQL execution (`internal/postgres/sql_executor.go`, `notices.go`) | connections of the pool, transaction and session state on them, listeners for notices | acquire, statements, interruption, clean-up, unregister, release | a batch that ends anywhere; runs that contend for a connection; limits | the pool stays clean; notices reach their run; no more is kept than allowed; what is missing is marked |
| SQL editor and results (`internal/sqltab/editor.go`, `mouse.go`, `model.go`) | text, cursor, selection, undo and redo, mode, pane, cell, marked rows, inspector | keys in two modes, clicks, drags, the wheel, resizing; a run that ends | a run ends while the user types, drags or reads; the history is cut at one end while snapshots move | undo and redo walk one line of versions; what a key acts on is what is shown |
| Description and pages (`internal/postgres/browser.go`) | none but what it returns: key, privileges, a page with its cursors | describe, first, next and previous page, by key or by offset | rows are written between two pages; NULLs in sorted columns; catalogs of any shape | it offers what the server accepts; a walk over the pages shows every row once |
| Registry of cancellations (`internal/app/cancellation.go`) | cancel functions by operation name | register, forget, cancel, cancel all | a cancellation that overtakes the registration, names used twice | (through the properties of its users) |
| Views and layout, validation and import, connector and catalog, diagnostics, program entry | | | | not modelled, see section 8 |

Components interact by messages through the root model (`internal/app/model.go`),
except for three things they share: the pool of connections, the registry of
cancellations and the tables of the server.

## 2. The modules

| Module | Models | Abstract specification | Proofs |
|---|---|---|---|
| `TableTab` | a table tab with its requests, the transaction of an apply, the fetch of a page, and other writers | `AtomicApply` | `TableTab_proofs` |
| `Profiles` | the profile service over its three stores, with the process ending anywhere | | `Profiles_proofs` |
| `Launcher` | the launcher and its commands | | `Launcher_proofs` |
| `Workspace` | the shell, sessions, timers and the registry over several workspaces | `SessionLife` | `Workspace_proofs` |
| `Tabs` | tabs, their envelopes and contents over several workspaces | | `Tabs_proofs` |
| `SqlTab` | SQL tabs, runs, the pool and the notices | `ConnectionPool` | `SqlTab_proofs` |
| `SqlInput` | the editor, its history, the panes and the results of an SQL tab under keys and clicks | `EditHistory` | `SqlInput_proofs` |
| `Browser` | the description of a relation, and pages by key and by offset | | `Browser_proofs` |

`TableTab` and `Browser` meet at the page fetch: in `TableTab` a page is asked for,
arrives late or never, and is refused if its cursor is of another sort; in `Browser`
it is what the query returns. `SqlTab` and `SqlInput` meet at the end of a run:
in `SqlTab` it is an execution with all that can happen to it, in `SqlInput` it comes at
any moment with any outputs. `Tabs` stands above `TableTab` and `SqlTab`, and
`Workspace` above `Tabs`.

`MCx` instantiates module `x` for TLC. Each module's header names its
abstractions; those that matter are these.

**TableTab.** The variables are the fields of `grid.Model`, and beside them, as the
world outside the reducer: `op` (per request its stage, arguments, transaction and
reply), the registry and the cancellations on their way, and the table, as the
`xmin` of every row. A staged update is the `xmin` it was made on, so "the row has
changed since" is an inequality of numbers as it is in `optimisticPredicate`. An
apply is one action per statement (`ExecMutation`, `ExecInserts`) and one for each
way `COMMIT` can end, so that other writers and cancellations come between; the
row locks that PostgreSQL takes are part of a mutation's guard. `Mouse` chooses
between a user of the keyboard, whose keys `updateKeyMessage` holds back while a
request is awaited, and one who also clicks, whom nothing holds back.

**Profiles.** One task, since the launcher has one command. `task.step` is the
program counter of `Service.Prepare`, `Commit` and `Delete`; a task can be
cancelled and the process can end before every step. `Settings` is a set of
circumstances (the profiles there are, bounds, and the calls that may fail on their
own: reading the file, the keychain, saving, saving *after* the file has been replaced
by the last `chmod`, and putting a secret back), and the variable `setting` is one of
them, chosen in the initial state and never changed. A property that holds only while
some call does not fail says so itself.

**Launcher.** A form is the profile it is about, whether it replaces the stored
password, and whether the password field is empty. What a command does to the
stores is left to `Profiles`; here it changes the list of saved profiles.

**Workspace.** A session is the number of the connect or reconnect that opened
it; `pool` says whether it is open. What the user does
to the shell is a key or a click: the tree takes clicks whatever the connection is, and
`reconnectBox` is the hitbox of *reconnect*, which stays clickable after the connection is
back until something rebuilds the hitboxes. Operations are registered by a name without
the workspace in it, as in the code, so that names of two workspaces coincide. When
the workspace is left its model is not reached again until the next one replaces it;
it is blank meanwhile. `SessionLife` has the place of every session and whether a
workspace is shown; the mapping (`Life`) reads the place off the pool, the replies on
their way, the root model's session and the commands that will close one. Whether a failure was of the network is chosen when its reply
is handled, which is when the shell looks.

**Tabs.** A content is whether it has work to lose and the operation it awaits;
it is changed by any edit, start or reply, over-approximating `TableTab` and
`SqlTab`. Tab numbers and request numbers begin again in every workspace.

**SqlTab.** A statement is what it leaves behind: rows kept up to a limit, an open
transaction, session state. Rows and notices have one byte each, the
columns of a result `ColumnBytes`. `Captured` sums the outputs, and `Attached` is given what the
code has counted (`counted`), which is less where a failing statement loses the count. A run's clean-up,
removal of its listener and release of its connection are separate actions, in the
order of the deferred calls. `ConnectionPool` has what the pool says of a connection,
the runs that hold it and whether anything is left on it; the mapping (`Lending`) reads
the first from the pool, the second from the runs and the third from the transaction,
the session and the reader of the connection.

**SqlInput.** The text area is a library: a key that the program does not take first
moves its cursor anywhere, inserts a character or removes characters next to the
cursor. The selection, the history of edits and everything around them is the
program's. `session` is what one use of a tab may be like (the characters typed, the
longest text, what runs end with, the rows a window shows) and never changes.
`EditHistory` has the versions of a text in one line and a position in it; the mapping
puts the undo stack, the text and the reversed redo stack one after another.

**Browser.** A table is a function from rows' identities, which nobody reads, to their
values, so that rows of a relation without a key may be alike. `world` is a catalog
with the tables, the rows that may be written and the number of writes, and never
changes. `SeekPredicate` is what `seekPredicate` builds, with its cases of NULL; the
order of a page is defined apart from it (`Precedes`), and that the two agree is a
theorem. `walk` records the pages that were turned in one direction.

## 3. What the runs check

Every run below finishes without an error except the three marked *violation*,
which look for a counterexample to a sentence of the project's own documents.

| Run | Bounds | Shows |
|---|---|---|
| `TableKeyboard` | 3 rows of which 1 is edited, pages of 1, 1 draft, 6 requests, a server that may hang | with keys only: a draft becomes one row (`AppliedOnce`), the page is the one its number names (`PageShowsItsNumber`), staged work is cleared only by the commit that contained it (`ClearedOnlyAfterCommit`), invalid drafts are never sent (`ValidatedWhenSent`), Ctrl+C ends a running request (`CancelEnds`) |
| `TableMouse` | 2 rows, 1 draft, 4 requests, 1 other writer, clicks at any time | with requests that overlap: only the page that was awaited when a click opened the editor moves its line (`EditorKeepsRow`), no lost update (`NoLostUpdate`), apply is atomic (`AppliesAtomically`, the refinement of `AtomicApply`), no late page replaces a newer one (`PageIsLatest`) |
| `TableLateEdit` *violation* | 1 row, 5 requests | a change staged by a click during an apply is cleared with the batch it was not part of (`ClearedOnlyAfterCommit`) |
| `TableReload` *violation* | 2 rows, pages of 1, 5 requests | an apply chosen in the dialog of a refresh reloads the page requested last instead of the first (`RefreshLoadsFirstPage`) |
| `Profiles` | two settings, each with 3 passwords and 2 restarts: 2 profiles, 5 commands, and reading, keychain and saving fail; 1 profile, 6 commands, and reading and saving fail, late too | `FailureRestores`, `SavedPasswordRecalled`, `RemovedLeaveNoSecret`, and a replaced password is not used again (`ReplacedPasswordUnused`) |
| `Launcher` | 2 profiles, 5 commands, clicks, commands that hang | `OneCommand`, `ListIsCurrent`, a password that replaces the stored one is the one chosen (`ReplacesAsChosen`), Esc ends a command (`EscEnds`) |
| `LauncherDelete` *violation* | 3 profiles of which 2 are saved, 6 commands | the profile that is deleted need not be the one the question named (`DeletesNamed`) |
| `Workspace` | 2 workspaces, 5 operations, 1 timer per generation, 2 disconnects on their way | every session is adopted or closed, and closed once (`SessionsLiveOnce`, the refinement of `SessionLife`), `NothingAwaitedInVain`, `AnswersOfThisSession`, `WatchedUnlessRefused` |
| `Tabs` | 2 workspaces, 2 tabs in each, 2 operations | `EnvelopesAgree`, `NoDetachedWork`, `LosesNothingUnasked`, `AnswersOwnTab` |
| `SqlTab` | 2 tabs, 1 connection, 2 runs of 1 statement, none or 2 rows and columns of 1 byte against a limit of 1 row and 2 bytes, 1 notice | connections are lent to one run, clean, and come back clean (`PoolLends`, the refinement of `ConnectionPool`), `NoticesReachTheirRun`, `NothingMissingUnmarked`, `ShownForWhatItIs`; what the capture limit bounds, and what not (section 6), is part of `TypeOK` |
| `SqlInput` | texts of up to 2 characters, 2 versions to undo; three kinds of sessions: long texts, different texts, and results of none, two pages or a command and a row of two columns in windows of 1 and 2 rows | what a key acts on is what is shown (`InputIsShown`), the history is one line of versions (`HistoryKept`, the refinement of `EditHistory`) |
| `Browser` | pages of 2 over 4 or 5 rows with a key of one column while 2 rows are written, of two columns while 1 is, and without a key; besides, every catalog of two columns of many shapes | Describe offers what the server accepts (`OffersWhatWorks`), a walk shows every row once (`WalkShowsAll`) |

Each run of a module with a state machine of its own also checks its `TypeOK`.

### Why the bounds are enough

They are the smallest at which the interesting case happens. Three one-row pages
are needed for a page that is neither the first nor the last; the row that is
edited is the middle one. Six requests are a description, a page, another, an
apply, its reload and one more after it. Two overlapping requests with a third to
replace them and one other writer make the races of `TableMouse`. Two profiles are
needed for one that must not be touched, three passwords for "neither the newest
nor none". Two workspaces are enough for a number to mean two things. One
connection is the contended case of a pool. In `SqlTab` a limit of one row with none or two sent
has "all kept" and "cut off" by the number of rows; with columns of one byte a first result
fills a capture limit of two exactly, and a second one, which the server breaks off, passes it
by its columns and loses its row to it. A history of two with texts of two characters
is cut while something can be redone. Pages of two over five rows are a first, a full
and a last page; the tables put NULL and equal values on both sides of each page
edge, and a second write can undo what the first did to the cursor's row. Deciding what
Describe offers looks at one column at a time and at one index at a time, so two of each
show how they combine; the theorem `Offers` does not need the bound. The bounds are guards on what the user
or the environment starts (`MaxRequests`, `MaxOps`, `MaxTasks`, ...); nothing that
was started is held back by one, except where the next operation would be started
by a reply. Deadlock is not checked: the user may stop, and the bounds stop the rest.

In `Tabs` and `Workspace` one `CancelIntent` is on its way at a time; in `Tabs`
also one open intent. `SqlTab` is reduced by symmetry in tabs and texts, which no
liveness property is checked with; a notice fits
after a command, does not fit after a full result, and fits again where a failing statement
has lost the count. The theorems about limits and marks hold for all bounds.

## 4. Fairness

Safety runs have none. Two runs check liveness.

*CancelEnds* (`HungSpec` of `TableTab`): the runtime delivers every message and runs
every command (weak fairness of `Dispatch`, `DeliverCancel` and `Deliver`): Bubble
Tea's loop never stops reading its channel and starts a goroutine per command. The
server owes nothing: a call returns for certain only once its context is
cancelled, because pgx watches the context. The user owes nothing.

*EscEnds* (`HungSpec` of `Launcher`) is the same for the launcher. Both properties
speak of operations that are *running*: a cancellation that overtakes the
registration has no effect in the code, and they do not claim otherwise.

## 5. What is proved

The theorems hold for every value of the constants that satisfies the named
assumption of the module (sets are finite, bounds are natural numbers, names that stand
for "none" are not among the others).

* **`TableTab_proofs!TypeCorrect`**: `Spec => []TypeOK`. `TypeOK` is inductive. One
  lemma per group of actions; the shared operators (`Begin`, `StartPage`,
  `ClearChanges`, `PageAnswer`, ...) have lemmas of their own.
* **`TableTab_proofs!ApplyInvariant`**: `Spec => []ApplyInv`. That no update is
  lost is not inductive by itself: it speaks of the moment of the commit, and what
  makes it true are the rows locked before it. `ApplyInv` adds to `TypeOK` that
  requests not yet begun are blank and only replies report a commit
  (`RequestsKept`), and that the rows a running transaction has done are unchanged
  from what they were staged on and are done by nobody else (`RowsLocked`).
* **`TableTab_proofs!LosesNoUpdate`**: `Spec => NoLostUpdate`. A transaction
  commits when nothing is left to do, so all of its rows are among those locked.
* **`TableTab_proofs!Atomic`**: `Spec => AppliesAtomically`, the refinement of
  `AtomicApply`. An initial state maps to an initial state; each step begins a
  job, makes it take effect, ends it without effect, tells its author, is the write of
  another session, or stutters. Under the mapping a transaction stays *pending*
  through its statements, since nobody sees them, and takes effect at `Commit`.
* **`TableTab_proofs!ShowsLatestPage`** (`PageIsLatest`), from `PagesInvariant`: the
  request that is awaited is the last one begun and later than the page on display
  (`LastAwaited`), and a page that was read names the request it answers (`PagesNamed`).
* **`TableTab_proofs!SendsOnlyValid`** (`ValidatedWhenSent`), whatever is clicked: while the
  dialog that confirms an apply is open, every draft is complete (`ConfirmsValid`).
* **`TableTab_proofs!PagesAreNumbered`** (`PageShowsItsNumber`). The *rank* of a row is its
  place in the order of a sort. Ranks of two rows differ by the rows between them
  (`RankApart`), so a seek leaves the rows above or below a rank, and a page read from the
  end it starts at is an interval of ranks (`LeadingRanks`, `TrailingRanks`). As long as
  nobody has written (`xid = 1`), a page and its cursors are those of its number
  (`Numbered`), every request and the one a retry would repeat lead to the page they were
  made for (`Sound`), and the page that is awaited will be labelled with that number
  (`AwaitsPending`), with clicks as with keys. An apply that succeeded has written
  (`AppliedWrites`), so the reload after it is no exception.
* **`TableTab_proofs!EditorStaysOnRow`** (`EditorKeepsRow`), with keys and clicks: keys open
  no editor while a request is awaited, and a click opens none over another. While an
  editor is open nothing begins, so the request that may still answer is the one that was
  awaited when it was opened, and there is none for an editor opened by a key
  (`EditorWaits`). Only an accepted page changes the lines and leaves the editor open; an
  apply that succeeds closes it.
* With the keyboard alone, which the theorems assume as `~Mouse` and without which
  the run `TableLateEdit` refutes the first of them:
  **`ClearsOnlyAfterCommit`** (`ClearedOnlyAfterCommit`) and **`AppliesDraftsOnce`**
  (`AppliedOnce`). Keys wait for the
  reply, so no editor is open meanwhile, the awaited request is the only
  one alive (`OneAlive`), what it was sent is still all that is staged
  (`SentAsStaged`), and success is reported by a commit only (`OkIsCommitted`); these are
  `KeysInvariant`. A draft that is still staged has therefore become a row only if the
  reply of that commit is on its way, or if nobody knows (`DraftsLandOnce`).
* **`Profiles_proofs`** (first half): `TypeCorrect`; `RemovedClean`, that a profile that is gone
  leaves no password; `Restores`, that a failed command leaves the stores as it found
  them. Both properties name what they ask of the setting: saving must not fail after it
  has replaced the file, and for `Restores` the keychain must let a secret be put back.
  That is the point of them: without the first, the undo restores the password of
  a profile that the file has lost already; without the second, nothing can.
  `RemovedInv` adds that the file is as it was found while a command runs
  (`FileAsFound`), that identifiers are used before anything is stored under them
  (`IdsUsed`), and that a deletion that is about to rewrite the file has removed the
  password (`RemovedGone`); `RestoreInv` what a command knows of the old secret before
  it replaces it (`SecretsAsFound`, `OldIsKnown`).
* **`Profiles_proofs`** (second half): `Recalled` (`SavedPasswordRecalled`), that what a save
  has stored is what a connection finds. The document a command holds is the file's
  (`DocIsFile`), a password it has found was where it says (`SourceTold`, `PasswordThere`),
  the session has none for a profile that keeps its own (`KeptNotInSession`), and a
  document that is about to be stored leads to the password (`StoreWillTell`).
  `ReplacedUnused` (`ReplacedPasswordUnused`): while the keychain works, no store, command
  or connection holds a password older than the newest that was saved (`FreshStores`,
  `FreshTask`).
* **`Launcher_proofs`**: `TypeCorrect`, `AwaitsItsCommand` (`OneCommand`),
  `ListShowsSaved` (`ListIsCurrent`), `ReplacesChosen` (`ReplacesAsChosen`). The
  invariant has that requests are numbered in order, that the one under way is the one
  awaited and that none is while the workspace is shown (`Awaits`); that the list is fresh
  unless it is being loaded or a reply that leads to a load is on its way (`Listed`);
  and what the field of the form holds (`FormAsChosen`).
* **`Workspace_proofs!LivesOnce`**: `Spec => SessionsLiveOnce`, the refinement of
  `SessionLife`. Under the mapping a session is *offered* while a reply carries it, *current*
  while the root model has it, *leaving* while a command will close it; one that is in
  two places, or open in none, has no place in `SessionLife` at all. `OneOwner`
  (`SessionHasOneOwner`) is the invariant that rules those out, so that the place of a session
  can be read off the pool, the root model and the commands (`LifeIsPlace`); then a step
  that leaves these alone stutters (`NoneMoves`), and six kinds of steps move one session.
* **`Workspace_proofs`**, also: `TypeCorrect`, `ThisSessionAnswers` (`AnswersOfThisSession`), `NothingInVain`
  (`NothingAwaitedInVain`), `StaysWatched` (`WatchedUnlessRefused`). A session has
  the number of the operation that opens it, and numbers are given out in order
  (`NumbersInOrder`); it is opened when its operation returns and not before
  (`OpenedOnReturn`), so it is new and nobody owns it yet; and what is awaited was read
  from the session that is shown (`ReadHere`), which is why an answer with a number
  from the workspace before is never taken. The last two are proved along the same
  cases: every step that ends an operation also ends the wait for it, and every step
  that ends a timer or a check starts another one or says that it was refused.
* **`Tabs_proofs`**: `TypeCorrect`, `EnvelopesKept` (`EnvelopesAgree`),
  `WorkIsAttached` (`NoDetachedWork`), `NothingLostUnasked` (`LosesNothingUnasked`),
  `AnswersItsTab` (`AnswersOwnTab`). `TabsNumbered` says that a tab number is given to
  one tab of a workspace and that a tab that is about to get its content has none;
  `OpsNumbered` that an operation that may come back belongs to a tab that has been
  opened; `Remembered` that of the operations of a tab the content awaits the one it asked
  for last, and every other one is loose. So an operation that is not loose is what the
  envelope of its tab says, and closing the tab either asks or cancels it.
* **`SqlTab_proofs`**: `PoolStaysClean` (`PoolIsClean`), `NoticesRouted`
  (`NoticesReachTheirRun`), `ShownTruly` (`ShownForWhatItIs`). A run and its connection
  point at each other (`Paired`); a connection that is nobody's is clean, and one that
  is about to be given back is too (`Tidy`); a run is listened for exactly from taking its
  connection until just before giving it back (`Heard`); runs are numbered in order
  (`Ordered`).
* **`SqlTab_proofs!ConnectionsAreLent`**: `Spec => PoolLends`, the refinement of
  `ConnectionPool`: besides that idle connections are clean, no connection changes hands
  while it is lent, and none leaves a run in any other way than back to the pool. Beyond the invariant
  above it needs that a batch is executed only on an open connection, and that a closed
  one keeps nothing of what was done with it (`Usable`). A step leaves all connections
  alone (`StillLends`), is work of a run on the connection that it keeps (`WorkLends`),
  or takes or gives back one.
* **`SqlTab_proofs`**, what outputs contain (`OutputsInvariant`): `CaptureStaysBounded`
  (`TypeOK`, with `CaptureBounded`: the last row that is kept ends within the limit, counted
  with all rows and columns before it, notices stay within what the count leaves, and the
  count is right unless the batch was stopped; it does not say that the execution stays within
  the limit, because the code does not) and `MissingIsMarked`
  (`NothingMissingUnmarked`). What is captured is a sum over the outputs, so the lemmas say
  how the sum of a sequence changes when an output is appended (`CapturedAppend`) and that it is
  the same for two sequences of the same lengths (`CapturedSame`); with them `Kept` has a
  value for every statement (`KeptFits`), within both limits. The second property needs that an output which lacks
  rows is explained already while its run is executing (`Explained`), and that neither a
  later output, nor an error, nor the mark of a cancellation takes the explanation away.
* **`SqlInput_proofs!HistoryWalks`**: `Spec => HistoryKept`, the refinement of
  `EditHistory`. Under the mapping undo and redo move a snapshot across the text and leave
  the line as it is (`LineUndone`, `LineRedone`), and an edit extends it and forgets its
  oldest version exactly when `pushUndo` cuts the stack (`LineEdited`). It holds because
  both stacks *together* never hold more than the limit (`StacksInv`, the theorem
  `StacksInvariant`): only the stack of undo is ever cut, and redo fills it again
  without a look at the limit. The module also proves `TypeCorrect`, for which selections
  and cursors must lie inside their texts (`SelectionFits`, `AllFit`), and **`ActsOnShown`**
  (`InputIsShown`), from the rows, pages and windows the modes agree on (`ModesInv`,
  `CellsInv`).
* **`Browser_proofs!Offers`**: `Spec => []OffersWhatWorks`, for every catalog.
* **`Browser_proofs!SeekIsOrder`**: the seek predicate selects the rows that the
  order puts after the cursor (or before it), for any number of terms, directions and
  NULLs. The predicate is a disjunction over the first column in which two rows
  differ; the least such column exists because the natural numbers are well-founded.
* **`Browser_proofs!Walk`**: `Spec => []WalkShowsAll`, for every catalog, key, sort, page
  size and table. `WalkShowsAll` counts rows on pages that were read at different times, so
  it says nothing about the next page by itself.
  * *By key* (`KeysetInv`), the anchor is the row the last cursor was taken from: the rows of
    the page are beyond it, and so is every steady row that a later page must show; whatever
    the walk has shown before is on the near side of the anchor, each row once; and every
    steady row on the near side has been shown or lies behind where the walk began
    (`Anchored`). It does not matter whether the anchor still exists. A step forward makes
    the last row of the page the new anchor (`WalkGoesOn`), a turn starts a new walk from
    the edge of the page (`WalkTurns`), and a write
    touches no steady row (`WalkSurvives`). `SeekIsOrder` makes the predicate of the query
    the order, and `OrderDecides` that the order has no ties: the terms contain a key,
    and two rows with the same key are one row.
  * *By offset* (`OffsetInv`), rows that look alike have no places of their own, so the
    argument counts: the rows that look like a given one occupy the places from the
    number of rows before it to the number of rows not after it (`PlacesOfRow`), and the pages of a walk
    cover an interval of places without a gap (`PlacesJoin`).
  * Both rest on what it means to be the *n*-th of some rows in an order (`NthInOrder`,
    `SelectIs`), which is stated by counting and not by sorting: a choice, of which is proved
    that it exists and that it does not matter which.

Only what a temporal-logic prover would need fairness or `ENABLED` for is left to TLC:
`CancelEnds` and `EscEnds`; and the three runs that show where the code departs
from its documents, which are counterexamples. Every other property of a run is proved.

Induction over data is done without an induction theorem. A set of natural numbers that is
not empty has a least element (`LeastNumber`, from the well-foundedness of `<`), so a
statement about all prefixes of a sequence is proved by the shortest prefix for which it
fails; and a function that is defined by recursion is shown to be a function with its
equations by building one for every length (`AmongExists`). This is
how the folds of `SqlTab` and `Browser` (`Captured`, `Among`) are reasoned about.

## 6. Where the code departs from its documents

1. *Edits made during an apply are lost* (`TableLateEdit`). `AppliedMsg` calls
   `clearChanges` for everything staged; clicks can stage while the apply is awaited.
2. *A refresh does not return to the first page* (`TableReload`). A refresh of a tab
   with staged changes asks what to do with them and notes that the first page is to be
   loaded after the apply; `clearChanges` resets the note before `AppliedMsg` reads it.
3. *Another profile can be deleted than the one named* (`LauncherDelete`). Clicks and
   the wheel move the selection while the question is shown, and `y` deletes the
   selected profile.

Found on the way and not settled by a run of its own (the modules allow it, and where a
property is concerned it says what it excuses):

* *An edit can go to another row than the one it was made on.* A click opens the editor while
  a page is awaited (`grid/mouse.go:20`); the page replaces the rows, and `commitEditor`
  (`grid/staging.go:288`) writes to the row that has the remembered line number now. The
  shortest way: ask for the next page, click *edit*, wait for the page, Enter; the change is staged for the row of the new page. `EditorKeepsRow` without its last
  disjunct is violated by it under the bounds of `TableMouse`.
* *An execution can capture more than 64 MiB*, which
  `.wayfinder/issues/define-sql-tab-execution-behavior.md:41` calls a "total captured-data limit
  per execution" (so do `implement-the-sql-tab-workspace.md:32` there and `README.md:59`). The
  names and types of columns are counted but not compared with the limit
  (`sql_executor.go:116-118`), so many results pass it; and a statement without columns that
  fails (lines 97-103) returns without the count, so that `attachSQLNotices` gives the notices the
  whole limit beside the rows that were kept. `CaptureBounded` says what is left of the limit.
* A run that is cancelled before it has outputs leaves the outputs of the run before on the
  screen and removes their stale mark (`sqltab/model.go:397`); `ShownForWhatItIs` excepts it.
* A result that arrives while the user types turns the next keys into commands
  (`sqltab/model.go:377`); `InputIsShown` holds, because the tab shows the other mode then.
* After a reconnect the hitbox of *reconnect* may still be where it was; a click on it
  reconnects a connection that is not lost (`workspace/mouse.go:137`). No property depends on it.
* Health checks end for good after a check or a load that was cancelled or refused
  (`WatchedUnlessRefused`).
* After a connection from the form and a disconnect the form is shown again with an empty
  password field and its replace mark, and saving it replaces the password by none
  (`ReplacesAsChosen`).
* A retry after a commit of unknown outcome inserts drafts again, by closing the error
  dialog and pressing the apply key (`AppliedOnce` excuses drafts that were *doubted*).
* A click starts a second request of a tab, and the first cannot be cancelled any more; a
  cancellation that overtakes the registration of its operation is lost
  (`NoDetachedWork`, `CancelEnds`).
* A stored password that could not be replaced is used later (`ReplacedPasswordUnused`).
* A save that fails after it has replaced the file leaves a password in the session for a
  profile that keeps its own. If the keychain then cannot be read, the next save goes by
  the session's password, and a connection later finds the older one in the keychain
  (`SavedPasswordRecalled` excuses the two faults together).
* Complete results are marked incomplete when a later statement fails.
* A `DisconnectIntent` on its way does not notice a tab that becomes dirty
  (`LosesNothingUnasked`); an `OpenTableIntent` that arrives after its tab was closed
  loads a content nobody shows.
* Typing while the mouse drags clears the selection with its anchor at 0, so that the
  next motion selects from the start of the text. The inspector of a cell takes Ctrl+C
  while a run is under way.
* `Describe` accepts a role that may read some columns of a table, but pages of tables
  read `xmin`, which takes the right to read the whole table (`catalog.system`). A
  primary key whose columns may not be read is not replaced by another unique index that
  may. After deletions an empty page has no cursor to go back from; the page before one
  always claims a page after it, and the page after one a page before it, also when the
  rows there are gone.

## 7. Plan

Done, in this order, the most important behaviour first: `TableTab` with
`AtomicApply` (edits must not be lost or doubled), `Profiles` (passwords must not be
lost or left behind), `Launcher`, `Workspace` with `SessionLife` (sessions), `SqlTab`
with `ConnectionPool` (the pool), `Tabs` (what ties contents to the shell), `SqlInput`
with `EditHistory`, `Browser`, and their proofs.

What would add most next:

* *Abstract specifications.* A list of profiles that survives a crash, implemented by
  `Profiles`; a walk over a table that others write, implemented by `Browser`.
* *Liveness.* A cancelled SQL run gives its connection back; a loaded workspace is
  checked again.
* *Composition.* `Tabs` with one `TableTab` for its contents, at the level of whether
  they are dirty and what they await.
* *Modules.* Validation of profiles as operators over small records.

## 8. What is not modelled, and why

* Of the grid: columns other than one, values and their validation beyond
  "required", editing of key columns, scrolling and the place of the selection, the
  dialog's own selection after an error, status texts.
* Of pages and descriptions: a catalog that changes between the queries of one
  description, inheritance, queries that fail (`TableTab` has their outcomes), the format
  of cells and of encoded cursors, and the text of the sort column in the order of rows that
  have no key.
* Of SQL tabs: line breaks and scrolling inside the editor, horizontal scrolling, the
  text that copying makes, decoding of values.
* Of the shell: navigation in the tree and its windows, focus, help, hitboxes; quitting
  (it asks as a disconnect does, then the program ends).
* Views, geometry and themes change no state.
* Validation, URL import and the JSON document are functions over strings; the
  modules keep only whether they succeed.
* The connector, error classification and the catalog are single calls to the driver;
  the modules keep the outcomes that reducers tell apart.
* Diagnostics are a bounded list that nothing in the program reads back.
* Two running programs that share the profiles file and the keychain; time, and so
  how long a call blocks.
* PostgreSQL is external. It is modelled from how the code uses it: row locks until the end
  of a transaction, `xmin` that changes with every update, a `COMMIT` whose
  acknowledgement may be lost, sessions with state that `rollback` and
  `discard all` remove, queries that each see one state of a table.
