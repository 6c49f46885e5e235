# OpenBeats, specified

OpenBeats is a self-hosted music server: a Go API server (`src/cmd`,
`src/internal`) that keeps tracks, playlists, favorites and accounts in
Postgres and the audio on a volume, and a React client (`src/web`) that plays
them. This directory holds TLA+ models of the parts in which order, failure and
concurrency matter, the TLC configurations that check them, and theorems that
TLAPS proves.

Contents: 1 inventory, 2 modules and their code, 3 runs, 4 bounds, 5 fairness,
6 findings and observations, 7 proofs, 8 what is not modelled, 9 plan.

## 1. Inventory

| component | state | operations | where it is hard |
|---|---|---|---|
| **Track store** (`internal/api/handlers_tracks.go`, `internal/storage`, `internal/db/tracks.sql.go`) | table `tracks`; audio and cover files on the volume | upload, get, stream, cover, delete | two stores without a common transaction: a crash, an i/o error, a failing statement or a lost reply between any two steps; deletes racing streams, uploads and each other |
| **Playlists** (`handlers_playlists.go`, `playlists.sql.go`) | tables `playlists`, `playlist_tracks` with positions | create, get, add a track; tracks vanish by cascade | check-then-act over three statements: the track may go, positions may be handed out twice, a reply may be lost and the add repeated |
| **Accounts and start** (`cmd/openbeats/main.go`, `internal/db/pool.go`, `internal/config`, `handlers_auth.go`, `internal/auth`) | tables `users` and `schema_migrations`; tokens issued | migrate the schema and seed the admin at startup, login, register | several instances migrate and seed one database, fail, crash and are restarted; a migration is three statements; two registers want one name |
| **Favorites** (`handlers_favorites.go`, `favorites.sql.go`, `web/src/hooks/useFavorites.ts`) | table `favorites`; the list cached in the tab, the snapshot of each optimistic toggle, the fetch in flight | like, unlike, list; toggle, roll back, settle, refetch | requests reach the server in another order than they were clicked, rollbacks restore snapshots that are out of date, a fetch reads before or after a write it does not know of |
| **Player** (`web/src/store/player.ts`, `web/src/design/PlayerBar.tsx`, `NowPlaying.tsx`, the buttons of `pages/Collection.tsx`) | queue, index, isPlaying, volume, modes, the full-screen view; the media element with its own state and event queue | buttons of three places, effects, the element's events | store and element command each other: effects answer store changes, events answer element changes, promises are rejected in between |
| **Web session** (`web/src/store/auth.ts`, `web/src/api/client.ts`, `pages/Login.tsx`, `App.tsx`, `hooks/usePlaylists.ts`) | the token, in memory only; the page; the query cache, which outlives a logout | login, logout, the guard with Back and Forward, the interceptor that attaches the token and the one that drops it on a 401; fetch, retry, invalidate, create | nothing aborts a request: answers of one session come home in the next; the cache is not keyed by user |
| **Library index** (`hooks/useLibrary.ts`, `useTracks.ts`, `UploadDialog.tsx`) | the cached lists of tracks, one per search text; albums and artists are derived from them | slug, album and artist of a track; upload and delete, each followed by an invalidation | names that differ and slugs that do not; answers that are older than the change that was to be fetched |
| **Playlists in the client** (`hooks/usePlaylists.ts`, `TrackMenu.tsx`, `CreatePlaylistDialog.tsx`) | query cache: the list, and the detail of each playlist | list, detail, create, add, create and add | invalidation after a mutation, nothing optimistic; the second of two awaited requests goes out when menu, row, page or session are others |
| **Pages and frame** (`App.tsx`, `pages/`, `design/Sidebar.tsx`, `TopBar.tsx`, `AlbumCard.tsx`, `TrackRow.tsx`) | the page, the search text, the open dialog or menu with its mutations | links, cards, Back and Forward, rows and their menus, dialogs | components come and go with lists and pages while their requests are under way |
| **Server lifecycle** (`main.go`, `internal/db/pool.go`, `router.go`) | process, listener, pool | load the configuration, migrate, connect, seed, serve, shut down within 15 s | every step may fail and ends the process; a shutdown cuts requests that take longer (a crash in the models) |
| **Tokens and middleware** (`auth/jwt.go`, `auth/middleware.go`) | none | issue, verify, `RequireAuth`, `RequireAdmin` | the role in a token is the role at login time |
| **Metadata** (`internal/metadata`) | none | read the tags of a file | pure; its outcome is an input here |
| **Configuration** (`internal/config`) | none | read the environment | a value that stops an instance at each start |
| **Drawing, deployment** | none | – | nothing concurrent |

**How they interact.** The client calls the API by HTTP; every request runs in a
goroutine of its own, with no lock in the process and no transaction in the
database, so a handler is a sequence of statements and file operations that
interleave freely with others. The components share the database: deleting a row
of `tracks` (Track store) removes the rows of `playlist_tracks` and `favorites`
that refer to it (`ON DELETE CASCADE`), at any time; that is the action
`DeleteTrack(t)` of Playlists and of Favorites. All server handlers sit behind the
token of Accounts; the other modules start at a caller whose token has been
verified. In the tab everything runs in one thread, but answers, events and
promises arrive in any order the network and the browser allow.

**What correctness means.**

- *Track store*: a listed track has its audio; files are never there without a
  row, unless a fault struck in mid-change; an acknowledged upload stays until
  someone entitled deletes it; an acknowledged delete is for good; a stream never
  serves part of a file.
- *Playlists*: no entry without its track and playlist; only owners and admins
  write; an acknowledged add stays; the list order is the order of the adds.
- *Accounts*: whoever starts, crashes or races, there is an admin to log in as;
  what a 201 promised exists; nobody but an admin makes accounts; nobody serves a
  schema that is not whole; every instance that can start ends up serving.
- *Favorites*: no favorite without its track; when things are quiet, the heart
  that is shown is the one the server keeps; the last click decides.
- *Web session*: the list on display is the one of whoever is logged in; nothing is
  asked for outside of a session; a session ends only for a reason of its own.
- *Shell, library index and pages*: what is quiet on the screen is what the server has;
  every track is in one album and under one artist; a card leads to its album; a
  playlist made for a track gets it; an answer closes only a dialog of the kind it came
  from, its own menu, or a menu that has lost its row.
- *Player*: what is shown is what plays; the button tells the truth at rest; store
  and element come to rest; a queue goes on.

## 2. Modules and their code

| module | models | state and actions |
|---|---|---|
| `TrackStore` | the five track handlers on `storage.Storage` and `tracks.sql.go` | `tracks`, `audio`, `cover` are table and volume; `pc`, `call`, `row`, `reply` are the goroutine of each request. One action per statement or file operation: `CreateAudio`, `CopyAudio` (the two halves of `SaveReader`), `SaveCover`, `CreateTrack`; `LoadTrack`, `OpenFile`; `DeleteTrack`, `DeleteAudio`, `DeleteCover`. `Crash` kills all handlers |
| `TrackStoreProofs` | – | theorems about `TrackStore`: rows, and their files |
| `PlaylistOrder` | – | abstract playlists: each a set of tracks in a total order; add moves to the end, a deletion closes the gap |
| `Playlists` | the playlist handlers | `position` is `playlist_tracks`, `owner` is `playlists`; `LoadPlaylist`, `CheckTrack`, `ReadPosition`, `InsertRow` are the four statements of an add |
| `PlaylistsProofs` | – | theorems about `Playlists`, and that it implements `PlaylistOrder` |
| `Accounts` | `run()` up to serving, login, register, the role checks | `stage[i]` is where instance `i` is in `run()`, `config[i]` what it finds in its environment; `version`, `dirty` and `applied` are the schema: `LockSchema`, `MarkDirty`, `ExecuteMigration`, `MarkClean`, `UnlockSchema` are golang-migrate's `Up()` (external), `OpenStores` is `NewPool` and `storage.New`; `CountUsers`, `LookupAdmin`, `CreateAdmin` are the statements of `seedAdmin`; `CheckLogin`, `LookupName`, `CreateUser` those of the handlers |
| `AccountsProofs` | – | theorems about `Accounts` |
| `Favorites` | the favorites handlers with the tab's `useFavorites` | server: `CheckTrack`, `AddFavorite`, `RemoveFavorite`, `ListFavorites`; tab: `Click` (`toggle`, `onMutate`, `mutationFn`), `Settle` (`onError`, `onSettled`), `GiveUp`, `ReceiveList`, `Render`, `Mount` |
| `FavoritesProofs` | – | theorems about `Favorites` |
| `Lists` | the filter of an array, the DELETE from an ordered table | `Only(list, set)`, by a recursive function, so that it can be reasoned about |
| `ListProofs` | – | what `Only` keeps, that filters compose, lists without repetition |
| `MediaElement` | the browser's `<audio>`/`<video>` (external) | an element is a record, its methods are operators, its events a queue |
| `Player` | the player store and the player bar | one action per button; `Render` is commit and effects in their order; `HandlePlay`, `HandlePause`, `HandleEnd`, `handleEnded` are the event handlers; `PlayerBar`, `NowPlaying` and `CollectionView` say which buttons each place has |
| `PlayerProofs` | – | theorems about `Player` |
| `Session` | the tab's session and the cached list of playlists | `token` is the auth store, `query` the cached list with its fetch, `req` the requests under way; `Submit`, `Back`, `Forward`, `Logout`, `MountMore`, `Create` are the user's, `Serve`, `Expire` the server's; `Receive` is what the tab does with an answer: `Refused` is the 401 interceptor, `LoggedIn` the rest of `submit`, `Created` that of `createAndAdd` and the dialog; `GiveUp`, `RetryDue`, `Forget` |
| `SessionProofs` | – | theorems about `Session` |
| `LibraryIndex` | `useLibrary.ts` | no variables: `slug`, `albumId`, `buildAlbums`, `buildArtists`, `useLibrary` are the functions of that name. A name is a sequence of words and of other characters, so that case and punctuation are what they are to `slug` |
| `Shell` | pages, frame, dialogs, menus and the cached lists under them; extends `LibraryIndex` | `path` is the page, `query[k]` a cached list with its fetch, `overlay` the open dialog or menu, `req` the changes asked for, `library` and `lists` the server in short. `Follow` (a link of `Links`, which says what each page offers), `Back`, `OpenDialog`, `Close`, `OpenMenu`, `SetMode`, `SubmitUpload`, `SubmitCreate`, `addToPlaylist`, `createAndAdd`, `confirmDelete` are the user's; `Serve`, `Refuse`, `ServeFetch` the server's; `ReceiveUpload` … `ReceiveDelete` the `onSuccess` and what follows the `await`; `Rendered` drops the menus and mutations whose row is gone |
| `ShellProofs` | – | theorems about `LibraryIndex` and `Shell` |
| `MC…` | – | symmetry sets and queues for TLC |

Conventions. A Go handler that answers sets `reply` to the status. Requests arrive
at most once and are never forgotten, so that properties can speak of what was
acknowledged; only in `Session` a request is a slot that is used again, since what
matters there is how many overlap. The statements that a handler issues are
operators of their own (`InsertRow`, `Found`, `Listed`, …), used by its actions.
Variables marked *history* in a module are not in the code; no guard reads them.
`Faults` says which failures a run allows: `"crash"` (the process dies
between two steps), `"io"` (a file operation fails), `"db"` (a statement fails
without effect), `"lost"` (a statement commits and the handler sees an error, e.g.
because `r.Context()` is cancelled while the answer is on its way), `"net"` (the
tab gives a request up, whether or not the server goes on with it) and `"fetch"`
(a fetch of the list and its retry fail).

Abstractions worth knowing:

- In `TrackStore` both the UUID of the files and that of the row are identified
  with the upload that drew them. `file_path` is therefore not a column.
- `audio[t]` is `"absent"`, `"partial"` (created, not completely copied) or
  `"whole"`. Reading the tags is an input: whether there is a cover to save.
- `Playlists` starts with all tracks uploaded and any of the playlists created, since
  uploads and creations before the interesting part only add states. The identity
  of new playlists is drawn from those that do not exist.
- `Accounts` starts with an empty database and any configuration of each instance: a
  password of any length, and a `JWT_TTL` that parses or does not. `Migrations` files
  are applied in order, each by golang-migrate's three statements under one advisory
  lock, which Postgres frees when the connection goes. Tokens are the accounts they were issued
  for; an issued token does not expire within a run, and no statement of the code
  updates a row, so the role in the token is that of the row.
- `Favorites` starts with any list and a page that has just been opened. A list
  is a sequence, newest first, so that order is part of agreement.
- `Shell` has the server's track list and one user's playlists without their statements:
  a request takes effect in one step, in any order with others, and `TrackStore` and
  `Playlists` show what is inside that step. The sidebar's list of playlists is always
  up to date there; `Session` has it as a cached list.
- A fetch in `Shell` is asked for (`"sent"`), read from the tables (`"served"`) and
  received. `Invalidate` follows @tanstack/react-query: with data, a fetch on its way
  is cancelled and asked for again; without, it is joined. Its data are stale at
  once (no `staleTime` is set), so each mount fetches.
- A row and the menu in it are one component as long as the row's key stays: `t.id + i`
  on collection pages, `t.id` among search results. Pending mutations go with it.
- The shell starts at home with an empty cache: the token is in memory only, and
  `submit` of the login page leads to `/`.
- `Player` keeps of the position only whether it is beyond the 3 s that `prev`
  asks about. After each task the tab renders until nothing is left to do; the
  element's events wait for the next task.

## 3. Runs

| run | configuration | what it asks |
|---|---|---|
| `tracks_faults` | 3 requests, 2 users of whom 1 admin, all four faults | does any interleaving of upload, delete and stream with any of the failures leave a stray file, also behind a failed upload (`NoStrayFiles`), lose an acknowledged upload (`UploadsStay`), bring a deleted track back (`DeletedStaysGone`) or stream a part of a file (`StreamServesWholeFile`)? |
| `tracks_reliable` | 3 requests, no lost replies, fair | is every listed track playable (`RowsHaveAudio`) and are the files of every track that is deleted without a fault in its files removed (`RemovedEventuallyFreed`)? |
| `tracks_lost_reply` | 3 requests, lost replies | **violated**: `RowsHaveAudio`, see finding 1 |
| `playlists` | 3 requests, 3 tracks, all faults | no dangling entry (`EntriesExist`), only owners write (`OnlyOwnersWrite`), acknowledged adds stay (`AddedStays`) and do not overtake earlier ones (`AppendOrder`) |
| `playlists_serial` | 3 requests, 3 tracks, adds one at a time | the tables implement `PlaylistOrder` (`ListInOrder`, a refinement), with crashes and lost replies |
| `accounts` | 1 instance, 4 requests, lost replies | `RegisteredAsAsked`, `ValidLoginAccepted` |
| `accounts_start` | 2 instances, 1 request, 2 migrations, all faults, any configuration, fair | `AdminExists` and `MigratedFirst` in every state; does every instance that no fault strikes any more serve in the end, unless something that no restart can mend stops it (`EventuallyServing`)? |
| `favorites` | 2 toggles, 2 tracks, all faults | `FavoritesExist`, `CacheAgrees`, `LastToggleWins` |
| `player` | queues of up to three tracks, one a video, 4 clicks, fair | `IndexInQueue`, `PlaysWhatIsShown`, `ButtonAgrees`; `ComesToRest`, `PlaysOn` |
| `player_volume` | the same, 3 clicks | **violated**: `VolumeKept`, see finding 2 |
| `session` | 2 users, 2 requests under way, failing statements, broken connections | `AskedInSession`, `OwnListShown`, `SessionEndsForCause` |
| `shell` | 2 tracks and 1 playlist, 2 changes, 3 changes and visits in all, failing statements, broken connections; lists of up to 3 of 7 tracks for the index | once quiet, do the lists on display agree with the server (`PagesAgree`), and do cards lead to pages with their tracks (`CardsOpen`)? Does a playlist made for a track get it (`CreatedForTrack`), and what do answers close (`OverlayStays`)? `AlbumsPartition`, `ArtistsCountAll` are about every list that the library may grow to |

`CHECK_DEADLOCK FALSE` is in every configuration: requests, toggles and clicks are
finite, and when all are answered there is nothing left to do.

Every property has a mutant: a second form of a definition, next to the original in
the module and marked as such, with the bug the property is there for (a dropped
error, a missing rollback, an insert without its foreign key, an effect that runs
once). `PROJECT.json` lists them; under the run's own configuration each mutant
violates its property.

## 4. Bounds

- **Three requests** in the track store are an upload and two others on its track,
  in any roles: two deletes, a delete and a stream, or two uploads and a delete.
  All conflicts of the handlers are between two of them about one track that a
  third made.
- **Three requests and three tracks** in a playlist are two rows in order and a
  third add, or a repeated add between two others: what it takes to see an order
  broken. One playlist suffices, since no statement touches two; the proofs
  are for any number.
- **Two instances** race to migrate and to seed, with **two migrations**, so that one may
  fail or die before, between and after them, and three configurations each: one that
  can start, one whose password cannot be hashed, one that does not parse. Requests reach
  an instance that serves, when there is an account already, so they cannot change
  how a start goes on, and **one request** is enough. (All three properties hold with
  two requests, and `EventuallyServing` with three instances, too, but in three to four
  minutes.) **Four requests** in one instance are a login of
  the admin, two registers of one name and a login of the new account. The two
  questions are separate runs because the product of all of it is too large.
- **Two toggles** of two tracks overlap in all ways: two on one track, one on each.
  A fetch, a deletion or a new mount may come at any time and as often as one
  likes. Three toggles do not end within the time a run has.
- **Two requests under way** in a session, out of any number that follow each other
  in the same slots, and **two logins**: a request of the first session that is
  answered in the second, next to one of the second. **Two creates** per user
  distinguish an old list from the present one, after a first that is complete.
- **Two changes and a visit, or one and two visits**, in the shell: two answers in any
  order with each other, with the fetches they cause and with a page that comes or
  goes. Dialogs and menus open and close any number of times in between, fetches
  follow each other without bound. One track to begin with and one to upload share an
  album whose names are written differently, so an album page gains and loses rows.
  The properties hold as well with a third change and no faults, and with four
  changes and visits (2 million states, which takes longer than a run should).
- **Seven tracks** have tags with and without words, in two cases, with dashes inside
  and equal words on both sides of the joint; **three** at a time are what it takes for
  a track to come between two others.
- **Four clicks** in the player reach any queue, mode, mute and switch between
  audio and video with the events of each still to come. Opening and closing the
  full-screen view and its tabs is not counted. `Volumes = {0, 8, 10}`
  are mute, the store's default and the element's default.

Histories (`tainted`, `writer`, `earlier`, `owed`, `last`, `muddled`, `doubt`,
`hasty`, `behind`, `wanted`) are finite by their types. Symmetry is used for requests, users that
no constant singles out, tracks and toggles, and only in runs without liveness.

## 5. Fairness

- `TrackStore!FairSpec`: weak fairness of each handler's next step. The Go runtime
  schedules every runnable goroutine, and file operations and statements return.
  Clients owe nothing: arrival is not fair.
- `Accounts!FairSpec`: weak fairness of `Run(i)` — a process that has been started
  runs on, and the Kubernetes deployment restarts a container that exited — and
  strong fairness of getting the schema lock: Postgres grants it in the order of the
  waiting, so nobody who keeps coming back is passed over for ever. Faults owe nothing:
  `EventuallyServing` speaks of an instance that from some time on is not `Struck` by one
  (it neither dies nor exits where it could have gone on or waited), whatever strikes the
  others. It may be `Stuck` instead: its `JWT_TTL` does not parse, the schema is dirty and
  nobody is at work on it, or its password cannot be hashed and nobody has seeded.
- `Player!FairSpec`: weak fairness of rendering and of the element's queued tasks,
  which is the browser's event loop. Clicks, loading and the end of a track are not
  fair.
- `Favorites`, `Playlists`, `Session` and `Shell` have no liveness property: that a list
  is renewed in the end is stated as a property of the states in which nothing is
  under way (`CacheAgrees`, `PagesAgree`).

## 6. Findings and observations

Two properties state what a document or a comment says, and the code does otherwise.
Each is a run with expectation *violation*.

1. **A listed track without audio** (`tracks_lost_reply`, `RowsHaveAudio`). The
   upload handler takes any error of the INSERT for "no row" and removes the
   files; when the statement did commit and only its answer was lost, the track
   stays listed and cannot be played.
2. **The volume of a fresh element** (`player_volume`, `VolumeKept`). The effect
   that sets the volume depends on the store's volume only; when the tag changes
   between audio and video the new element plays at full volume. The design note on
   video says that volume works unchanged.

Five more properties are false of the code. They have configurations of their own, which
are not among the runs; TLC finds each violated within seconds, without any fault but the
one that is named (`tlc -config MCSession_lists.cfg MCSession`, and so on).

3. **A deleted track whose files stay** (`MCTrackStore_delete.cfg`, `DeleteRemovesFiles`; a file error). The
   delete handler drops the errors of `Storage.Delete` and answers 204. The API
   reference says "Delete track and its files"; the files that stay have no row, so
   no request can reach them again.
4. **Two tracks at one position** (`MCPlaylists_overlap.cfg`, `PositionsDiffer`).
   `NextPlaylistPosition` and `AddPlaylistTrack` are two statements, and nothing stops
   two adds from overlapping: the menu of a track closes before its add is answered, and
   an admin may add to the list as well. Both read the same maximum, and `ORDER BY
   position` leaves the order of the two rows to Postgres; the API reference promises
   "ordered tracks". `ListInOrder` therefore is checked and
   proved for adds that do not overlap (`SerialSpec`), and `AppendOrder`, for any adds,
   says only how those that follow each other are placed.
5. **A current schema that stops every start** (`MCAccounts_noop.cfg`,
   `CurrentIsNoOp`; a crash). When a process dies after a migration has been executed and before
   it is marked clean, the schema is current and `dirty`; `Up()` refuses it,
   `RunMigrations` returns the error, and every instance exits at each start until somebody
   mends the row by hand. The comment says that it "is safe to call on every startup".
   A statement that fails inside a migration leaves a dirty schema as well, then one that
   is not whole. `MigratedFirst` shows the other
   side: nobody serves a schema that is not whole.
6. **"Your playlists" of another user** (`MCSession_lists.cfg`, `YourPlaylists`). The key of the
   query names no user and the cache outlives a logout: the pages of the next session
   join a fetch that the last one began, or a login ends on a page that is there already.
   They go on to show the last user's list until something fetches it again.
7. **A 401 that ends the wrong session** (`MCSession_401.cfg`, `DroppedIsStale`). The
   interceptor takes any 401 for one about the token of the moment. One that answers
   a request of an earlier session, or the second half of `createAndAdd` that was sent
   without a token, ends the session that is there when it arrives.

Behaviour met while modelling that the properties allow for, by name where they
make an exception of it:

- The lookup in `seedAdmin` that is to "guard against a race where another instance
  seeded concurrently" can be passed by both instances; the one whose INSERT hits
  the UNIQUE constraint exits, is restarted, and serves. `AdminExists` and
  `EventuallyServing` hold all the same.
- An instance whose `ADMIN_PASSWORD` is longer than bcrypt's 72 bytes exits at each
  start until another one has seeded, and one whose `JWT_TTL` does not parse at every
  start (`Stuck` in `EventuallyServing`). The admin has the password of the instance that
  came first, which need not be that of the others (`AdminExists`).
- A failed login on a login page that the Back button brought up ends the session that
  is there when its 401 arrives (`SessionEndsForCause`).
- `createAndAdd` sends its second request with whatever token there is by then:
  none, or that of another user, whom the server refuses (`AskedInSession`).
- Of a list of playlists on display, `OwnListShown` leaves out one that is `outdated`: by
  finding 6, because a fetch that was begun before a change was joined, because a fetch
  has failed twice, or because the answer to a create was lost.
- After a failed fetch, or a rollback whose request still runs on, the hearts may be wrong
  until the next fetch that reads the table after that request (`doubt` in
  `CacheAgrees`).
- The answer to an upload closes the upload dialog even if the user has closed the one
  it was sent from and opened another, and the answer to a create goes to the new
  playlist from whatever page the user has gone to (`OverlayStays` allows both).
- Lists stay as they are after an upload or a deletion whose answer is lost, or a fetch that
  has failed twice, until they are fetched again (`behind` in `PagesAgree`).
- A change that is acknowledged while the first load of a list is on its way joins
  that load, which may have read the tables before the change: the page stays one change
  behind until it is mounted again (`behind` in `PagesAgree`).
- A deletion renews the lists of tracks, not the details of playlists, the favorites or
  the player's queue: they show the track until they are fetched again
  (`PagesAgree` compares playlists but for such tracks).
- A change to a list closes the menus of rows behind it on collection pages, whose keys
  have the position, and forgets what they have pending.
- The button "Create & add" is disabled by the pending state of the last call of each hook:
  adding the track to another playlist from the same menu during the second half of
  createAndAdd makes it enabled again. A create that succeeds before an add that
  fails leaves an empty playlist, and submitting again makes a second one.
- Names without ASCII letters or digits all have the slug `untitled`, so albums of
  different artists in other scripts are one album with the tracks of all; its artist
  and title are those of its newest track. `AlbumsPartition` says exactly which
  albums merge. Two spellings of one artist may be two artist cards with one React key.
- A crash, or a file operation that fails, between row and files leaves files that no row
  names, for good (`tainted` in `NoStrayFiles`).
- Of two overlapping registers of one name the second is answered 500, not the 409
  that the lookup gives.
- Like and unlike of one track that overlap can end opposite to the last click,
  because their requests may arrive in the other order (`muddled` in
  `LastToggleWins`).
- A click on play/pause while the element's `play` event is still queued can make
  store and element command each other for ever: the event sets `isPlaying`
  back, the effect plays or pauses again, whose event comes after the next one.
  `ComesToRest` fails without its exception `hasty`.
- Playing on is safe against the `pause` that browsers fire before `ended` only
  because `onEnded` sets `isPlaying` again (`PlaysOn`).

## 7. Proofs

TLAPS checks the following for every value of the constants that satisfies the
`ASSUME`s in the modules: which faults there are is any subset of the fault kinds,
bounds are naturals, the constants that name a kind of thing (admins, videos, the
configured account, the volumes 0, 8 and 10) belong to that kind, and `Nil` is none
of the values it stands in for. In `Favorites` the tracks are finitely many, and in
`LibraryIndex` names are sequences of strings in which no two words adjoin, the dash is no
word, and lower case is a function on words. TLC evaluates the assumptions in every run.

**`TrackStoreProofs`**

- `TypeCorrect`: `Spec => []TypeOK`.
- `ListedTracksPlay`: `Spec => []RowsHaveAudio` if `"lost" \notin Faults`. So it takes
  exactly a lost reply to break it, and `tracks_lost_reply` shows that it does.
- `DeletesHold`: `Spec => []DeletedStaysGone`.
- `DeletesAreComplete`: `Spec => []DeleteRemovesFiles` if `"io" \notin Faults`. It takes exactly
  a file operation that fails to break it, as finding 3 does.

None of the properties is inductive: whether a removal of files is harmless depends
on who else may be at work on the track. The invariant is `TypeOK /\
HandlersAgree`: an upload works on its own track, which nobody can have found before
it is inserted; from the end of `io.Copy` on its audio is whole; whoever deletes
does so after the upload is over (`Settled`), and removes files only after the row
is gone, for a settled track is never inserted again. `RowsHaveAudio` is preserved
on top of it: the only steps that touch the audio of a track with a row are those
that `HandlersAgree` excludes.

`FilesMatchRows` (`NoStrayFiles`), `UploadsAreDurable` (`UploadsStay`), both `Spec => []P`
under any faults, and `StreamsAreWhole`, `Spec => StreamServesWholeFile`, rest on `FInv`,
which adds to `HandlersAgree` what each handler holds in its hands: the row it has
loaded is the one that the upload inserted, so the names of the files in it are right
and the check of the owner is about the right user; the audio of a settled upload is
whole or gone, never partial; and a handler that removes files while their row is there
has tainted the track, which is what `NoStrayFiles` excepts.

**`PlaylistsProofs`**

- `TypeCorrect`, `NoDanglingEntries` (`EntriesExist`), `WritesAreAuthorised`
  (`OnlyOwnersWrite`), `AddsAreDurable` (`AddedStays`), `AddsKeepOrder`
  (`AppendOrder`): each `Spec => []P`.
- `Refinement`: `SerialSpec => ListInOrder`; every step of the tables is a step of
  `PlaylistOrder` or leaves its variables alone.

The invariant has `HandlersKnow` (what a handler has learnt from its statements is
still true when it uses it: the caller was allowed, the position read lies above
every row that was acknowledged before it arrived) and `RowsWritten` (each row is
known to the finished request that wrote it). For the order that is not enough: two
handlers may hold the same position. Under `OneAddAtATime` the position read is above
*every* row until it is used (`NextIsFree`), which makes every `InsertRow` a move to the
end and keeps positions apart.

**`AccountsProofs`**

- `TypeCorrect`, `AdminIsKept` (`AdminExists`), `RegistersAreDurable`
  (`RegisteredAsAsked`), `OnlyAdminsRegister` (`AdminsRegister`, which no run checks: roles never
  change): `Spec => []P`, for
  any number of instances that race, fail, crash and start again.
- `NobodyServesHalfASchema`: `Spec => []MigratedFirst`, for any number of migrations.
- `UndisturbedIsNoOp`: `Spec => []CurrentIsNoOp` if none of `"crash"`, `"db"` and `"lost"` is in
  `Faults`: instances that migrate at once do not disturb each other.
- `ValidLoginsPass`: `Spec => []ValidLoginAccepted` if `"db" \notin Faults`; the handler
  answers a statement that fails with 401 as well.

The argument is that a row never changes once it is there, so that what an instance
has learnt from `CountUsers` or `LookupAdmin` stays true when it says "there is
something", and the UNIQUE name makes a stale "there is nothing" fail at the
INSERT. `HandlerKnows` says this for each stage, and for a register past the role
check that the token behind it is an admin's. `SchemaKnown` says what the schema is like at
each stage of a migration; the lock keeps all but one instance out of those stages, and
nobody comes past them while a migration is left or not marked clean.

**`SessionProofs`**

- `TypeCorrect`, `RequestsBelongToSessions` (`AskedInSession`), `FreshListsAreOwn`
  (`OwnListShown`): `Spec => []P`; `SessionsEndForCause`: `Spec => SessionEndsForCause`.

For the first three the invariant says what is known of each request under way
(`Known`): its token, if it has one, was issued, and a 401 to anything but a login means
that the token was missing or has expired. `OwnListShown` needs to look ahead
(`LInv`): the list on display is fresh, *or* a create of the same user has been carried
out and its answer, which will renew the list, is still to come (`Done`); and the list
that the fetch under way brings will be so too, since that fetch carries the token of
the session. `outdated` marks what the
theorem does not speak of: finding 6, fetches begun before a change and joined or that
failed twice, and creates whose answer got lost.

**`PlayerProofs`**

- `TypeCorrect`, `IndexStaysInQueue` (`IndexInQueue`), `ShownIsLoaded`
  (`PlaysWhatIsShown`), `ButtonIsRight` (`ButtonAgrees`): `Spec => []P`, for any library,
  queues of any length and any number of clicks.

`ShownIsLoaded` rests on `SourceRendered`, which holds between renderings too: the
element always has the source and the tag of the track that was rendered *last*.
`ButtonIsRight` is about the events to come (`BInv`): the last event in the element's
queue tells whether it is paused (`Orderly`), so once that has been handled the store
agrees with the element; and where no event is left that tells, the store agrees by
now, unless a rendering or the handler of a rejected promise is still to come
(`Agreed`). An end comes first in the queue, because the element was at rest when it
was reached, and a play command behind it has left the end. No exception for hasty
clicks is needed: they may keep store and element from coming to rest, but not
make them disagree at rest.

**`ListProofs`**

What lists do is proved once, for lists of any length. The library's induction
theorems take an operator as a parameter, which no prover here can instantiate; so
induction is stated with a *set* (`SetInduction`: a set of naturals with 0 and successors
is `Nat`; `ListInduction`: a set of lists with the empty one and one more element is
`Seq(S)`), and each use takes the set of those values for which the claim holds. On
that rest the equations of `Only` (`OnlyEmpty`, `OnlyAppend`, `OnlyCons`), what it keeps
(`OnlyElements`), that two filters are one (`OnlyTwice`), that it depends on the list's
elements only (`OnlySame`), and lists without repetition (`AppendNew`, `ConsNew`,
`OnlyOnce`).

**`FavoritesProofs`**

- `TypeCorrect`, `FavoritesExistAlways` (`FavoritesExist`), `CacheAgreesAlways`
  (`CacheAgrees`), `LastToggleWinsAlways` (`LastToggleWins`): `Spec => []P`, for any number
  of toggles and tracks and any faults.

`LastToggleWins` compares what the tab has heard of a track's last toggle with the table.
`LastInv` says how far the toggles are meanwhile: where the handler of a toggle stands and what the tab has heard
of it go together (`Waits`), and of the toggles of a track that overlapping ones have not
made `muddled`, only the latest may still have a statement to execute; when it has
succeeded, it shows in the table (`Latest`). `CacheInv` says that while nothing is
in `doubt` a toggle that the tab has done with is over on the server; so what the
fetch under way has read, and a list on display that no fetch is to renew, agree with the
table as soon as all toggles are over (`Current`).

**`ShellProofs`**

- `AlbumIdsTellApart`: `albumId(a, t) = albumId(b, u)` just when artists and titles are the
  same names but for case and what is between the words. Words and dashes take turns in a
  slug, so the first two adjoining dashes of an id are the ones that `albumId` put there.
- `EveryListPartitioned`, `EveryListCounted`: what `useLibrary` makes of *any* list of tracks
  holds each track in one album and counts it with one artist; hence
  `AlbumsAlwaysPartition` (`AlbumsPartition`) and `ArtistsAlwaysCount` (`ArtistsCountAll`),
  `Spec => []P`. A sum over a set is one that takes the elements in the order of `CHOOSE`;
  `TotalAgrees` shows that a function that can be added up in *every* order is that sum,
  and the number of tracks with one of some ids (`Count`) is such a function, since the
  ids of albums differ (`AlbumsSize`) and each album has one artist (`ArtistsSize`).
- `TypeCorrect`, `EveryCreatedForTrack` (`CreatedForTrack`), `SettledPagesAgree`
  (`PagesAgree`), `SettledCardsOpen` (`CardsOpen`): `Spec => []P`; `WhatAnswersClose`:
  `Spec => OverlayStays`; all for any number of tracks, playlists, requests and visits,
  and whatever paths the history holds.

`Next` has some twenty-five actions, and an invariant cares for few of the things that
each does. So `StepKinds` sorts the steps by what they do to requests, lists and cache
(`Changes`: nothing, a request more, a request that turns, the server's part of one, a
fetch), and each invariant is proved once per kind.

The types follow from `ShellInv`, which says what requests are made of: they are about
songs and playlists that are there (`RequestsMade`); everything that lists, caches and
requests speak of was there from the start or has been uploaded, and an upload under way
brings a song that is not known yet, and no two the same (`RequestsKnown`, `ListsKnown`);
and the open menu is that of a row (`FormsKept`). Without the second, two uploads could
bring one track twice, and the library would repeat it, which its type forbids. The last
is what `OverlayStays` rests on: as long as its row is there, nothing but the answer to
its own request closes a menu.

`CreatedForTrack` is preserved since the song that a playlist is `wanted` for is, at each
moment, in the playlist, or carried by a request for it that is under way or has
failed, or not in the library (`WantedComes`); `createFor` turns into `addTo` in one step.

`PagesAgree` is about settled lists; `AnswerAgrees` says of a list that need not be settled
what makes it so: unless it is known to be behind, or the invalidation after a change is
still to come, what its fetch has read is what the server has, and so is a list on
display that nothing is to renew. It also takes that a page or a fetch of a playlist is of
one that exists (`PlaylistsThere`). A card's album is then on the page it leads to because
both pages are made of lists that are the server's, and the search shows a part of them.

**Only model-checked.**

- All liveness (`RemovedEventuallyFreed`, `EventuallyServing`, `ComesToRest`,
  `PlaysOn`): the prover does not treat fairness. Every invariant and action property
  that a passing run checks is a theorem.
- The seven properties of section 6 are false of the code: `RowsHaveAudio` under lost
  replies, `DeleteRemovesFiles` under file errors and `CurrentIsNoOp` under crashes, failing
  statements or lost replies (each a theorem without), `PositionsDiffer`, `YourPlaylists`, `DroppedIsStale` and `VolumeKept`.

## 8. Not modelled

- *Server lifecycle beyond start, crash and restart*: a graceful shutdown lets a request
  end or, after 15 s, cuts it, which is `Crash`, as is a listener that fails; so the listener
  and its deadline add no outcome to those of the handlers. The pool and the routes have no state that a
  handler's result depends on.
- *Listing and searching tracks on the server*: single statements that change nothing.
- *Metadata*: a pure function of bytes, by a third-party reader; its outcomes are
  inputs.
- *Drawing and formatting* (`Cover`, `Icon`, `Bar`, `palette`, `format`) and the styles: no
  state, and no property is about them.
- *The duration in the player*, which is displayed only, *and the fraction of a drag*, which is
  displayed and then sought to: of the target `SeekBar` keeps whether it is beyond 3 s.
- *The rest of the configuration, the Helm chart*: no state that changes while the system
  runs. The connections that `WithInstance`, `Ping` and the lock take are one statement
  each that may fail; what a migration does to the tables is not looked into.
- *JWT cryptography and bcrypt*: a token is the account it names, a hash the
  password it was made of; that bcrypt refuses long passwords is kept
  (`Unhashable`).
- *Several tabs or users in one client model*: each tab has its own store and cache, and
  the server modules have the requests of all of them.

## 9. Plan

Done: the modules of section 2, in the order TrackStore, Playlists with PlaylistOrder,
Accounts, Favorites, Player with MediaElement, Session, LibraryIndex, Shell; proofs of
every invariant and action property that holds.

What could follow:

1. `Library`: tracks, playlists and favorites on one database, composed from
   `TrackStore` and `Playlists`, so that the cascade is the delete handler's own step
   rather than a deletion at any time, which allows more.
