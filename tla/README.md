# Formal models of SFLphone-KDE

SFLphone-KDE is the KDE client of the SFLphone telephony daemon.  The daemon
(`sflphoned`, another process, not in this repository) places and receives the
calls and keeps the settings; the client shows them, sends the user's orders
over D-Bus and follows the daemon's signals.  This directory holds TLA+ models
of the client's own logic, the TLC runs that check them, and the theorems about
them that TLAPS proves.  `PROJECT.json` gives for every definition the lines of
code it models, and lists the parts, the runs, the faults each property finds,
the hazards and the theorems.

## 1. Inventory

| Part | State it keeps | Hard behaviour | What makes it correct |
|---|---|---|---|
| Call automaton (`lib/call.cpp`) | state, two 14-row tables, numbers being typed, stamps, timer | the daemon's events cross the user's actions; every change re-enters `CallModel` before the handler ends | phases go forward; the timer runs exactly in progress; a call is placed once; what was hung up is recorded |
| Call model (`lib/callmodel.cpp`) | tree of calls and conferences, two maps by object and by id | D-Bus signals late or for dropped calls; removal re-entered from a removal | a live call is in the tree exactly once; parents and children agree |
| History (`lib/historymodel.cpp`, `klib/minimalhistorybackend.cpp`, `lib/lastusednumbermodel.cpp`) | calls by category, a file, the numbers used last | grouping by a day that ends; a torn file; a hand-made linked list | every call in its category; what is written is read; the order of use |
| Accounts (`lib/account.cpp`, `lib/accountmodel.cpp`, `conf/dlgaccounts.cpp`) | details, edit state (6 states x 7 actions), list, form | the daemon changes an account while it is edited | unsaved edits survive signals; what is not edited is the daemon's |
| Video (`lib/video/renderer.cpp`, `lib/video/manager.cpp`, GL widgets) | shared memory map, two frames, semaphores, mutexes | three threads of control in two processes | no access without the lock or the map; starting and stopping end |
| Number directory (`lib/phonedirectorymodel.cpp`, `lib/phonenumber.cpp`) | one object per number, by URI; top ten | a number asked for in several forms, completed, merged | who asks again gets the same number; ranks agree with the list |
| Contacts (`lib/contactmodel.cpp`, `klib/akonadibackend.cpp`, `lib/contactproxymodel.cpp`, `conf/dlgaddressbook.cpp`) | contacts by uid, placeholders, backends, sorted tree | contacts asked for before they are loaded; books switched on and off while notifications are under way | a placeholder becomes its contact; the tree shows each listed contact once; switches mean what they say |
| Bookmarks (`lib/abstractbookmarkmodel.cpp`, `klib/bookmarkmodel.cpp`) | stored hashes, rows in letter groups | a number gains a contact after it was bookmarked; two contacts share a number | a stored number has a row; a removed one is forgotten |
| Call view (`eventmanager.cpp`, `sflphoneview.cpp`, `actioncollection.cpp`, `lib/useractionmodel.cpp`, toolbar, overlay) | selection, menu, toolbar, overlay | a stale view of a call that has moved on | no button leads a live call into an error |
| Canvas (`canvasobjectmanager.cpp`, `klib/tipmanager.cpp`, `lib/numbercompletionmodel.cpp`) | current and next hint, animation, timer | priorities, animations and a timer that cross | tip, widget and state agree; the hint of an ended call goes |
| Macros (`klib/macro.cpp`, `klib/macromodel.cpp`) | position in the text, timers; macros by category, file | several executions at once; a category renamed while edited | a macro starts at its beginning; what is written is read back |
| Account box and presence (`lib/accountmodel.cpp`, `sflphone.cpp`; `lib/presencestatusmodel.cpp`, `conf/dlgpresence.cpp`) | prior account, row of the box; table of presence states with two pointers into it | nobody is told of a lost registration; slots that call each other; rows freed under the pointers | calls go out by a registered account; the box shows it; one default |
| Settings (`conf/*.cpp`, `lib/audio`, `lib/video`, `lib/hookmanager.cpp`) | boxes, models, the daemon's copy, files | pages made on demand, signals of loading taken for edits | an edit is offered for saving; looking changes nothing |

How the parts interact: D-Bus signals arrive on the main loop and call the slots
of `CallModel`, `AccountModel`, `PhoneDirectoryModel` and `Video::Manager`.
`Call` signals every change synchronously to `CallModel::slotCallChanged`;
`CallModel` calls `HistoryModel::add` and the number directory, whose numbers ask
`ContactModel` for placeholders.  The views call `Call::performAction`; the
settings dialog owns its pages and tells them when to save.  Only video has a
second thread; everything else interleaves at the main loop: user, daemon,
timers, other clients of the daemon, other users of the address book.

The parts that are not modelled are in section 7 and, with their reasons, in
`PROJECT.json`.

## 2. Order of the work

The most important behaviour first: the call and its abstract life cycle, the
tree, the video threads, then accounts, directory, history, canvas, call view,
contacts, settings, the account box and presence.  Proofs follow the modules, all
but `CallTree`, which needs recursive operators.  What could come next is at the end of section 7.

## 3. How the models correspond to the code

Common conventions: a handler is one action with everything it calls; what
D-Bus or the event loop queues is what separates two actions; what is only
shown or logged is left out; an environment (daemon, other clients, address
book, user) may do at any time what its interface allows.

**`CallTables`, `Call`** (`lib/call.cpp`, with what `lib/callmodel.cpp` and
`lib/historymodel.cpp` do inside the same handler).  `CallTables` holds the
tables of `call.cpp:65-160`: the next state and the function for each action
and event, the life cycle, and the validation table.  `Call` has one variable
per attribute that a transition reads or writes; typed numbers are their
lengths, stamps are seconds of a bounded clock.  `performAction` follows the
order of the code: the table's state is entered and signalled, and only then
the function runs, which may change the state again; `Signalled(seen)` is
`slotCallChanged`, called for each state gone through.  `stateChanged` adds
what `slotCallStateChanged` does after it: the removal, then the history entry.
A call is created by the user (`DialingCall`), announced by the daemon
(`IncomingCall` with or without automatic answer, `RingingCall`,
`IncomingConference`) or found at start (`Init`, `buildExistingCall`).

**`CallLifeCycle`, `CallRefines`**.  What the rest of the client relies on:
phases go forward, a call is let go only once finished, only started and
finished calls are recorded.  The refinement mapping is five expressions over
the variables of `Call`.  Where the code does not keep the plain promise, the
abstract specification names the exception: `Reopen`.

**`CallTree`** (`lib/callmodel.cpp`, the `InternalStruct`s).  `tree` holds the
list at the top, the children of each conference, the parent of each call and
the ids.  Two maps of the code become one set: the map by object never loses an
entry, the map by id does.  `RemoveCall` and `RemoveBroken` are mutually
recursive like `removeCall` and `removeConference`, and `RemoveBroken` walks over
a copy, as `foreach` does.  A conference that is removed and found again is a new
object; what still points to the old one points to `Stale`.  The daemon's
conferences are sequences of calls, its signals a queue, and the slots read the
conferences as they are when the signal is handled.  Two history variables remember, for
the properties only, which conferences were said to be detached (`detached`) and which
participants that cost their row (`lost`); every step updates them (`Recall`).

**`VideoRenderer`** (`lib/video/renderer.cpp`, `lib/video/manager.cpp`,
`widgets/videoglframe.cpp`).  Here one action is one access to what the threads
share: each lock, each test of the shared memory and each copy is a step of
the render thread (`pc`); the main thread's start, stop and delete are split at
`startStopMutex`.  A frame is its size, a shared memory a number that is not
used again.  An access outside the mapping sets `crashed`, which stops
everything.

**`Accounts`** (`lib/account.cpp`, `lib/accountmodel.cpp`, `conf/dlgaccounts.cpp`).
The list, the objects with their edit states, the dialog with its selected row
and its form, and the daemon with other clients and two queued signals.  A handler
of the edit table is looked up as the code does (`Handler`); the two states
nothing leads to (NEW, REMOVED) are left out.  `accountListChanged` is what every
change of the selection does: save the row that is left, give it back, load the
new one.  The rows are those of the list as it is by then, so a move or a
removal may leave another account than the form was filled from.
`undefined` marks the two places where `QVector` is used outside its range.

**`EditStates`, `AccountFields`, `AccountForm`** (`lib/account.cpp`, `lib/account.h`,
`conf/dlgaccounts.cpp`, `lib/credentialmodel.cpp`, the codec models,
`lib/keyexchangemodel.cpp`, `lib/tlsmethodmodel.cpp`, `lib/ringtonemodel.cpp`).
`Accounts` treats the details of an account as one value; here each of the fifty
is followed on its own, together with the credentials and the codecs.
`AccountFields` says for every kind of detail how the daemon's text is read, what
the widget shows of it, and what is written back, and for every detail whether
`loadAccount` shows it, `saveAccount` takes it and its widget is connected to
`changedAccountList`.  `AccountForm` chooses one detail at the start (`detail`) and
moves it between the daemon (`remote`), the object (`copy`, and `host` for the
second copy of the hostname) and the form, over the edit state machine of
`EditStates`, which `Accounts` uses as well.  `typed` and `astray` remember what the
user entered and what others changed; no guard reads `typed`.

**`Directory`** (`lib/phonedirectorymodel.cpp`, `lib/phonenumber.cpp`,
`lib/uri.cpp`).  An object is a number of the code, a part the private data that
merged objects share; `directory` is `m_hDirectory`, `top` the list of popular
numbers.  `GetNumber` is the whole of `getNumber(uri, contact, account)`: the
candidates, their completion and merging, the acceptable number, the new one.

**`RecentNumbers`, `History`** (`lib/lastusednumbermodel.cpp`,
`lib/historymodel.cpp`, `lib/historytimecategorymodel.cpp`,
`klib/minimalhistorybackend.cpp`).  `RecentNumbers` is the doubly linked list with
the statements of `addCall` in their order (`Unlinked`, then `Push`) and the rows
the view reads from it once.  `History` adds calls to categories, regroups them by another
role, lets a day end, writes records, and reads back a file that may have been
torn; it uses the list by its operations only.  What it keeps is the sequence `added` of
additions, each with the first addition of its call (`call`), because a busy or failed
call is added again whenever it is told another state (`FinishAgain`, `callmodel.cpp:965`);
`unsaved` holds the calls without a backend.  The key by date is cached when the call
starts or is read (`m_HistoryConst`), the key by name changes with a contact (`Named`,
external); `renamed` is a history variable, the numbers renamed since they were grouped.

**`Completion`, `Canvas`**.  `Completion` is the binary search of
`numbercompletionmodel.cpp` over maps that are described by how many keys are
smaller, equal and greater than the prefix; `Canvas` the state machine of hints
(`canvasobjectmanager.cpp`) with its table of events, the animation and the timer
of the tip, and the events `eventmanager.cpp` sends it.

**`Macro`, `CallView`** (`klib/macro.cpp`; `eventmanager.cpp`, `sflphoneview.cpp`,
`actioncollection.cpp`, `lib/useractionmodel.cpp`, `widgets/callviewtoolbar.cpp`,
`widgets/callviewoverlay.cpp`).  Calls follow the tables of `CallTables`; the view
has its selection, what menu and toolbar offered when they were last told, the
overlay and the call it was opened for.  The keys, the menu, the toolbar, the
overlay and a running macro act on the selected call as it is by now.

**`CurrentAccount`, `PresenceStatus`, `MainWindow`** (`lib/accountmodel.cpp`,
`sflphone.cpp`, `eventmanager.cpp`; `lib/presencestatusmodel.cpp`,
`conf/dlgpresence.cpp`, `implementation.cpp`).  `CurrentAccount` is the prior account,
the box of the status bar and the account of the call being dialled, under
registrations that come and go; where `setPriorAccount`, `currentAccount` and the
slots of the box call each other, the model takes what the recursion comes to
(`Chosen`, `Shown`).  Which accounts a signal reloads is left open: that is the edit
state machine of `Accounts`.  `PresenceStatus` is the table with its marks, the two
pointers into it, the page and what is stored; `dangling` is set where a handler
reads a freed status or a row that does not exist.  `MainWindow` puts both beside
`CallView`; they have no state in common, so that each behaviour exercises one of
the three (`scene`).

**`Contacts`, `Bookmarks`** (`lib/contactmodel.cpp`, `lib/contact.cpp`,
`lib/contactproxymodel.cpp`, `lib/itembackendmodel.cpp`, `klib/akonadibackend.cpp`,
`conf/dlgaddressbook.cpp`; `lib/abstractbookmarkmodel.cpp`,
`klib/bookmarkmodel.cpp`, `widgets/bookmarkdock.cpp`).  An object is a contact, a
part the private data a placeholder shares with the contact that replaced it.
Books answer a fetch once and then notify in order; a book that is switched off
goes on notifying if it was on.  A number is found by its URI and by the uid of its
contact, as in `fillDetails`: contacts of different uids that share a URI have a
number each (`FirstNumber`, `NumberOfUid`).  `gone` is a history variable, of
contacts the user has deleted and of all contacts listed under a uid whose deletion
was notified.  `Bookmarks` EXTENDS `Contacts`: numbers gain contacts, and the hash a
bookmark is stored under, URI and uid, changes with them; `doubled` is a history
variable, of the URIs the session begins with two bookmarks of.

**`Settings`, `MacroTree`, `VideoSettings`** (`conf/configurationdialog.cpp` and
six of its pages; `klib/macromodel.cpp`, `conf/dlgaccessibility.cpp`;
`widgets/videosettings.cpp`, `lib/video/*model.cpp`).  Pages are made when first
shown, filled, edited, saved by Apply and Ok.  `MacroTree` is the tree of macros
with the pointers each macro keeps; `VideoSettings` the four dependent boxes with
the models behind them.  `undefined` marks the use of a macro or category that is gone.

## 4. Runs

| Run | What it asks | States |
|---|---|---|
| `call` | every order of user actions, daemon events and clock ticks on one call, and the refinement of `CallLifeCycle` | 63 257 |
| `calltree` | three calls, two conferences that may be detached; late signals, drags and drops, local ends | 1 238 566 |
| `video` | start, stop, restart and delete against the render thread and the daemon; the main thread goes on | 1 435 673 |
| `accounts` | two accounts edited here and elsewhere, one of them created in the dialog | 370 270 |
| `accountform` | each detail of two accounts through the form and back, edited here and elsewhere | 3 568 594 |
| `directory` | every combination of short or long URI, account and contact, with calls counted | 303 868 |
| `history` | three calls, one of them added again, over a midnight, a new name, file and restart | 3 859 660 |
| `canvas` | hints and completions over two calls | 42 252 |
| `window` | keys, macro, menu, toolbar and overlay over two calls; the account calls go out by; presence | 126 466 |
| `contacts` | two books, two contacts, their placeholders and bookmarks | 3 235 494 |
| `settings` | the dialog with macros and cameras, restarts between | 2 107 210 |

What they show:

- `call`: the timer lives exactly while the call is in progress, and a call in
  communication has a start (`StampsFollowState`, of `TimerFollowsCall` and
  `TalkingHasStart`); what is shown can be reached by signals and what can be
  reached is not over (`ListedCallsAreLive`); a call is placed once (`PlacedOnce`); a call the daemon hangs
  up is in the history although it is removed first (`HungUpIsRecorded`); and
  `Call` implements the life cycle (`KeepsPromise`).
- `calltree`: no clean-up loses a live call that was not in a conference the daemon said is
  detached, and `index` and `parent` describe one tree
  up to conferences whose signals are late (`RowsAgree`, of `LiveIsShown` and
  `ParentsAgree`); whatever ended locally, a conference the
  client tracks has the daemon's live calls once the signals are handled, and if
  only the daemon changed states the whole tree is the daemon's, every call once, but for
  the conferences said to be detached and what that leaves behind (`ConferencesAgree`, of `TrackedConferencesAgree` and `SettledTreeAgrees`).
- `video`: the mapping does not change under the render thread (`MapStable`);
  a copy under the lock stays in the mapping and a stopped renderer maps nothing
  (`MappingAgrees`, of `LockedCopyFits` and `StoppedIsUnmapped`); the main thread always finishes
  starting or stopping (`MainGoesOn`).
- `accounts`: what nobody edits here is the daemon's once its signals are handled
  (`CopyAgrees`); no signal takes unsaved changes away (`SignalsKeepEdits`); unsaved
  changes are never held without an open dialog that offers to save them
  (`UnsavedIsOffered`).
- `accountform`: saving an account writes its whole form back, and a detail nobody
  touched is not changed by it (`ApplyKeepsRest`); what the user entered is what the
  daemon gets, whatever was selected, saved and reloaded in between (`TypedIsSaved`; a
  password only while its account is selected and MODIFIED);
  the two copies of the hostname agree (`HostnameAgrees`).  Excepted are values a
  widget cannot show (`CannotShow`: a number beyond its box, an interface that is
  gone, a link to a tone, inconsistent encryption settings, STUN for IAX) and, of
  what was entered, the details whose widgets are not connected unless something
  else of the account is edited too (`Expected`).
- `directory`: whoever asks twice for a number gets the same (`AsksAgain`); the list
  of popular numbers and the rank each number remembers agree, and no slot outside
  the list is used, while nothing was merged (`RanksAgree`).
- `history`: each time a call was added is one row of one category, which is the right
  one except by name for a number renamed since it was grouped (`CategoriesAgree`);
  a call is recorded once, however often it was added, and what is recorded is in the
  view (`RecordsAgree`); the linked list is in the order of use (`LinkedByUse`)
  and so are the rows (`RowsRecent`).
- `canvas`: tip, widget, animation and state agree (`StateAgrees`); the list offers
  what matches where the search is exact (`MatchesOffered`); the hint of an ended
  call goes away (`EndCallGoes`).
- `window`: the selection is a row (`SelectionInRows`); a macro that starts when
  none is running types from its beginning (`MacroStartsOver`); a button that was
  told of the call's state does not lead it into ERROR (`ButtonsApply`); the current
  account is in the list and the box follows every change of it (`AccountShown`); a
  call placed with Enter goes out by a registered account if there is one
  (`CallsGoOut`); of the presence states the one that is marked is the default, after
  moves and removals and after a restart (`DefaultAgrees`).
- `contacts`: the sorted tree has the listed contacts, active or not, each once, and
  knows their rows (`TreeAgrees`); a placeholder whose contact is loaded is that contact
  (`PlaceholderResolved`); contacts of an enabled book are active and the stored
  switches are those of the books (`SwitchesAgree`, of `EnabledIsActive` and
  `BackendsAsStored`); a stored bookmark has its row and a removed one does not come
  back (`BookmarksPersist`, of `SavedHasRow` and `RemovalForgets`), also when two
  contacts share the number.  `EnabledIsActive` excepts the contacts the user has
  deleted and those listed under a uid whose deletion some book notified;
  `BookmarksPersist` excepts the URIs with two bookmarks at the start.  Section 4 has
  what the code does to both.
- `settings`: an edit is offered for saving (`EditsAreOffered`); macros and categories
  agree (`MacrosAgree`) and the file gives them back (`FileReadsBack`); the size and
  rate boxes show what the models hold (`SizeAndRateShown`); looking at the page
  changes no stored setting (`LookingKeepsSettings`).

Every property has a mutant in `PROJECT.json`: a plausible fault of one
definition with which TLC refutes it.  The type invariants are stated in every
module (`TypeOK`) as the description of its state; those of `Call`, `Accounts`,
`VideoRenderer`, the canvas and the main window are proved.

### Disagreements between the code and its own words

One run ends in a counterexample, quoted in `PROJECT.json`: `CancelUndoes`, a removal
that was cancelled is carried out by the next save.

Others were met while modelling and have no run of their own.

*Call.*  A busy call the daemon resumes is in progress again, although `call.h`
says of FINISHED that there is no going back.  The table that `stateChanged`
asserts (`call.cpp:900`) forbids transitions the other table makes.  A call hung up
while it rings and then reported busy ends before it starts.  TRANSFER is said to
put a call "into or out of transfer mode" (`call.h:200`), yet leaving the mode also
carries out the transfer, and a call that has just begun to ring becomes an ERROR
by it.  A call cancelled without an answer is over with no stop stamp
(`call.cpp:1214`); one that was accepted and fails later counts as missed
(`call.cpp:1091`).  A transfer ends the call locally before the daemon answers, so
its history entry is lost (`callmodel.cpp:506`).

*Tree.*  A call that failed in a conference loses its row (`callmodel.cpp:1015`),
although failures are to be kept (`:956`).  ACTIVE_DETACHED, which the daemon's interface
explains as the user having left a conference that goes on
(`dbus/callmanager-introspec.xml:519`), is an ERROR here (`call.cpp:533`) and removes the
conference inside the slot that goes on with it (`callmodel.cpp:1007`): its participants
become children of a conference without a row and vanish, until an action of the user has
the conferences asked for; if it ends first, for good.  A call that had left it is listed
twice and may keep a row when it ends.  `removeCall` may remove a
conference twice, because it walks over a copy, and then lists its calls twice.  A call that moves between two
conferences may be listed in both, or point to neither, until the second signal is
handled: its parent is cleared (`:1016`, `:1060`) and set again without leaving the old
list, or not set when an orphan is adopted (`:1070`).

*Video.*  `lockShm` that loses `tryLock` keeps the semaphore (`renderer.cpp:138`); a
frame is copied without it when it cannot be taken again after a remap; a timeout
queued before the stop uses the memory after it.  After a restart, the generation
of the old memory is compared with the new one (`renderer.cpp:142`); two timeouts in
a row may overwrite the frame being painted (`renderer.cpp:183`).

*Accounts.*  Closing the dialog leaves the account EDITING; the next RELOAD makes it
OUTDATED and it is never reloaded.  The form is stale after Apply and after
OUTDATED turned MODIFIED.  Moving a row loses what was typed, and may write it into
the other account if that is MODIFIED.  Saving removes from the
daemon what other clients have just added.  `slotAccountChanged` inserts behind the
end and removes row -1 (`accountmodel.cpp:224`, `:236`).

*Account form.*  `saveCredential` (`dlgaccounts.cpp:886`) stores the edited credential of
the account that is left with the one that has just been selected, and sends it.
The credentials of any other account are never sent: `AccountPrivate::save` sends
them for new accounts only.  A password typed before another account was selected
is not sent with that one, and an Apply in the meantime makes its own account READY,
which forgets that it has changed.  Removing the first credential
while it is selected keeps its fields, which then overwrite the next one.
The fields of the first credential and the password field overrule each other.
The STUN server, the options of ZRTP and SDES, the box of the ring tone and its file
do not announce edits: they are lost when another account is selected.  Audio codecs
are not given back by Cancel, video codecs are read again at each selection.
An OUTDATED account that is edited is reloaded, but its form is not: Apply
overwrites what the other client did with what the form still shows.

*Directory.*  List and ranks are not told of merges.  Two numbers that are in the
list and turn out to be one share a rank, which every number that passes them raises
twice (`:608`): with three or more slots it leaves the list, and the next call of that
number reads, or writes, beyond its end (`:603`, `:607`).  With `TopSize = 4`,
`MaxNumbers = 4` and `MaxCalls = 8` the model gets there in twelve steps
(`OutOfRange`); `RanksAgree` claims nothing once numbers were merged.  `setAccount` appends a number
a second time to its own wrapper and does not register the longer URI
(`phonedirectorymodel.cpp:297`).  A number that enters the full list stays at its
end although it was called more than those before it (`:624`).

*History.*  `slotCallStateChanged` adds a FINISHED call at every state it is told
(`callmodel.cpp:965`) and `add` has no guard (`historymodel.cpp:281`): a busy or failed
call that is then hung up is listed twice, in two categories when the grouping or its
peer's name changed in between; its record is written once.  `parent()` looks for the category by
the name the peer has now and makes an empty one after it was renamed.  A torn record may
leave its contact and id to the next one.
Two calls of one second may collide in `m_sHistoryCalls`.  Clearing leaves memory; an
append that fails keeps the call in memory only, unless it is added again.  A call the
daemon still has over a restart is new to the client and may be recorded again.

*Canvas.*  `CALL_DIALING_CHANGED` that meets a visible hint shows the list in a nested
slot and then overwrites the current object with none.  UNREGISTERED_ACCOUNT takes
over from the list without hiding the widget.  A pending object is
overwritten by any event during an animation, whatever its priority.  CALL_ENDED while EndCall
shows hides it.  Another call's change hides the list while the model stays
enabled, and the list stays visible after the call left DIALING
(`eventmanager.cpp:560`).  Backspace does not tell the list.  Some events are never sent.
The search misses the last match when no key is greater than the prefix
(`test/autocompletion_test.cpp:80` avoids it), and may offer an entry that does
not match when two are greater; an empty map is undefined.

*Call view.*  The toolbar is not told of DIALING turning INITIALIZATION and goes on
offering ACCEPT (against `useractionmodel.h:31`): pressed again, it makes the placed
call a FAILURE locally.  The menu of INCOMING keeps Transfer, which leads into ERROR
(`sflphoneview.cpp:295`, `call.h:142`).  The menu is not refreshed by a change of
selection.  The overlay outlives its call and then transfers a dead one.  Typing while
another call is CURRENT repeats hold until the daemon answers.
A macro edited while it runs goes on in the middle of the new text.
A contact dropped on empty space is only dialled if its URI is empty
(`eventmanager.cpp:154`).

*Current account.*  A call taken with the Accept action keeps the account that was
current when it was opened, registered or not (`actioncollection.cpp:323`); Enter looks
again (`eventmanager.cpp:466`).  The box is not told of accounts that move or go: it
stays on its row, which may be another account's by then.

*Presence.*  The tip of the page says that message and presence go to "every accounts
that support it" (`dlgpresence.cpp:52`); `setCurrentIndex` publishes as often as there
are accounts, but always to the second one, and reads it even when there is one only
(`presencestatusmodel.cpp:330`).  Removing a row leaves the pointers
to its status, which is freed (`presencestatusmodel.cpp:221`); `DefaultAgrees` is about
the mark, the default and what is stored, and no property describes what is read
through a freed pointer: the model stops there (`dangling`).  `moveDown` lets the last
row pass and swaps it with what is behind the end (`:255`); removing or moving with no row selected reads row -1.  Adding and
removing a row do not mark the page.  The colour of a status is stored from the
message column, which has none (`implementation.cpp:320`).  An edit of the status in
use is not published.

*Contacts and bookmarks.*  Nested collections may be added again at each Apply.  A
contact in both the fetch and the notifications is listed twice; a change before
the fetch answers is lost; a contact without number is hidden and its later number
ignored; one added while its book is off is active; switching on again
resurrects removed contacts; a removal looks up the remote id, not the uid.  It looks
among the contacts of all books (`akonadibackend.cpp:501-505`): when two enabled books
have a contact of one uid, its removal in one turns off whichever was listed last, also
the other book's, which still has it; `EnabledIsActive` claims nothing of them.  The
numbers of a contact are replaced before "Rows need to be removed from models
first" (`contact.cpp:240`).  A bookmark is never unmarked, so a number
cannot be bookmarked again; removing one from "Most popular" leaves its
letter row; removed rows leave stale indexes.  Two contacts of different uids
that share a number have one object for it each, and both can be bookmarked.  The next
session reads both hashes before any contact is loaded, so both lead to the one number
of that URI, and the second `setUid` overwrites the first
(`abstractbookmarkmodel.cpp:352-357`): the number has two rows, both with the second
hash, and the first bookmark has none.  Removing both rows leaves the first hash saved
without a row until the list is read again.
`BookmarksPersist` claims nothing of these URIs (`doubled`).

*Settings.*  Apply writes the file before the display page sets its value: it is lost
unless the program ends properly (`main.cpp:82`).  The handler of "Keep history for
ever" is inverted (`historymodel.cpp:326`).  Cancel does not undo edits of macros,
camera and sound system.  Removing a macro never marks the page.  A removed macro
stays the current one of the form.  The sound system's enumeration value is
used as a row of the supported ones.  The first video channel can never be chosen
(`device.cpp:140`).

## 5. Bounds, environment and fairness

- `Call`: `MaxTime` 3 (a stamp before, at and after another), `MaxDigits` 2
  (empty, one, more than one: the code only asks whether a number is empty),
  `MaxEntries` 2 (an entry made once too often is seen).  The daemon may send
  any event to a call it knows, in any order; that covers lost, late and
  repeated signals.
- `CallTree`: three calls, the least for a conference that survives a leaving
  participant, and two conferences, the least for moves and merges.
  `MaxSignals` 2: an order sends up to three signals only if both calls leave a
  conference, which two conferences do not allow together with a third.
  `MaxLocal` 1: one change of state without the daemon, `attendedTransfer` (two
  calls) counting once.  `ConfStates` has attached and detached; HOLD is to the
  tree what attached is.  `MaxDetached` 1: one conference at most is said to be
  detached; two were checked once with the same result (2 256 465 states).  Two conferences that exchange calls need four of them, which is
  too many to check completely; random behaviours of four calls, three conferences,
  two local changes and up to six signals kept both invariants, and are why
  `ParentsAgree` excepts the conferences that are still to be changed.  Signals are in order, as D-Bus delivers them, and none is
  lost; a slot reads the daemon once, not between two questions.  Calls and
  conferences are symmetric: no definition chooses between them.  Numbers and
  contacts dropped on a call are a new call and a drop.
- `VideoRenderer`: `MaxShm` 2 gives one restart, `MaxGen` 2 a new frame while
  the last is drawn, `MaxSize` 2 a frame that grows.  One timeout at most is
  queued, as Qt coalesces them.  No renderer is created while the slot of a
  deleted one runs, and the daemon ends a frame before it makes a new memory.
- `Accounts`: one account of the daemon and one created here or elsewhere; three
  changes by others (one before, one while and one after an edit), one new account.
- `AccountForm`: two accounts, one to edit and one to select meanwhile; every detail;
  per kind one text for each way of reading it; two credentials, two codecs, one new
  password; others edit an account once until that is read.
- `Directory`: one user, two accounts of which one has no host, two contacts, a list
  of two, three objects (one more than the list holds), four calls.  Random behaviours with
  two users or three accounts and up to five objects kept `AsksAgain` as well.
- `History`: three symmetric numbers against two remembered rows, three calls and one
  repeated addition, so four uses: the fourth can move the middle of three nodes.  One
  second a day, where two calls may collide or not; one midnight, one new name; one
  call at a time that could not be recorded, any number of them checked once with the
  same result (5 512 170 states).  A call
  that is added again is one of this session that failed or was busy; any call
  may.  (A debug build stops at FAILURE told twice, `call.cpp:903`; a release build goes on.)
  Calls that start before midnight and end after it, and names the daemon
  gives a single call, are left out.
- `Completion`: maps of fewer than `FarKeys` (7170) keys, because the guess `iBeg + size`
  (`numbercompletionmodel.cpp:255-266`) of larger ones may step over the end of the map
  before the search is in its range.
- `Canvas`: the two extreme tables of calls; maps with 0, 1, 2, 5 and 9 keys of
  each kind reach every branch of the search (it goes on halving while more
  than seven remain); all shapes up to 12 were tried once with the same result.
- `CallView` in `MainWindow`: two calls; three were explored to depth ten (1.1 million states)
  without an error.  A macro types a digit and Enter, or Enter alone.
- `CurrentAccount`: two accounts besides IP2IP, the least for one that replaces
  another; three were checked once with the same result (437 736 states).
- `PresenceStatus`: the table grows to `MaxStatuses` 4 rows, the four of a new user;
  the other stored table has a default that is not its first row.  An account other
  than IP2IP exists.
- `Contacts`: two books, one of which puts the uid into the remote id, two contacts,
  three payloads of at most one number each, two sorting roles, three objects, three
  changes.  Two contacts of different uids can hold the same number.  The earlier
  session left one bookmark, or two of one URI and a third.  No number has an account:
  `Directory` has what accounts change, and numbers whose contact is a placeholder,
  which calls of the history with an account have (`call.cpp:404-411`), are left out.
- `Settings`: the history limit is one the page's box can hold, at most 10000 days
  (`dlggeneralbase.ui:83`): a larger one of the daemon would be clamped when the page
  is filled, which the model leaves out.  Eight edits between restarts (`MaxSteps`), three macros over four
  categories, two cameras whose sizes and rates are listed in different orders.
- CHECK_DEADLOCK is off where the bounds end the behaviour: the last second, the
  last frame, the last change.
- Fairness, of `video`: weak fairness of the render thread and of the main thread's
  own steps, because threads run; strong fairness of taking `startStopMutex`,
  because the timer fires every 30 ms and the mutex is free in between.  Neither
  the user nor the daemon is fair.  Of `canvas`: weak fairness of the end of an
  animation and of the timer's timeout, because the event loop runs.

## 6. What is proved

All theorems hold for every value of the bounds; the assumptions are those the
modules declare (`ASSUME ...Assumption`), which every run that uses the module
evaluates.

- `ListLemmas` has what the proofs about sequences share: what inserting, removing
  and flattening do to the elements of a list and to its being without repetitions,
  that a list without repetitions has as many elements as places, and that a fold is
  the value of its steps (`FoldExists`, `UpTo`), from which an induction over the
  entries goes through `Induction` on a set of numbers.  `WithoutEffect` is such an
  induction, about `removeAll` of `QtLists`, which `MacroTree` and `Contacts` share.
- `CallProofs`, on calls and, in a part of its own, on the form of an account
  (`AccountForm`): `Inv` is the conjunction of the invariants of `Call` and of `Origin`,
  which says where a call can come from: one that does not exist yet is neither
  tracked nor known to the daemon; one the daemon does not know is a plain call that
  is dialled, failed or over; a conference has a start; one the daemon knows is not
  DIALING and keeps no dialled number.  Without it the table lemmas could not
  exclude rows that no call reaches.  `ActionRows` and `EventRows` extract from the
  tables all the proof needs, so that no later step looks into a table.  From
  `Invariance` follow the invariants, and with the step lemmas the action properties.
  `Refinement` says that every behaviour of `Call` is one of `CallLifeCycle` under
  the mapping: three shapes of steps (`NewCall`, `CallGoesOn`, `NothingSeen`)
  separate what each action does from which abstract step it is.
  - *Account form.*  What Apply does to each of the details, for any number of accounts,
    any of the texts a kind of detail can have, and lists of credentials of any length:
    what was not touched is left as it was (`ApplyKeepsRestCorrect`) and what was entered
    is sent (`TypedIsSavedCorrect`), and the hostname is the same twice
    (`HostnameAgreesCorrect`).  Of the data the proof needs three facts for each kind
    (`ShownIsWritten`, `ShownAsMeant`, `EnteredIsShown`): what is shown of a text and
    written again means the same, what is entered is shown as it was.  `DetailInv` says
    of each account what the object holds as long as neither the user nor another client
    has touched it (`CopyAsRead`, `CopyUntouched`), the same of the form of the selected
    one (`FormUntouched`), and that what was typed is held by the form or the object and
    the edit state knows of it (`HoldsTyped`, `NoticesTyped`).  `CredentialInv` says it of
    the two places a password is shown in, the field and the row of the first credential,
    which overrule each other.  Two faults of the model came to light by the proof: with
    a third account, an Apply forgets a password that was typed before the selection
    moved, and `TypedIsSaved` now leaves that out (`Expected`); and two cases of
    `SavedCopy` overlapped.
- `DisplayProofs`, of what is shown:
  - *Video.*  `IInv` adds that the render thread holds the mutex exactly in its
    critical steps (`MutexHeld`), that no frame is seen before it is written and none
    written past the bound (`FramesBounded`), that a renderer being deleted has
    stopped (`DeletingIsStopped`), and that the remapping is done with the semaphore
    released (`RemapsUnlocked`).  Without the last, `LockedCopyFits` is not inductive.
  - *Hints.*  `StateAgreesCorrect`, from `Agreed`: between handlers the seven fields of
    the canvas agree.  An object waits only for a tip that is going out, and is neither
    that one nor the list; the timer runs for one object only.  `StateAgrees` alone does
    not say what waits.  What an event does depends on the table and the object that is
    there; `Enters`, `SkipIs` and `InTransitionAgrees` say it for all of them.
  - *Completions.*  `MatchesOfferedCorrect`: where the search is exact, the range it
    returns is that of the keys that match (`SearchHolds`, `RangeHolds`).  The search is
    a recursive function over its rounds; `Round` is the invariant of the loop: the
    bounds hold the first match, or what is greater, between them, and the size is what
    the rounds before have left of it (`Shrunk`), so that the next middle is an entry
    (`MiddleInMap`).  `SearchStaysInMap`: the loop ends and its middle is never behind
    the end of the map, whether or not the result is exact.
- `AccountsProofs`: the copy of an account nobody edits is the daemon's
  (`CopyCorrect`), unsaved changes are held by a dialog that offers to save them
  (`OfferCorrect`) and survive the daemon's signals (`EditsCorrect`), for all accounts
  and any number of changes.  The inductive invariant adds `NewIsLocal`: a new
  account is listed and unknown to the daemon.  That the list keeps each account once
  with the selection in it (`TypeCorrect`) takes an induction over the insertions of
  `slotAccountChanged`, which are a fold (`InsertedRows`).
  - *Popular numbers.*  `RanksCorrect`, of `Directory`, which accounts do not touch: the
    list and the ranks agree.  The invariant is a set, `Directories`, the union over the
    number of objects `n` of `Dir(n)`: what is stored is of its type, the list has at
    most `TopSize` entries, and as long as every object has its own part, nothing was
    read or written outside the list and it and the ranks are inverse of each other.
    That the list is sorted is not needed.  Every operation, each of which may call
    others many times, takes `Dir(n)` to itself, and a new number to `Dir(n + 1)`.  The
    loops over candidates are folds over lists of any length.
  - *Asking again.*  `AsksCorrect`, in every directory of `Directories`: it needs no
    other invariant, only what two questions in a row do.  Without a contact
    (`FoundWithout`) the first gives every number of the URI an account, also those it
    appends on the way (`AllAttached`), and the second has nothing left to fill in.
    With one (`FoundWith`), `PassIs` says what `fillDetails` leaves behind it, by
    induction over its rounds: the numbers it went over need nothing more, those it
    passed are not confirmed unless they are the one it stopped at, and a part that got
    the contact and is not of the account asked for is that one.  So the second question stops at the
    same number.  The cases are whether it was found by the first round
    (`FoundByFirst`), then under the longer URI (`FoundByLonger`), by its account under
    the shorter one (`FoundByAccount`, `JoinIs` for the merge), as one that nothing
    speaks against (`FoundByChance`), or not at all (`FoundNew`).
- `HistoryProofs`: the history uses the linked list by its operations only
  (`HistoryImplementsRecent`), the operations keep the order of use
  (`RecentCorrect`), hence the history does (`HistoryKeepsOrder`).  The invariant
  says that `prev` is the inverse of `next` and that the head is the last used.
  - *Rows.*  `RowsCorrect` and `HistoryShowsRecent`: what a view reads is the chain
    from the head, whenever it was read before.  `Following` is a recursive function,
    whose existence is proved first.
  - *View and file.*  `HistoryInv` relates the entries, the rows, the last categories
    and the records: `ViewInv` keeps each addition in one row of one category, under the key
    it has unless its number was renamed; `FileInv` keeps the records of different calls
    and in memory, or a twin of the same second.  It is inductive because a call without
    a backend has no record (`RecordsInv`), so adding it again may write one.  From it
    `CategoriesCorrect` and `RecordsCorrect`.
    Regrouping is a fold over the calls in the order of time, which exists because a
    finite set can be ordered (`OrderExists`); loading is an induction over the steps.
- `MainWindowProofs`: `Parts` splits the window into the boxes, the view with its
  macro, and the presence states, each of which it runs unchanged.
  - *Accounts.*  The box shows the current account (`ShownCorrect`) and calls go out
    by a registered one (`CallsCorrect`), for every finite set of accounts and lists
    of any length.  `AccountInv` says that rows are distinct, that IP2IP and the
    current account have one, and that a status that differs from the daemon's has a
    signal on its way (`StatusAgrees`); without the last, an account that looks
    registered may not be.  `IndexFinds` and `FirstIsUsable` say what the searches
    for a row find, `CurrentSettles` and `PriorSettles` what the slots that call each
    other come to.
  - *Calls.*  A call is selected while there are calls (`SelectionCorrect`), and what
    the toolbar offers applies to it (`ButtonsCorrect`) although most changes of its
    state are not announced.  `GoodView` relates the offer to what applies in the
    state of the selected call, and `ActionFollows` reads off the table that an action
    which is not announced leaves applicable what was.
  - *Macro.*  `MacroCorrect` is inductive with its types: the chain that finds the end
    of the text sets the position back, whichever of the overlapping ones it is.
  - *Presence.*  `DefaultCorrect`, from `Marked`: the mark is on the row of the default
    and on no other, or the default was freed.  `StoredAssumption` says what a stored
    list can be: one this program wrote.
- `SettingsProofs`, for any number of values, cameras, lists
  of sizes and rates, macros and names:
  - *Pages.*  `OfferedCorrect`: the boxes are never being loaded while the user edits,
    so no edit goes unnoticed (`DialogInv`); a box that differs from what is in effect
    comes with the offer to apply it.
  - *Video.*  `BoxesCorrect` and `LookingCorrect`, from `VideoInv`: what a camera
    remembers of its channels, sizes and rates leads to what the daemon has stored
    (`Consistent`), and the boxes show it.  The slots call each other while a box is
    filled, so each has a lemma from the innermost out (`RatesShown`, `SizesShown`,
    `ChannelsShown`).  `VideoAssumption` says that every level offers an entry, which
    `Device::save` relies on, and that the first settings name entries of the camera.
  - *Macros.*  `MacrosCorrect` and `FileCorrect`, from `MacroInv`: the tree is `Neat`.
    That every category has a macro pointing to it, listed or removed, is what
    guarantees a free one for the next name; that the macro in the form points to a
    category that is still there is why no removed macro is edited into a deleted
    category.  `ReadEffect` is an induction over the lines of the file, for lines in
    any order: reading creates and renames categories as it goes (`ChangedEffect`),
    and the groups only depend on the listed macros and their names (`GroupsOfNames`).

- `ContactsProofs`, for any books, uids, payloads and sorting roles, of the contacts
  beside the bookmarks (`Bookmarks!Spec`), who create numbers and placeholders too:
  - *Tree.*  `TreeCorrect`: each listed contact has one node.  Inserting is an effect
    on one category (`InsertedEffect`), and sorting again is an induction over the
    list (`ReloadedTree`).
  - *Placeholders.*  `PlaceholdersCorrect`, from `Sound`: a contact of a book keeps its
    own part, each part knows exactly the objects that show it, and an object that
    belongs to no book either waits under its uid, where no contact is listed yet,
    or shows the part of a contact of that uid.  `ItemAddedEffect` puts together what
    a new object, its payload, its place in the list, the merge and the tree each do.
  - *Switches.*  `SwitchesCorrect`.  That the contacts of an enabled book are active
    rests on `Loaded`: a book that is on for the first time has no contacts, for it
    was never followed, so `load` need not activate any.  That what is stored is what
    is on rests on `PageOk`: check marks differ from the stored ones only in rows, and
    a book that appears later has none, so Apply, which stores all marks but saves
    only rows, loses nothing.  `AppliedEffect` is the induction over the rows.
  - *Bookmarks.*  `BookmarksCorrect`, for any lists an earlier session may leave.  It
    rests on the numbers: two numbers of one URI have contacts, of different uids, and
    each contact is of a uid that is found (`NumbersOk`); every step of the contacts
    keeps that, and a number that has a contact keeps the uid (`ContactsEvolve`).  Of
    the bookmarks the invariant says that two hashes of one URI would not lead to one
    number (`Apart`), that the number a hash would lead to is marked or has the contact
    the hash names (`Claimed`), and that a number in a row has the hash it was read by
    and no other would lead to it (`RowsOk`); each with the exception of `doubled`.
    That a hash keeps leading where it did while contacts come is `WouldWas`.
    `NumbersLead` is the induction over the saved hashes, `AllListed` the one over the
    numbers that get a row, and `NewBookmark` says why the hash of a number that is not
    marked yet is apart from the others.

Only model-checked: liveness (`MainGoesOn`, `EndCallGoes`), which is out of the
prover's reach; `CallTree` (`ConferencesAgree`, `RowsAgree`), whose removals are
mutually recursive operators; and the counterexample.

## 7. Not modelled

The components marked `not_modelled` in `PROJECT.json`, with the reason for each.
Inside the modelled ones: DTMF, instant messages and recording playback of a call;
the text of history entries and their legacy format; the frame rate and OpenGL; the
visual drop state of rows; the conversion of an address to a contact, nested
collections, the announcements of single rows; the weights of completions; the
plugging of cameras; turning auto-completion off while its list is shown; the
publishing of presence and its custom message.  The daemon and Qt
are modelled only as the environment the client sees; how Qt moves a selection when
a row goes is external.

Most of the source that no definition stands for keeps no state of its own: the
`data` and `roleNames` functions of the item models, declarations and getters, the
delegates and docks that paint and lay out, and the proxies generated for D-Bus.

What could come next, by what is left to gain: the account wizard, which creates an
account from pages that may be gone back to; the instant messages of a call; the
list of security flaws (`securityvalidationmodel.cpp`), a pure function of an
account's details; proofs about the tree of calls, once the removal of a call is
written as a fold.
