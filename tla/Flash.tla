-------------------------------- MODULE Flash --------------------------------
(***************************************************************************)
(* Putting an image on a board (tools/flash.py, host/measure.py flash()).  *)
(*                                                                         *)
(* The touch erases: it goes to the board's programming port, which the    *)
(* 16U2 serves whatever state the board is in.  The board then comes back  *)
(* as a ROM bootloader, a node on the bus that nothing ties to it, and the *)
(* tool has to decide which bootloader is the one it brought up.  bossac   *)
(* writes through that node or through the programming port.  The touch    *)
(* leaves the port stored at 1200 baud until it is set back, which can     *)
(* fail; the next opening is then a touch of its own on some hosts.        *)
(*                                                                         *)
(* The image is checked against what git says of the work tree, which git  *)
(* may fail to say.  The row in the flash log is made from the file and    *)
(* from git once more, when the board has booted; it may also be lost.     *)
(*                                                                         *)
(* A board states the commit it was built from, and provenance.firmware()  *)
(* looks for the newest row of the log that names it.                      *)
(*                                                                         *)
(* Left out: --samba, --close-at-1200, --no-boot-check and --stale-ok,     *)
(* with which an operator takes a decision over; images outside any work   *)
(* tree; bossac living on after the tool was killed.                       *)
(***************************************************************************)
EXTENDS Integers, Sequences, FiniteSets

CONSTANTS
  Names,       \* names the system gives to native USB nodes
  NoName,
  Revs,        \* commits
  Refires,     \* does opening a port stored at 1200 baud touch it again?
  Retries,     \* --retries
  MaxMishaps,  \* bound: touches missed, nodes late, writes failed, kills,
               \* speeds not restored, git or the log failing
  MaxEdits,    \* bound: edits, commits and builds
  MaxRows      \* bound: flashes that succeed

ASSUME FlashAssumption ==
  /\ Refires \in BOOLEAN
  /\ {Retries, MaxMishaps, MaxEdits, MaxRows} \subseteq Nat
  /\ NoName \notin Names
  /\ \E m, n \in Names : m # n
  /\ Revs # {} /\ Revs \cap {"erased", "other", "nothing", "unknown"} = {}

Ours   == "ours"
Theirs == "theirs"
Boards == {Ours, Theirs}
Stamps == [rev : Revs, delta : {"clean", "dirty"}]
NoStamp(why) == [rev |-> why, delta |-> "clean"]
Erased == NoStamp("erased")
Other  == NoStamp("other")             \* a program of another day
Nothing == NoStamp("nothing")
Unchecked == [image |-> Nothing, tree |-> Nothing]

VARIABLES
  cpu, flash, node,   \* per board: what runs, what is in flash, its node
  speed,              \* the stored line speed of our programming port
  asks, requireTree,  \* --port given or not, --require-tree
  tree, image,        \* the work tree, the file to flash
  step, attempt,      \* where the tool is
  before, usbBefore,  \* nodes seen before the touch
  seen, second,       \* _await_samba: last sighting; after the second touch?
  console, target,    \* programming port in use; the bootloader chosen
  rc, booted, status,
  log,                \* the flash log
  mishaps, edits,
  \* what happened, for the properties
  written,            \* what bossac last wrote in this run
  missed,             \* a touch did nothing, or its node came late
  checked,            \* the image and the tree that this run has checked
  unrestored,         \* this attempt left the port at 1200 after its touch
  logged              \* the last success has its row

dueVars == << cpu, flash, node, speed >>
asked     == << asks, requireTree >>
treeVars   == << tree, image, edits >>
awaitVars == << before, usbBefore, seen, second >>
toolVars  == << attempt, awaitVars, console, target, rc, booted >>
history   == << written, missed, checked, unrestored, logged >>
flashVars == << dueVars, asked, treeVars, toolVars, step, status, log, mishaps,
           history >>

Present     == {b \in Boards : cpu[b] # "absent"}
Nodes       == {node[b] : b \in Boards} \ {NoName}
SambaNodes  == {node[b] : b \in {x \in Boards : cpu[x] = "rom"}}
Mishap       == mishaps < MaxMishaps /\ mishaps' = mishaps + 1
NoFault     == UNCHANGED mishaps

----------------------------------------------------------------------------
(* The board *)

\* Reset: the node goes; what comes back is decided at enumeration.
Reset(b) ==
  /\ cpu' = [cpu EXCEPT ![b] = "resetting"]
  /\ node' = [node EXCEPT ![b] = NoName]

\* Erased flash starts the ROM monitor; a program may start, or not.
Enumerate(b) ==
  /\ cpu[b] = "resetting"
  /\ \/ cpu' = [cpu EXCEPT ![b] = "running"] /\ flash[b] # Erased /\ NoFault
     \/ cpu' = [cpu EXCEPT ![b] = "rom"]
        /\ IF flash[b] = Erased THEN NoFault ELSE Mishap
  /\ \E n \in Names \ Nodes : node' = [node EXCEPT ![b] = n]
  /\ UNCHANGED << flash, speed, asked, treeVars, toolVars, step, status, log,
                  history >>

\* The bootloader's node goes and comes back, perhaps under another name.
Drops ==
  /\ step # "idle" /\ cpu[Ours] = "rom"
  /\ Mishap /\ Reset(Ours)
  /\ UNCHANGED << flash, speed, asked, treeVars, toolVars, step, status, log,
                  history >>

----------------------------------------------------------------------------
(* The developer: edits of firmware sources or of anything else, commits,  *)
(* builds in the container or on the host                                  *)

Works == /\ edits < MaxEdits /\ edits' = edits + 1
         /\ UNCHANGED << dueVars, asked, toolVars, step, status, log, mishaps, history >>

Edit == /\ Works
        /\ tree' = [tree EXCEPT !.delta = "dirty"]
        /\ \E s \in {image.stale, TRUE} : image' = [image EXCEPT !.stale = s]

Commit == /\ Works
          /\ \E r \in Revs : tree' = [rev |-> r, delta |-> "clean"]
          /\ UNCHANGED image

Build == /\ Works /\ UNCHANGED tree
         /\ \E c \in BOOLEAN :
              image' = [stamp |-> tree, container |-> c, stale |-> FALSE]

----------------------------------------------------------------------------
(* main: the checks and the attempts *)

\* A git call that fails or times out leaves no commit, or a tree that looks clean.
Misread == [rev : {tree.rev, "unknown"}, delta : {tree.delta, "clean"}] \ {tree}

\* One commit, and the image and the tree disagree about what was changed.
StampDisagrees(t) == image.stamp.rev = t.rev /\ image.stamp # t

\* What the checks refuse, when git states the tree t.
RefusedAt(t) == \/ ~image.container
                \/ image.stale
                \/ StampDisagrees(t)
                \/ requireTree /\ image.stamp # t
Refused == RefusedAt(tree)

\* An operator, or measure.flash(), tries again unless the image was refused.
Run ==
  /\ step = "idle" /\ Len(log) < MaxRows
  /\ UNCHANGED attempt
  /\ \E t \in {tree} \cup Misread :
       /\ IF t = tree THEN NoFault ELSE Mishap
       /\ IF RefusedAt(t) THEN step' = "idle" /\ status' = "refused"
          ELSE step' = "start" /\ status' = "running"
       /\ checked' = IF RefusedAt(t) THEN Unchecked
                     ELSE [image |-> image.stamp, tree |-> t]
  /\ written' = Nothing /\ logged' = FALSE
  /\ UNCHANGED << dueVars, asked, treeVars, awaitVars, console, target, rc,
                  booted, log, missed, unrestored >>

\* The variables of a function end with it.
AwaitOver   == before' = {} /\ usbBefore' = {} /\ seen' = NoName /\ second' = FALSE
AttemptOver == /\ AwaitOver
               /\ console' = FALSE /\ target' = NoName /\ rc' = 1 /\ booted' = FALSE
RunOver     == AttemptOver /\ attempt' = 0 /\ checked' = Unchecked

Exit == step' = "idle" /\ status' = "failed" /\ RunOver

\* The tool is killed between two steps, or ended by open_port, which gives up
\* on a port another process holds.
Killed ==
  /\ step # "idle" /\ Mishap
  /\ step' = "idle" /\ status' = "killed" /\ RunOver
  /\ UNCHANGED << dueVars, asked, treeVars, log, written, missed, unrestored, logged >>

----------------------------------------------------------------------------
(* _flash_attempt: which bootloader is ours *)

\* A bootloader that is up already is adopted only if no port was named.
Adopts ==
  /\ SambaNodes # {} /\ asks = "nothing"
  /\ IF Cardinality(SambaNodes) > 1 THEN Exit
     ELSE /\ target' \in SambaNodes
          /\ step' = "write"
          /\ UNCHANGED << awaitVars, attempt, console, rc, booted, status, checked >>

\* find_console: a named port is taken as it is, else one board must be there.
FindsConsole ==
  /\ SambaNodes = {} \/ asks = "port"
  /\ IF asks = "nothing" /\ Present # {Ours} THEN Exit
     ELSE /\ before' = SambaNodes /\ usbBefore' = Nodes
          /\ console' = TRUE
          /\ step' = "touch"
          /\ UNCHANGED << attempt, seen, second, target, rc, booted, status, checked >>

FindPort ==
  /\ step = "start"
  /\ Adopts \/ FindsConsole
  /\ unrestored' = FALSE
  /\ UNCHANGED << dueVars, asked, treeVars, log, mishaps, written, missed, logged >>

Erases == flash' = [flash EXCEPT ![Ours] = Erased] /\ Reset(Ours)

\* Opening the port while it is stored at 1200, on a host where that is a touch.
Refiring == Refires /\ speed = "1200"
Opens    == IF Refiring THEN Erases ELSE UNCHANGED << cpu, flash, node >>

\* The port is opened at 1200 and DTR dropped, which the 16U2 may not notice.
Touch ==
  /\ step = "touch" /\ step' = "closing"
  /\ \/ Erases /\ NoFault /\ UNCHANGED missed
     \/ /\ ~Refiring /\ Mishap /\ missed' = TRUE
        /\ UNCHANGED << cpu, flash, node >>
  /\ speed' = "1200"
  /\ UNCHANGED << asked, treeVars, toolVars, status, log, written, checked,
                  unrestored, logged >>

\* touch_1200 leaves 115200 behind through the handle that is still open; a
\* failure to do so is passed over.
Fault_SpeedAfter == "1200"
SpeedAfter == "115200"

Closes ==
  /\ step = "closing" /\ step' = "await"
  /\ \/ speed' = SpeedAfter /\ NoFault /\ unrestored' = FALSE
     \/ UNCHANGED speed /\ Mishap /\ unrestored' = TRUE
  /\ UNCHANGED << cpu, flash, node, asked, treeVars, toolVars, status, log, written,
                  missed, checked, logged >>

\* An opening at 115200, which may fail with a warning.
restore_115200 ==
  \/ NoFault /\ Opens /\ speed' = "115200"
  \/ Mishap /\ (Opens \/ UNCHANGED << cpu, flash, node >>) /\ UNCHANGED speed

\* Only a node that was not there before the touch can be ours.
Fault_NewNodes == SambaNodes
NewNodes == SambaNodes \ before

\* _await_samba: the same new node on two polls.
AwaitPolls ==
  /\ step = "await" /\ Cardinality(NewNodes) <= 1
  /\ \/ /\ seen \in NewNodes
        /\ target' = seen /\ step' = "write" /\ AwaitOver
     \/ /\ seen \notin NewNodes
        /\ seen' \in (IF NewNodes = {} THEN {NoName} ELSE NewNodes)
        /\ UNCHANGED << target, step, before, usbBefore, second >>
  /\ UNCHANGED << dueVars, asked, treeVars, attempt, console, rc, booted,
                  status, log, mishaps, history >>

AwaitRefuses ==
  /\ step = "await" /\ Cardinality(NewNodes) > 1
  /\ Exit
  /\ UNCHANGED << dueVars, asked, treeVars, log, mishaps, written, missed, unrestored,
                  logged >>

NothingMoved == ~second /\ Nodes = usbBefore /\ before = {}

\* No new node in time.  A lone bootloader that was there before is adopted.
Adopted == IF Cardinality(SambaNodes) = 1 THEN target' \in SambaNodes
           ELSE target' = NoName

AwaitGivesUp ==
  /\ step = "await"
  /\ \/ NewNodes = {} /\ cpu[Ours] # "resetting" /\ NoFault /\ UNCHANGED missed
     \/ (NewNodes # {} \/ cpu[Ours] = "resetting") /\ Mishap /\ missed' = TRUE
  /\ IF NothingMoved THEN step' = "second" /\ UNCHANGED << target, awaitVars >>
     ELSE step' = "write" /\ Adopted /\ AwaitOver
  /\ UNCHANGED << dueVars, asked, treeVars, attempt, console, rc, booted,
                  status, log, written, checked, unrestored, logged >>

\* The touch that closes at 1200.
TouchAgain ==
  /\ step = "second" /\ step' = "clearing"
  /\ second' = TRUE /\ seen' = NoName
  /\ \/ Erases /\ NoFault
     \/ ~Refiring /\ Mishap /\ UNCHANGED << cpu, flash, node >>
  /\ speed' = "1200"
  /\ UNCHANGED << asked, treeVars, attempt, before, usbBefore, console, target,
                  rc, booted, status, log, history >>

\* The reopening that clears it, which some hosts take for another touch.
ClearSpeed ==
  /\ step = "clearing" /\ step' = "await"
  /\ restore_115200 /\ unrestored' = (speed' = "1200")
  /\ UNCHANGED << asked, treeVars, toolVars, status, log, written, missed, checked,
                  logged >>

----------------------------------------------------------------------------
(* _flash_attempt: bossac through every route, and the verdict *)

Fails == IF step = "write" /\ console /\ target # NoName
         THEN step' = "writeconsole" /\ UNCHANGED rc
         ELSE step' = "restore" /\ rc' = 1

\* The native node first, if one was chosen; the programming port is ours.
\* (The fault: a test for the port as a path, which fails where ports are none.)
ThroughPort == ~(step = "write" /\ target # NoName)
Fault_WritesTo == {}
WritesTo == IF ThroughPort THEN {Ours} ELSE {b \in Boards : node[b] = target}

\* A port stored at 1200 that bossac opens puts the board into its bootloader.
Touching == ThroughPort /\ Refiring

Written(b) ==
  /\ cpu[b] = "rom" \/ Touching
  /\ flash' = [flash EXCEPT ![b] = image.stamp]
  /\ written' = image.stamp
  /\ Reset(b)
  /\ step' = "boot" /\ rc' = 0 /\ NoFault

NotWritten(b) ==
  /\ IF Touching THEN Erases /\ NoFault
     ELSE /\ IF cpu[b] = "rom" THEN Mishap ELSE NoFault
          /\ flash' \in {flash, [flash EXCEPT ![b] = IF cpu[b] = "rom" THEN Erased ELSE @]}
          /\ UNCHANGED << cpu, node >>
  /\ UNCHANGED written
  /\ Fails

GoneFromTheBus ==
  /\ WritesTo = {}
  /\ UNCHANGED << cpu, flash, node, written >> /\ NoFault
  /\ Fails

Bossac ==
  /\ step \in {"write", "writeconsole"}
  /\ GoneFromTheBus \/ \E b \in WritesTo : Written(b) \/ NotWritten(b)
  /\ speed' \in IF ThroughPort THEN {speed, "115200"} ELSE {speed}
  /\ UNCHANGED << asked, treeVars, attempt, awaitVars, console, target,
                  booted, status, log, missed, checked, unrestored, logged >>

\* wait_for_boot watches the node it chose, if it chose one; an empty bus is
\* taken for a board that started, also in the middle of its reset.
WaitForBoot ==
  /\ step = "boot" /\ step' = "restore"
  /\ \/ (target = NoName \/ SambaNodes = {}) /\ booted' = TRUE
     \/ target # NoName /\ SambaNodes # {} /\ booted' = FALSE
  /\ UNCHANGED << dueVars, asked, treeVars, attempt, awaitVars, console,
                  target, rc, status, log, mishaps, history >>

\* At 1200 this opening is one more touch, of a board that was just flashed.
RestoreSpeed ==
  /\ step = "restore" /\ step' = "over"
  /\ IF console THEN restore_115200 ELSE UNCHANGED << dueVars, mishaps >>
  /\ UNCHANGED << asked, treeVars, toolVars, status, log, history >>

Retry == attempt < Retries

\* _log_flash: the file as it is now, and the tree t that git states.  Beside it,
\* for the properties: is the row what this run has checked and written?
LogRow(t) == [image |-> image.stamp, tree |-> t,
              sound |-> /\ checked = [image |-> image.stamp, tree |-> tree]
                        /\ written = image.stamp /\ t = tree]

\* Whatever goes wrong in _log_flash is swallowed.
Logs == \/ NoFault /\ log' = Append(log, LogRow(tree)) /\ logged' = TRUE
        \/ /\ Mishap /\ logged' = TRUE
           /\ \E t \in Misread : log' = Append(log, LogRow(t))
        \/ Mishap /\ UNCHANGED << log, logged >>

\* The attempt is over: logged, repeated, or given up.
AttemptEnds ==
  /\ step = "over"
  /\ IF rc = 0 /\ booted THEN Logs /\ RunOver /\ step' = "idle" /\ status' = "ok"
     ELSE /\ UNCHANGED << log, logged, mishaps >>
          /\ IF Retry
             THEN /\ AttemptOver /\ step' = "start" /\ attempt' = attempt + 1
                  /\ UNCHANGED << status, checked >>
             ELSE Exit
  /\ UNCHANGED << dueVars, asked, treeVars, written, missed, unrestored >>

----------------------------------------------------------------------------
FlashInit ==
  /\ \E o \in {"running", "rom"}, t \in {"absent", "running", "rom"} :
       cpu = [b \in Boards |-> IF b = Ours THEN o ELSE t]
  /\ flash \in [Boards -> {Erased, Other}]
  /\ \A b \in Boards : cpu[b] = "running" => flash[b] = Other
  /\ cpu[Theirs] = "rom" <=> flash[Theirs] = Erased
  /\ node = CHOOSE f \in [Boards -> Names \cup {NoName}] :
                /\ f[Ours] # NoName /\ f[Ours] # f[Theirs]
                /\ (f[Theirs] = NoName) <=> (cpu[Theirs] = "absent")
  /\ speed = "115200"
  /\ asks \in {"nothing", "port"} /\ requireTree \in BOOLEAN
  /\ tree = [rev |-> CHOOSE r \in Revs : TRUE, delta |-> "clean"]
  /\ image = [stamp |-> tree, container |-> TRUE, stale |-> FALSE]
  /\ step = "idle" /\ status = "new" /\ attempt = 0
  /\ before = {} /\ usbBefore = {} /\ seen = NoName /\ second = FALSE
  /\ console = FALSE /\ target = NoName /\ rc = 1 /\ booted = FALSE
  /\ log = << >> /\ mishaps = 0 /\ edits = 0
  /\ written = Nothing /\ missed = FALSE /\ checked = Unchecked
  /\ unrestored = FALSE /\ logged = FALSE

Tool == \/ Run \/ FindPort \/ Touch \/ Closes \/ AwaitPolls \/ AwaitRefuses
        \/ AwaitGivesUp \/ TouchAgain \/ ClearSpeed \/ Bossac \/ WaitForBoot
        \/ RestoreSpeed \/ AttemptEnds

FlashNext == Tool \/ Killed \/ Drops \/ (\E b \in Boards : Enumerate(b))
        \/ Edit \/ Commit \/ Build

FlashSpec == FlashInit /\ [][FlashNext]_flashVars

\* The tool runs, a board that was reset comes back on the bus, and an
\* operator does not give up on a board that was not flashed.
FairSpec == /\ FlashSpec /\ WF_flashVars(Tool)
            /\ \A b \in Boards : WF_flashVars(Enumerate(b))

----------------------------------------------------------------------------
(* Properties *)

\* A run that reports success has put on a board the image it was given, and
\* nothing the tool does afterwards takes it off again.  The last thing it does is
\* to open the port, which an earlier run may have left at 1200 baud and every touch
\* leaves there for a while: only if this attempt could not set it back, which
\* is passed over, may that opening erase what was written.
SuccessIsWritten ==
  status = "ok" /\ ~unrestored =>
    \E b \in Boards : flash[b] = written /\ written # Nothing

\* Another board is written only if no port was named, or after a touch of ours
\* that did not bring its bootloader up in time: of two bootloaders the tool
\* never takes the one that was there before for the one it brought up.
OthersSpared ==
  [][flash'[Theirs] # flash[Theirs] => asks = "nothing" \/ missed]_flashVars

\* firmware(): the newest row that names the commit and the changes.
Fault_SameImage(row, stamp) == row.tree.rev = stamp.rev
SameImage(row, stamp) == row.tree = stamp
Firmware(stamp) == {i \in 1 .. Len(log) :
                     /\ SameImage(log[i], stamp)
                     /\ \A j \in i + 1 .. Len(log) : ~SameImage(log[j], stamp)}

\* What provenance says of our board is true.  If every flash insists on the tree
\* (--require-tree, as measure.flash() does) the row found for the commit a board
\* states names the bytes it runs, also after runs that wrote and were cut off, and
\* whatever rows were lost or hide others; and a flash that was reported and
\* logged, and wrote the tree's own commit, is found.  The rows this is claimed of
\* are those whose file and tree are still the ones checked and written when the
\* row is made, and for which git has answered, at the check and at the row.
AttributionIsTrue ==
  /\ requireTree =>
       \A i \in Firmware(flash[Ours]) : log[i].sound => log[i].image = flash[Ours]
  /\ status = "ok" /\ logged =>
       LET last == log[Len(log)]
       IN last.sound /\ (requireTree \/ last.tree.rev = written.rev)
            => \E i \in Firmware(written) : log[i].image = written

\* _log_flash calls itself the one place that knows the binary and the tree at the
\* same moment, which cannot disagree with itself.  It looks at both some seconds
\* after it has written, and the row may name another file than the one written.
LogNamesWhatWasFlashed ==
  status = "ok" /\ logged => log[Len(log)].image = written

\* However a flash ended (touch missed, node late, bossac failed before or after
\* the erase, tool killed), running the tool again gets the board flashed and
\* says so, unless the image is refused.  The operator names its port or it is
\* the only one, and no other board sits in its bootloader.
Recovers ==
  cpu[Theirs] = "absent" \/ (asks = "port" /\ cpu[Theirs] = "running")
    => <>(status = "ok") \/ []<>Refused
==============================================================================
