--------------------------- MODULE ConfigWatcher ----------------------------
(***************************************************************************)
(* internal/config/watcher.go and loader.go: the watcher polls the file    *)
(* and answers SIGHUP; somebody edits the file meanwhile.  The gateway is  *)
(* built from the configuration of startup (cmd/gateway/main.go).          *)
(***************************************************************************)
EXTENDS Integers

CONSTANTS
    Valid, Invalid,     \* contents that Load accepts, and refuses
    MaxEdits            \* bound on changes of the file

Gone == "gone"              \* no file: Load returns the defaults
Torn == "torn"              \* a half written file, which does not parse
Defaults == "defaults"
Contents == Valid \cup Invalid \cup {Gone, Torn}

VARIABLES
    hups,               \* somebody sends SIGHUP
    file, mtime,        \* contents and modification time
    lastMod,            \* the watcher's
    current,            \* Watcher.current
    running,            \* the configuration the gateway serves with
    at,                 \* "start", "wait", or "reload" between os.Stat and Load
    quiet,              \* the debounce second since the last reload is over
    due                 \* the next poll is due (5 s, longer than the debounce)

vars == <<hups, file, mtime, lastMod, current, running, at, quiet, due>>
watcher == <<lastMod, current, at, quiet, due>>

TypeOK ==
    /\ hups \in BOOLEAN /\ file \in Contents /\ mtime \in 0..MaxEdits
    /\ lastMod \in 0..mtime
    /\ {current, running} \subseteq Valid \cup {Defaults}
    /\ at \in {"start", "wait", "reload"} /\ {quiet, due} \subseteq BOOLEAN

\* main loads the file and starts the watcher with it.
Init ==
    /\ hups \in BOOLEAN /\ file \in Valid /\ mtime = 0
    /\ lastMod = 0 /\ current = file /\ running = file
    /\ at = "start" /\ quiet = TRUE /\ due = FALSE

\* The file is rewritten in place, replaced, or removed; each leaves a newer file.
Edit ==
    /\ mtime < MaxEdits /\ mtime' = mtime + 1
    /\ file' \in Contents \ {file}
    /\ UNCHANGED <<hups, watcher, running>>

\* The watcher's goroutine looks at the file for the first time.
Start ==
    /\ at = "start" /\ at' = "wait"
    /\ lastMod' = IF file = Gone THEN 0 ELSE mtime
    /\ UNCHANGED <<hups, file, mtime, current, running, quiet, due>>

\* A load takes far less than a second.
Second ==
    /\ at = "wait"
    /\ quiet' = TRUE /\ due' = TRUE
    /\ ~quiet \/ ~due
    /\ UNCHANGED <<hups, file, mtime, lastMod, current, running, at>>

\* (variant: polling more often than once in a debounce second)
PollAnyTime == TRUE
PollDue == due

\* poll: a newer modification time is remembered before the reload is tried.
Poll ==
    /\ at = "wait" /\ PollDue /\ due' = FALSE
    /\ IF file # Gone /\ mtime > lastMod
       THEN lastMod' = mtime /\ at' = "reload"
       ELSE UNCHANGED <<lastMod, at>>
    /\ UNCHANGED <<hups, file, mtime, current, running, quiet>>

Hup ==
    /\ hups /\ at = "wait" /\ at' = "reload"
    /\ UNCHANGED <<hups, file, mtime, lastMod, current, running, quiet, due>>

\* Load and Validate: an error, or the configuration.
Loads == file \in Valid \cup {Gone}
Loaded == IF file = Gone THEN Defaults ELSE file

Kept == IF Loads THEN Loaded ELSE current

\* tryReload; onChange only writes a log line.
Reload ==
    /\ at = "reload" /\ at' = "wait"
    /\ IF quiet
       THEN current' = Kept /\ quiet' = ~Loads
       ELSE UNCHANGED <<current, quiet>>
    /\ UNCHANGED <<hups, file, mtime, lastMod, running, due>>

Next == Edit \/ Start \/ Second \/ Poll \/ Hup \/ Reload

Spec == Init /\ [][Next]_vars

\* The ticker fires and the watcher's loop runs; nobody has to edit or to send SIGHUP.
Fairness ==
    /\ WF_vars(Start) /\ WF_vars(Second)
    /\ WF_vars(Poll) /\ WF_vars(Reload)

FairSpec == Spec /\ Fairness

-----------------------------------------------------------------------------
(* Properties *)

\* As long as nobody sends SIGHUP and the first edit comes after the watcher has
\* looked at the file, a file that then stays as it is becomes current, although its
\* modification time is taken as seen before it is loaded: an earlier attempt on a half
\* written file, or the debounce, does not lose the change.
StableFileLoaded ==
    ~hups /\ [](at = "start" => mtime = 0)
        => \A c \in Valid : (<>[](file = c)) => <>[](current = c)

\* README: "Change `gateway.yaml` and the gateway picks it up without restart."
PickedUp == \A c \in Valid : (<>[](file = c)) => <>(running = c)
=============================================================================
