----------------------------- MODULE ConfigFile -----------------------------
(***************************************************************************)
(* The configuration file: the user edits it, hblog scan rewrites its list *)
(* of watched units in place, and hblogd and scan load it.  A scan may die *)
(* at any moment, and the daemon may start at any moment.                  *)
(*                                                                         *)
(* A text is a sequence of the pieces the code tells apart: the beginning  *)
(* of a list, brackets, patterns, remarks with a bracket in them, another  *)
(* key, and one whose value validate rejects.  Tables, and keys spelt in   *)
(* unusual ways, are left out.                                             *)
(***************************************************************************)
EXTENDS Naturals, Sequences, FiniteSets, SequencesExt

CONSTANTS
    Services,   \* the services of the system
    Globs,      \* patterns that end in "*"
    Covered,    \* the services each of them matches
    UserTexts,  \* the texts the user may write
    Excluded,   \* the patterns the template excludes
    MaxScans,   \* bound: scans in a behaviour
    MaxEdits    \* bound: edits in a behaviour

Watch == "watch_units = ["
Exclude == "exclude_units = ["
Close == "]"
RemarkOpen == "# ["
RemarkClose == "# ]"
Key == "db_path"
BadKey == "batch_size = 0"
Absent == "no file"
Patterns == Services \cup Globs
Remarks == {RemarkOpen, RemarkClose}
Pieces == Patterns \cup Remarks \cup {Watch, Exclude, Close, Key, BadKey}

ASSUME GlobAssumption ==
    /\ Covered \in [Globs -> SUBSET Services]
    /\ Excluded \subseteq Globs
    /\ IsFiniteSet(Services) /\ IsFiniteSet(Globs) /\ Services \cap Globs = {}
\* A name is none of the other pieces.
ASSUME PieceAssumption ==
    Patterns \cap (Remarks \cup {Watch, Exclude, Close, Key, BadKey, Absent})
        = {}
ASSUME TextAssumption == \A t \in UserTexts : t \in Seq(Pieces)
ASSUME ConfigBounds == MaxScans \in Nat /\ MaxEdits \in Nat

VARIABLES
    file,        \* the text, or NoFile
    scan,        \* where the scan is
    text,        \* the file as it has read it
    daemon,      \* the daemon's configuration, or how it is without one
    lists,       \* what the scans had to write, the current one's last
    edits        \* history: the number of edits

vars == <<file, scan, text, daemon, lists, edits>>

NoFile == <<Absent>>
Exists(f) == f # NoFile

----------------------------------------------------------------------------
(* Loading. *)

Defaults == [watch |-> {}, exclude |-> {}]

\* What load raises, and a daemon that does not run.
Rejected == [raises |-> "ValueError"]
Down == [runs |-> FALSE]

\* tomllib reads the pieces one by one: within an array only elements, remarks
\* and its end; outside of one only keys and remarks, each key once.
Reader0 == [at |-> "top", seen |-> {}, watch |-> {}, exclude |-> {}]

ReadPiece(r, p) ==
    IF r = Rejected \/ p \in Remarks THEN r
    ELSE CASE r.at = "top" /\ p \in {Watch, Exclude, Key} \ r.seen ->
                [r EXCEPT !.seen = @ \cup {p},
                          !.at = IF p = Key THEN "top" ELSE p]
           [] r.at = Watch /\ p \in Patterns ->
                [r EXCEPT !.watch = @ \cup {p}]
           [] r.at = Exclude /\ p \in Patterns ->
                [r EXCEPT !.exclude = @ \cup {p}]
           [] r.at # "top" /\ p = Close -> [r EXCEPT !.at = "top"]
           [] OTHER -> Rejected

Parse(t) == FoldLeft(ReadPiece, Reader0, t)
Valid(t) == Parse(t) # Rejected /\ Parse(t).at = "top"
ConfigOf(t) == [watch |-> Parse(t).watch, exclude |-> Parse(t).exclude]

\* config.load: a missing file gives the defaults; an error of tomllib or of
\* validate (here a reader that met BadKey) is an exception.
Load(f) ==
    IF ~Exists(f) THEN Defaults
    ELSE IF Valid(f) THEN ConfigOf(f) ELSE Rejected

Matches(p, u) == IF p \in Globs THEN u \in Covered[p] ELSE p = u

\* Wrong variant of UnitIsWatched: a name in the list is watched in any case.
ListedIsWatched(c, u) ==
    \/ \E p \in c.watch : Matches(p, u)
    \/ c.watch = {} /\ ~\E p \in c.exclude : Matches(p, u)

\* Config.unit_is_watched
UnitIsWatched(c, u) ==
    /\ ~\E p \in c.exclude : Matches(p, u)
    /\ c.watch = {} \/ \E p \in c.watch : Matches(p, u)

----------------------------------------------------------------------------
(* Rewriting. *)

\* format_watch_units
FormatWatchUnits(units) == <<Watch>> \o SetToSeq(units) \o <<Close>>

\* The depth of the brackets after i, counted from the one that opens the
\* list, in remarks too.
Depth(t, first, i) ==
    LET opens == {j \in first..i : t[j] \in {Watch, Exclude, RemarkOpen}}
        closes == {j \in first..i : t[j] \in {Close, RemarkClose}}
    IN  Cardinality(opens) - Cardinality(closes)

\* Wrong variant of EndOfList: the first closing bracket.
FirstClose(t, first) ==
    LET ends == {i \in first..Len(t) : t[i] \in {Close, RemarkClose}}
    IN  IF ends = {} THEN Len(t) ELSE CHOOSE i \in ends : \A j \in ends : i <= j

\* Where the list that begins at first ends for _replace_watch_units: without
\* an end, with the file.
EndOfList(t, first) ==
    LET ends == {i \in first..Len(t) : Depth(t, first, i) = 0}
    IN  IF ends = {} THEN Len(t) ELSE CHOOSE i \in ends : \A j \in ends : i <= j

Begins(t) == {i \in DOMAIN t : t[i] = Watch}
First(t) == CHOOSE i \in Begins(t) : \A j \in Begins(t) : i <= j

\* What surrounds the list; all of the text when there is none.
Around(t) ==
    IF Begins(t) = {} THEN t
    ELSE SubSeq(t, 1, First(t) - 1)
         \o SubSeq(t, EndOfList(t, First(t)) + 1, Len(t))

\* write_watch_units: in place of the list, after the text, or in the template.
Template(assignment) ==
    <<Key>> \o assignment \o <<Exclude>> \o SetToSeq(Excluded) \o <<Close>>

NewText(t, units) ==
    LET assignment == FormatWatchUnits(units)
    IN  IF ~Exists(t) THEN Template(assignment)
        ELSE IF Begins(t) = {} THEN t \o assignment
        ELSE SubSeq(t, 1, First(t) - 1) \o assignment
             \o SubSeq(t, EndOfList(t, First(t)) + 1, Len(t))

----------------------------------------------------------------------------
services == IF lists = <<>> THEN {} ELSE Last(lists)

TypeOK ==
    /\ file \in Seq(Pieces) \cup {NoFile}
    /\ text \in Seq(Pieces) \cup {NoFile}
    /\ scan \in {"idle", "read", "open", "write"}
    /\ lists \in Seq((SUBSET Services) \ {{}}) /\ Len(lists) <= MaxScans
    /\ daemon \in {Down, Rejected} \cup
                 [watch : SUBSET Patterns, exclude : SUBSET Patterns]
    /\ edits \in 0..MaxEdits

Init ==
    /\ file \in UserTexts \cup {NoFile}
    /\ scan = "idle" /\ text = NoFile
    /\ daemon = Down /\ lists = <<>> /\ edits = 0

\* The excludes scan applies: those of the file, or the defaults.
Excludes(f) == IF Load(f) = Rejected THEN {} ELSE Load(f).exclude

\* Wrong variant of NoneFound: an empty list is written.
NeverNone(found) == FALSE

\* if not services: raise SystemExit
NoneFound(found) == found = {}

\* cmd_scan up to write_watch_units.
StartScan(found) ==
    /\ scan = "idle" /\ Len(lists) < MaxScans
    /\ LET kept == {u \in found :
                      UnitIsWatched([watch |-> {}, exclude |-> Excludes(file)],
                                    u)}
       IN  /\ ~NoneFound(kept)
           /\ lists' = Append(lists, kept)
    /\ scan' = "read"
    /\ UNCHANGED <<file, text, daemon, edits>>

ReadText ==
    /\ scan = "read"
    /\ text' = file
    /\ scan' = "open"
    /\ UNCHANGED <<file, daemon, lists, edits>>

\* write_text opens the file, which empties it,
Truncate ==
    /\ scan = "open"
    /\ file' = <<>>
    /\ scan' = "write"
    /\ UNCHANGED <<text, daemon, lists, edits>>

\* Wrong variant of WriteMore: the file is saved with each service that is found.
WriteServiceByService ==
    /\ scan = "write"
    /\ \E written \in (SUBSET services) \ {{}} :
          /\ file' = NewText(text, written)
          /\ scan' = IF written = services THEN "idle" ELSE "write"
    /\ UNCHANGED <<text, daemon, lists, edits>>

\* and writes the new text piece by piece.
WriteMore ==
    /\ scan = "write"
    /\ LET new == NewText(text, services)
       IN  /\ file' = SubSeq(new, 1, Len(file) + 1)
           /\ scan' = IF file' = new THEN "idle" ELSE "write"
    /\ UNCHANGED <<text, daemon, lists, edits>>

\* The scan is killed, or may not write the file.
ScanDies ==
    /\ scan # "idle"
    /\ scan' = "idle"
    /\ UNCHANGED <<file, text, daemon, lists, edits>>

\* The user saves a text, while no scan is writing one.
Edit ==
    /\ edits < MaxEdits /\ scan \in {"idle", "read", "open"}
    /\ edits' = edits + 1
    /\ file' \in UserTexts \ {file}
    /\ UNCHANGED <<scan, text, daemon, lists>>

\* hblogd starts, and ends at once if load raises; and it stops.
StartDaemon ==
    /\ daemon \in {Down, Rejected}
    /\ daemon' = Load(file)
    /\ UNCHANGED <<file, scan, text, lists, edits>>

StopDaemon ==
    /\ daemon # Down
    /\ daemon' = Down
    /\ UNCHANGED <<file, scan, text, lists, edits>>

ScanStep == ReadText \/ Truncate \/ WriteMore \/ ScanDies

Next ==
    \/ \E found \in SUBSET Services : StartScan(found)
    \/ ScanStep \/ Edit \/ StartDaemon \/ StopDaemon

Spec == Init /\ [][Next]_vars

----------------------------------------------------------------------------
(* Properties. *)

\* The brackets in the remarks within the list of t match.
Balanced(t) ==
    Exists(t) /\ Begins(t) # {} =>
        \E end \in First(t)..Len(t) :
            /\ t[end] = Close /\ Depth(t, First(t), end) = 0
            /\ \A i \in First(t)..(end - 1) :
                   t[i] # Close /\ Depth(t, First(t), i) > 0

Finished == scan = "write" /\ scan' = "idle" /\ file' = NewText(text, services)

\* A scan that comes to its end on a file that loads leaves one that loads,
\* with the services it found in the list and all the rest of the text, key by
\* key and remark by remark, as it was read.  (Of a list with a remark whose
\* brackets do not match it takes the wrong end.)
ScanKeepsTheRest ==
    [][Finished /\ Load(text) # Rejected /\ Balanced(text) =>
         /\ Load(file') # Rejected
         /\ Load(file').watch = services
         /\ Exists(text) => /\ Load(file').exclude = Load(text).exclude
                            /\ Around(file') = Around(text)]_vars

\* On the file of a finished scan the daemon watches what the scan found, less
\* what the user excludes, and nothing else: an empty list, which would mean
\* all, is never written.
WatchesWhatWasFound ==
    [][Finished /\ Load(file') # Rejected =>
         LET c == Load(file')
             e == [watch |-> {}, exclude |-> c.exclude]
         IN  {u \in Services : UnitIsWatched(c, u)}
                = {u \in services : UnitIsWatched(e, u)}]_vars

\* Wherever a scan dies, or a daemon starts under one, the daemon never runs
\* on a part of a list: it has a list the user or a scan wrote, or none, or it
\* does not start.
NoPartOfAList ==
    [][daemon' # daemon /\ daemon' \notin {Down, Rejected} =>
         daemon'.watch \in {{}} \cup ToSet(lists)
                           \cup {Load(t).watch : t \in
                                    {t \in UserTexts : Load(t) # Rejected}}]_vars
============================================================================
