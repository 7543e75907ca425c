---- MODULE ParamStore ----
(***************************************************************************)
(* The tuning keys of show.cpp and the parameter file of flash.cpp.  Flash *)
(* is a struct of numbers; the file holds one "key=value" line for each.   *)
(* A save formats all of Flash, opens the file for writing, which empties  *)
(* it, puts the text into the stream, and closes the stream, which writes  *)
(* it; Ctrl-C (exit flushes the streams) or a fatal signal (nothing does)  *)
(* may come between any two of these, and the program is started again.    *)
(***************************************************************************)
EXTENDS Integers, Sequences

CONSTANTS
    Order,         \* the keys in the order Param_SaveAll writes them
    Ints,          \* the keys Flash holds as int; the others are float
    Tuned,         \* the keys page 4 of the menu tunes, by Parameter_flag
    Default,       \* what the initialiser of Flash gives each key
    Files,         \* contents the file may have before the first start
    Range,         \* bound on the tuned values
    MaxParameter   \* bound on Parameter_flag

Keys == {Order[i] : i \in DOMAIN Order}
Line == Keys \X Int

(* Numbers are counted in units of 10^-7.  "%.4f" keeps four decimals.     *)
One == 10000000
Written(v) == ((v + 500) \div 1000) * 1000

(* A number assigned to an int loses its fraction.                         *)
Stored(k, v) ==
    IF k \notin Ints THEN v ELSE IF v >= 0 THEN (v \div One) * One ELSE -(((-v) \div One) * One)

ASSUME OrderAssumption ==
    /\ Order \in Seq(STRING)
    /\ \A i, j \in DOMAIN Order : Order[i] = Order[j] => i = j
ASSUME TunedAssumption == Tuned \in Seq(Keys)
ASSUME DefaultAssumption ==
    /\ Default \in [Keys -> Int]
    /\ \A k \in Ints \cap Keys : Default[k] % One = 0
ASSUME FilesAssumption == Files \subseteq Seq(Line)
ASSUME BoundAssumption == Range \subseteq Int /\ MaxParameter \in Nat

VARIABLES
    Flash,
    file,                        \* the lines of the parameter file
    content,                     \* the text of the save under way, or the last program's
    oled_flag, Parameter_flag,   \* the page shown, and the entry selected on it
    edges,                       \* tuning keys of this scan still to be handled
    pc,
    failed,                      \* 1 when the last save could not open or fill the file
    saved,                       \* lines of the last save that was closed, or found at first
    idle, owed                   \* whether the last program ended between saves, and what
                                 \* its parameters were then, as written

menu == <<oled_flag, Parameter_flag>>
last == <<saved, idle, owed>>
vars == <<Flash, file, content, menu, edges, pc, failed, last>>

Minus == 7
Plus == 8

----------------------------------------------------------------------------
(* Param_SaveAll's text.                                                   *)
Lines(flash) == [i \in DOMAIN Order |-> <<Order[i], Written(flash[Order[i]])>>]

Matches(lines, k) == {i \in DOMAIN lines : lines[i][1] = k}

(* Param_Init reads to the end: of several lines of a key the last counts, *)
(* and a key without a line keeps its initialiser.                         *)
Load(lines) ==
    [k \in Keys |->
        IF Matches(lines, k) = {} THEN Default[k]
        ELSE Stored(k, lines[CHOOSE i \in Matches(lines, k) :
                               \A j \in Matches(lines, k) : j <= i][2])]

(* [variant] only the first line of the key is replaced.                   *)
ReplacedFirst(lines, k, v) ==
    [i \in DOMAIN lines |->
        IF lines[i][1] = k /\ \A j \in Matches(lines, k) : i <= j THEN <<k, Written(v)>>
        ELSE lines[i]]

Replaced(lines, k, v) ==
    [i \in DOMAIN lines |-> IF lines[i][1] = k THEN <<k, Written(v)>> ELSE lines[i]]

(* Param_SaveSingle's text: nothing calls it at this commit.               *)
SaveSingle(lines, k, v) ==
    IF Matches(lines, k) = {} THEN Append(lines, <<k, Written(v)>>)
    ELSE Replaced(lines, k, v)

AsWritten(flash) == [k \in Keys |-> Written(flash[k])]

----------------------------------------------------------------------------
Init ==
    /\ Flash = Default
    /\ file \in Files /\ saved = file
    /\ content = <<>>
    /\ oled_flag = 0 /\ Parameter_flag = 1
    /\ edges = {}
    /\ pc = "load"
    /\ failed = 0
    /\ idle = 0 /\ owed = Default

(* Without a single line found the defaults are saved.                     *)
Param_Init ==
    /\ pc = "load"
    /\ Flash' = Load(file)
    /\ IF \A k \in Keys : Matches(file, k) = {}
         THEN pc' = "open" /\ content' = Lines(Flash')
         ELSE pc' = "scan" /\ content' = <<>>
    /\ idle' = 0 /\ owed' = Default
    /\ UNCHANGED <<file, menu, edges, failed, saved>>

(* The keys that select, in the order they are tested: 1 next entry,       *)
(* 2 next page, 3 entry before, 4 page before.                             *)
Entry(pressed) ==
    LET after1 == IF 1 \in pressed THEN Parameter_flag + 1 ELSE Parameter_flag
        after2 == IF 2 \in pressed THEN 1 ELSE after1
        after3 == IF 3 \notin pressed THEN after2 ELSE IF after2 - 1 < 1 THEN 1 ELSE after2 - 1
    IN  IF 4 \in pressed THEN 0 ELSE after3

(* [variant] the page before the first is page -1.                         *)
PageUnclamped(pressed) ==
    LET after2 == IF 2 \notin pressed THEN oled_flag ELSE IF oled_flag + 1 > 4 THEN 0
                  ELSE oled_flag + 1
    IN  IF 4 \notin pressed THEN after2 ELSE after2 - 1

Page(pressed) ==
    LET after2 == IF 2 \notin pressed THEN oled_flag ELSE IF oled_flag + 1 > 4 THEN 0
                  ELSE oled_flag + 1
    IN  IF 4 \notin pressed THEN after2 ELSE IF after2 - 1 < 0 THEN 0 ELSE after2 - 1

key_scan ==
    /\ pc = "scan"
    /\ \E pressed \in SUBSET {1, 2, 3, 4, Minus, Plus} :
         /\ Entry(pressed) <= MaxParameter
         /\ Parameter_flag' = Entry(pressed) /\ oled_flag' = Page(pressed)
         /\ edges' = pressed \cap {Minus, Plus}
    /\ pc' = IF edges' = {} THEN "scan" ELSE "tune"
    /\ UNCHANGED <<Flash, file, content, failed, last>>

(* Both keys save, whether they changed a value or not.                    *)
Tuning == oled_flag = 4 /\ Parameter_flag \in DOMAIN Tuned

(* [variant] the text is formatted before the value is changed.            *)
TextBefore == Lines(Flash)
Text == Lines(Flash')

Stepped(key) == Flash[Tuned[Parameter_flag]] + (IF key = Minus THEN -5 * One ELSE 5 * One)

tune ==
    /\ pc = "tune" /\ pc' = "open"
    /\ \E key \in edges :
         /\ Minus \in edges => key = Minus
         /\ edges' = edges \ {key}
         /\ IF Tuning
              THEN /\ Stepped(key) \in Range
                   /\ Flash' = [Flash EXCEPT ![Tuned[Parameter_flag]] = Stepped(key)]
              ELSE UNCHANGED Flash
    /\ content' = Text
    /\ UNCHANGED <<file, menu, failed, last>>
----------------------------------------------------------------------------
(* zf_driver_file_string: open, put, close.                                *)
AfterSave == IF edges = {} THEN "scan" ELSE "tune"

file_open ==
    /\ pc = "open" /\ pc' = "write"
    /\ file' = <<>> /\ failed' = 0
    /\ UNCHANGED <<Flash, content, menu, edges, last>>

(* A file that cannot be opened: write_string refuses, and nobody asks.    *)
file_open_fails ==
    /\ pc = "open" /\ pc' = AfterSave
    /\ failed' = 1 /\ content' = <<>>
    /\ UNCHANGED <<Flash, file, menu, edges, last>>

write_string ==
    /\ pc = "write" /\ pc' = "close"
    /\ UNCHANGED <<Flash, file, content, menu, edges, failed, last>>

file_close ==
    /\ pc = "close" /\ pc' = AfterSave
    /\ file' = content /\ saved' = content /\ content' = <<>>
    /\ UNCHANGED <<Flash, menu, edges, failed, idle, owed>>

(* The disk is full: the text, shorter than the stream's buffer, is one    *)
(* write, which comes only now, and nobody asks for its result.            *)
file_close_fails ==
    /\ pc = "close" /\ pc' = AfterSave
    /\ failed' = 1 /\ content' = <<>>
    /\ UNCHANGED <<Flash, file, menu, edges, last>>

(* The program ends, with `left` in the file, and is started again.        *)
Ends(left, between) ==
    /\ pc' = "load"
    /\ file' = left
    /\ idle' = IF between THEN 1 ELSE 0
    /\ owed' = AsWritten(Flash)
    /\ Flash' = Default
    /\ oled_flag' = 0 /\ Parameter_flag' = 1
    /\ edges' = {} /\ content' = content /\ saved' = saved /\ failed' = 0

BetweenSaves == pc = "scan" /\ failed = 0

(* [variant] the process leaves its streams as they are.                   *)
sigint_unflushed == Ends(file, BetweenSaves \/ pc = "close")

sigint == Ends(IF pc = "close" THEN content ELSE file, BetweenSaves \/ pc = "close")

kill == Ends(file, BetweenSaves)

Next ==
    \/ Param_Init \/ key_scan \/ tune
    \/ file_open \/ file_open_fails \/ write_string \/ file_close \/ file_close_fails
    \/ sigint \/ kill

Spec == Init /\ [][Next]_vars
----------------------------------------------------------------------------
Places == {"load", "scan", "tune", "open", "write", "close"}

(* Every variable keeps to its type.                                       *)
TypeOK ==
    /\ Flash \in [Keys -> Int]
    /\ file \in Seq(Line) /\ content \in Seq(Line) /\ saved \in Seq(Line)
    /\ oled_flag \in 0 .. 4 /\ Parameter_flag \in Nat
    /\ edges \subseteq {Minus, Plus}
    /\ pc \in Places
    /\ failed \in {0, 1} /\ idle \in {0, 1}
    /\ owed \in [Keys -> Int]

(* Whenever the program scans its keys, the file gives the parameters it   *)
(* runs with, to four decimals: after a start, with whatever file, and     *)
(* after each key, unless the last save could not open or fill the file.   *)
FileIsCurrent == pc = "scan" /\ failed = 0 => AsWritten(Load(file)) = AsWritten(Flash)

(* A program that is ended between two saves, or by Ctrl-C while it closes *)
(* the file, starts with the parameters it ended with.                     *)
RestartKeeps == [][pc = "load" /\ pc' # "load" /\ idle = 1 => AsWritten(Flash') = owed]_vars

(* Param_SaveSingle changes the one parameter, whatever lines the file has.*)
SingleKeepsOthers ==
    \A k \in Keys : \A v \in Range :
        Load(SaveSingle(file, k, v)) = [Load(file) EXCEPT ![k] = Stored(k, Written(v))]

(* "data kept when the power goes": a start finds the parameters of the    *)
(* last completed save, or those of a save that was under way.             *)
OldOrNew == [][pc = "load" /\ pc' # "load" =>
       Flash' \in {Load(saved)} \union (IF content = <<>> THEN {} ELSE {Load(content)})]_vars
====
