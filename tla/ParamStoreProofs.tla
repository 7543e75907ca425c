---- MODULE ParamStoreProofs ----
(***************************************************************************)
(* Theorems of ParamStore, for every list of keys, every default, every    *)
(* file found at the first start and any number of saves and restarts.     *)
(***************************************************************************)
EXTENDS ParamStore, TLAPS, WellFoundedInduction

Saving == {"open", "write", "close"}

(* What the proof of FileIsCurrent and RestartKeeps needs: the values are  *)
(* numbers; the text of a save is that of Flash as it is; the file gives   *)
(* Flash when no save is under way, and gave it when the program ended.    *)
WholeInts(flash) == \A k \in Ints \cap Keys : flash[k] % One = 0
ValuesOK ==
    /\ Flash \in [Keys -> Int] /\ WholeInts(Flash)
    /\ file \in Seq(Line) /\ content \in Seq(Line)
ContentOK == pc \in Saving => content = Lines(Flash)
CurrentOK ==
    pc \in {"scan", "tune"} /\ failed = 0 => AsWritten(Load(file)) = AsWritten(Flash)
OwedOK == pc = "load" /\ idle = 1 => AsWritten(Load(file)) = owed

IInv == ValuesOK /\ ContentOK /\ CurrentOK /\ OwedOK
----------------------------------------------------------------------------
(* A nonempty set of places in a file has a last one.                      *)
LEMMA Greatest ==
    ASSUME NEW n \in Nat, NEW S, S \subseteq 1 .. n, S # {}
    PROVE  \E i \in S : \A j \in S : j <= i
<1> DEFINE T == {m \in Nat : n - m \in S}
<1>1. T \subseteq Nat /\ T # {}
  <2>1. PICK i \in S : TRUE
    OBVIOUS
  <2>2. i \in Int /\ n - i \in Nat /\ n - (n - i) = i
    BY <2>1
  <2>3. n - i \in T
    BY <2>1, <2>2 DEF T
  <2> QED
    BY <2>3 DEF T
<1>2. PICK x \in T : \A y \in T : <<y, x>> \notin OpToRel(<, Nat)
  BY <1>1, NatLessThanWellFounded, WFMin
<1>3. \A y \in T : ~(y < x)
  BY <1>1, <1>2 DEF OpToRel
<1>4. x \in Nat /\ n - x \in S
  BY <1>2 DEF T
<1>5. ASSUME NEW j \in S PROVE j <= n - x
  <2>1. j \in 1 .. n
    BY <1>5
  <2>2. n - j \in Nat /\ n - (n - j) = j
    BY <2>1
  <2>3. n - j \in T
    BY <2>2 DEF T
  <2>4. ~(n - j < x)
    BY <1>3, <2>3
  <2> QED
    BY <1>4, <2>1, <2>4
<1> QED
  BY <1>4, <1>5

(* Writing a number twice changes it no more.                              *)
LEMMA WrittenAgain == \A v \in Int : Written(v) \in Int /\ Written(Written(v)) = Written(v)
    BY DEF Written

(* An int keeps a whole number as it is, and anything else as a whole one. *)
LEMMA StoredType ==
    ASSUME NEW k, NEW v \in Int
    PROVE  Stored(k, v) \in Int /\ (k \in Ints => Stored(k, v) % One = 0)
<1>1. (v \div One) * One \in Int /\ ((v \div One) * One) % One = 0
  BY DEF One
<1>2. -(((-v) \div One) * One) \in Int /\ (-(((-v) \div One) * One)) % One = 0
  BY DEF One
<1> QED
  BY <1>1, <1>2 DEF Stored

LEMMA StoredWhole ==
    ASSUME NEW k, NEW v \in Int, v % One = 0
    PROVE  Written(v) = v /\ Stored(k, v) = v
<1>1. Written(v) = v
  BY DEF Written, One
<1>2. (v \div One) * One = v /\ -(((-v) \div One) * One) = v
  BY DEF One
<1> QED
  BY <1>1, <1>2 DEF Stored

(* The last line of a key is one of the file's, and the last.              *)
LastOf(lines, k) == CHOOSE i \in Matches(lines, k) : \A j \in Matches(lines, k) : j <= i

LEMMA LastOfIsLast ==
    ASSUME NEW lines \in Seq(Line), NEW k, Matches(lines, k) # {}
    PROVE  /\ LastOf(lines, k) \in Matches(lines, k)
           /\ \A j \in Matches(lines, k) : j <= LastOf(lines, k)
<1>1. Len(lines) \in Nat /\ Matches(lines, k) \subseteq 1 .. Len(lines)
  BY DEF Matches
<1>2. \E i \in Matches(lines, k) : \A j \in Matches(lines, k) : j <= i
  BY <1>1, Greatest
<1> QED
  BY <1>2 DEF LastOf

LEMMA LoadByLast ==
    ASSUME NEW lines, NEW k \in Keys
    PROVE  Load(lines)[k] = IF Matches(lines, k) = {} THEN Default[k]
                            ELSE Stored(k, lines[LastOf(lines, k)][2])
    BY DEF Load, LastOf

LEMMA LoadDomain == \A lines : Load(lines) = [k \in Keys |-> Load(lines)[k]]
    BY DEF Load

LEMMA LoadType ==
    ASSUME NEW lines \in Seq(Line)
    PROVE  Load(lines) \in [Keys -> Int] /\ WholeInts(Load(lines))
<1>1. SUFFICES ASSUME NEW k \in Keys
               PROVE  Load(lines)[k] \in Int /\ (k \in Ints => Load(lines)[k] % One = 0)
  BY DEF Load, WholeInts
<1>2. CASE Matches(lines, k) = {}
  BY <1>2, LoadByLast, DefaultAssumption
<1>3. CASE Matches(lines, k) # {}
  <2>1. LastOf(lines, k) \in 1 .. Len(lines)
    BY <1>3, LastOfIsLast DEF Matches
  <2>2. lines[LastOf(lines, k)] \in Line
    BY <2>1
  <2>3. lines[LastOf(lines, k)][2] \in Int
    BY <2>2 DEF Line
  <2> QED
    BY <1>3, <2>3, LoadByLast, StoredType
<1> QED
  BY <1>2, <1>3

LEMMA LinesType ==
    ASSUME NEW flash \in [Keys -> Int]
    PROVE  Lines(flash) \in Seq(Line)
<1>1. Len(Order) \in Nat /\ DOMAIN Order = 1 .. Len(Order)
  BY OrderAssumption
<1>2. \A i \in 1 .. Len(Order) : <<Order[i], Written(flash[Order[i]])>> \in Line
  BY <1>1, WrittenAgain DEF Line, Keys
<1>3. Lines(flash) \in [1 .. Len(Order) -> Line]
  BY <1>1, <1>2 DEF Lines
<1> QED
  BY <1>1, <1>3

(* The text of a save gives back every parameter, to four decimals.        *)
LEMMA LoadLines ==
    ASSUME NEW flash \in [Keys -> Int], WholeInts(flash)
    PROVE  AsWritten(Load(Lines(flash))) = AsWritten(flash)
<1>1. SUFFICES ASSUME NEW k \in Keys PROVE Load(Lines(flash))[k] = Written(flash[k])
  BY WrittenAgain DEF AsWritten
<1>2. PICK n \in DOMAIN Order : Order[n] = k
  BY DEF Keys
<1>3. DOMAIN Lines(flash) = DOMAIN Order
  BY DEF Lines
<1>4. \A i \in DOMAIN Order : Lines(flash)[i] = <<Order[i], Written(flash[Order[i]])>>
  BY DEF Lines
<1>5. Matches(Lines(flash), k) = {n}
  BY <1>2, <1>3, <1>4, OrderAssumption DEF Matches
<1>6. LastOf(Lines(flash), k) = n
  BY <1>5, LinesType, LastOfIsLast
<1>7. Load(Lines(flash))[k] = Stored(k, Written(flash[k]))
  BY <1>2, <1>4, <1>5, <1>6, LoadByLast
<1>8. CASE k \in Ints
  BY <1>7, <1>8, StoredWhole DEF WholeInts
<1>9. CASE k \notin Ints
  BY <1>7, <1>9 DEF Stored
<1> QED
  BY <1>8, <1>9

(* Param_SaveSingle changes one parameter of any file.                     *)
LEMMA SaveSingleLoads ==
    ASSUME NEW lines \in Seq(Line), NEW k \in Keys, NEW v \in Int
    PROVE  Load(SaveSingle(lines, k, v)) = [Load(lines) EXCEPT ![k] = Stored(k, Written(v))]
<1> DEFINE new == SaveSingle(lines, k, v)
<1>1. CASE Matches(lines, k) = {}
  <2>1. new = Append(lines, <<k, Written(v)>>)
    BY <1>1 DEF SaveSingle
  <2>2. /\ Len(lines) \in Nat
        /\ DOMAIN lines = 1 .. Len(lines)
        /\ DOMAIN new = 1 .. Len(lines) + 1
        /\ \A i \in 1 .. Len(lines) : new[i] = lines[i]
        /\ new[Len(lines) + 1] = <<k, Written(v)>>
    BY <2>1
  <2>3. new \in Seq(Line)
    BY <2>1, WrittenAgain DEF Line
  <2>4. Matches(new, k) = {Len(lines) + 1}
    BY <1>1, <2>2 DEF Matches
  <2>5. LastOf(new, k) = Len(lines) + 1
    BY <2>3, <2>4, LastOfIsLast
  <2>6. \A h \in Keys \ {k} : Matches(new, h) = Matches(lines, h)
    BY <2>2 DEF Matches
  <2>7. ASSUME NEW h \in Keys \ {k} PROVE Load(new)[h] = Load(lines)[h]
    <3>1. CASE Matches(lines, h) = {}
      BY <2>6, <3>1, LoadByLast
    <3>2. CASE Matches(lines, h) # {}
      <4>1. LastOf(new, h) = LastOf(lines, h)
        BY <2>6 DEF LastOf
      <4>2. LastOf(lines, h) \in 1 .. Len(lines)
        BY <3>2, <2>2, LastOfIsLast DEF Matches
      <4> QED
        BY <2>2, <2>6, <3>2, <4>1, <4>2, LoadByLast
    <3> QED
      BY <3>1, <3>2
  <2>8. Load(new)[k] = Stored(k, new[LastOf(new, k)][2])
    BY <2>4, LoadByLast
  <2>9. Load(new)[k] = Stored(k, Written(v))
    BY <2>2, <2>5, <2>8
  <2>10. \A h \in Keys : Load(new)[h] = IF h = k THEN Stored(k, Written(v)) ELSE Load(lines)[h]
    BY <2>7, <2>9
  <2> QED
    BY <2>10, LoadDomain
<1>2. CASE Matches(lines, k) # {}
  <2>1. new = Replaced(lines, k, v)
    BY <1>2 DEF SaveSingle
  <2>2. /\ Len(lines) \in Nat
        /\ DOMAIN lines = 1 .. Len(lines)
        /\ DOMAIN new = DOMAIN lines
        /\ \A i \in DOMAIN lines :
             new[i] = IF lines[i][1] = k THEN <<k, Written(v)>> ELSE lines[i]
    BY <2>1 DEF Replaced
  <2>3. \A h \in Keys : Matches(new, h) = Matches(lines, h)
    BY <2>2 DEF Matches
  <2>4. ASSUME NEW h \in Keys
        PROVE  Load(new)[h] = IF h = k THEN Stored(k, Written(v)) ELSE Load(lines)[h]
    <3>1. CASE Matches(lines, h) = {}
      BY <1>2, <2>3, <3>1, LoadByLast
    <3>2. CASE Matches(lines, h) # {}
      <4>1. LastOf(new, h) = LastOf(lines, h)
        BY <2>3 DEF LastOf
      <4>2. LastOf(lines, h) \in DOMAIN lines /\ lines[LastOf(lines, h)][1] = h
        BY <3>2, LastOfIsLast DEF Matches
      <4>3. new[LastOf(lines, h)] = IF h = k THEN <<k, Written(v)>> ELSE lines[LastOf(lines, h)]
        BY <2>2, <4>2
      <4> QED
        BY <2>3, <3>2, <4>1, <4>3, LoadByLast
    <3> QED
      BY <3>1, <3>2
  <2> QED
    BY <2>4, LoadDomain
<1> QED
  BY <1>1, <1>2
----------------------------------------------------------------------------
LEMMA InitOK == Init => IInv
    BY FilesAssumption, DefaultAssumption
    DEF WholeInts, Init, IInv, ValuesOK, ContentOK, CurrentOK, OwedOK, Saving

LEMMA StepOK == IInv /\ [Next]_vars => IInv'
<1> SUFFICES ASSUME IInv, [Next]_vars PROVE IInv'
  OBVIOUS
<1> USE DEF IInv, ValuesOK, ContentOK, CurrentOK, OwedOK, Saving, last, menu
<1>1. CASE Param_Init
  <2>1. /\ Load(file) \in [Keys -> Int] /\ WholeInts(Load(file))
        /\ Lines(Load(file)) \in Seq(Line)
    BY LoadType, LinesType
  <2>2. <<>> \in Seq(Line)
    OBVIOUS
  <2> QED
    BY <1>1, <2>1, <2>2 DEF Param_Init
<1>2. CASE key_scan
  BY <1>2 DEF key_scan
<1>3. CASE tune
  <2>1. Flash' \in [Keys -> Int] /\ WholeInts(Flash')
    <3>1. \A key : Tuning /\ Stepped(key) \in Range =>
            /\ Stepped(key) \in Int
            /\ Tuned[Parameter_flag] \in Ints => Stepped(key) % One = 0
      <4>1. SUFFICES ASSUME NEW key, Tuning
                     PROVE  Tuned[Parameter_flag] \in Ints => Stepped(key) % One = 0
        BY BoundAssumption
      <4>2. Tuned[Parameter_flag] \in Keys
        BY <4>1, TunedAssumption DEF Tuning
      <4>3. \A v \in Int : v % One = 0 => (v + -5 * One) % One = 0 /\ (v + 5 * One) % One = 0
        BY DEF One
      <4>4. Tuned[Parameter_flag] \in Ints => Flash[Tuned[Parameter_flag]] % One = 0
        BY <4>2 DEF WholeInts
      <4>5. Flash[Tuned[Parameter_flag]] \in Int
        BY <4>2
      <4> QED
        BY <4>3, <4>4, <4>5 DEF Stepped
    <3> QED
      BY <1>3, <3>1 DEF tune, WholeInts
  <2>2. Lines(Flash') \in Seq(Line)
    BY <2>1, LinesType
  <2> QED
    BY <1>3, <2>1, <2>2 DEF tune, Text
<1>4. CASE file_open \/ file_open_fails \/ file_close_fails
  <2>1. <<>> \in Seq(Line)
    OBVIOUS
  <2>2. CASE file_open
    BY <2>1, <2>2 DEF file_open
  <2>3. CASE file_open_fails
    BY <2>1, <2>3 DEF file_open_fails, AfterSave
  <2>4. CASE file_close_fails
    BY <2>1, <2>4 DEF file_close_fails, AfterSave
  <2> QED
    BY <1>4, <2>2, <2>3, <2>4
<1>5. CASE write_string
  BY <1>5 DEF write_string
<1>6. CASE file_close
  <2>1. AsWritten(Load(Lines(Flash))) = AsWritten(Flash)
    BY LoadLines
  <2> QED
    BY <1>6, <2>1 DEF file_close, AfterSave
<1>7. CASE sigint
  <2>1. AsWritten(Load(Lines(Flash))) = AsWritten(Flash)
    BY LoadLines
  <2> QED
    BY <1>7, <2>1, DefaultAssumption DEF WholeInts, sigint, Ends, BetweenSaves
<1>8. CASE kill
  BY <1>8, DefaultAssumption DEF WholeInts, kill, Ends, BetweenSaves
<1>9. CASE UNCHANGED vars
  BY <1>9 DEF vars
<1> QED
  BY <1>1, <1>2, <1>3, <1>4, <1>5, <1>6, <1>7, <1>8, <1>9 DEF Next

LEMMA Inductive == Spec => []IInv
    BY InitOK, StepOK, PTL DEF Spec

(* The file gives the parameters the program runs with whenever the keys   *)
(* are scanned, unless the last save could not open or fill it.            *)
THEOREM FileIsCurrentHolds == Spec => []FileIsCurrent
<1> IInv => FileIsCurrent
  BY DEF IInv, CurrentOK, FileIsCurrent
<1> QED
  BY Inductive, PTL

(* A program ended between two saves, or by Ctrl-C while it closes the     *)
(* file, starts with the parameters it ended with.                         *)
THEOREM RestartKeepsHolds == Spec => RestartKeeps
<1>1. IInv /\ [Next]_vars =>
        [pc = "load" /\ pc' # "load" /\ idle = 1 => AsWritten(Flash') = owed]_vars
  BY DEF IInv, OwedOK, Next, Param_Init, key_scan, tune, file_open, file_open_fails,
         write_string, file_close, file_close_fails, sigint, kill, Ends
<1> QED
  BY <1>1, Inductive, PTL DEF Spec, RestartKeeps

(* Param_SaveSingle changes the one parameter, whatever file it meets.     *)
THEOREM SingleKeepsOthersHolds == Spec => []SingleKeepsOthers
<1>1. IInv => SingleKeepsOthers
  BY SaveSingleLoads, BoundAssumption DEF IInv, ValuesOK, SingleKeepsOthers
<1> QED
  BY <1>1, Inductive, PTL
----------------------------------------------------------------------------
(* What TypeOK adds to the values of the invariant.                        *)
MenuOK == oled_flag \in 0 .. 4 /\ Parameter_flag \in Nat /\ edges \subseteq {Minus, Plus}
PlaceOK == pc \in Places /\ failed \in {0, 1} /\ idle \in {0, 1}
SavedOK == saved \in Seq(Line) /\ owed \in [Keys -> Int]

LEMMA MenuStepOK == ASSUME MenuOK, [Next]_vars PROVE MenuOK'
<1> USE DEF MenuOK, menu
<1>1. CASE key_scan
  <2>1. PICK pressed : /\ Parameter_flag' = Entry(pressed) /\ oled_flag' = Page(pressed)
                       /\ edges' = pressed \cap {Minus, Plus}
    BY <1>1 DEF key_scan
  <2>2. Entry(pressed) \in Nat
    BY DEF Entry
  <2>3. Page(pressed) \in 0 .. 4
    BY DEF Page
  <2> QED
    BY <2>1, <2>2, <2>3
<1>2. CASE tune
  BY <1>2 DEF tune
<1>3. CASE Param_Init \/ file_open \/ file_open_fails \/ write_string \/ file_close
           \/ file_close_fails
  BY <1>3 DEF Param_Init, file_open, file_open_fails, write_string, file_close, file_close_fails
<1>4. CASE sigint \/ kill
  BY <1>4 DEF sigint, kill, Ends
<1>5. CASE UNCHANGED vars
  BY <1>5 DEF vars
<1> QED
  BY <1>1, <1>2, <1>3, <1>4, <1>5 DEF Next

LEMMA PlaceStepOK == ASSUME PlaceOK, [Next]_vars PROVE PlaceOK'
    BY DEF PlaceOK, Places, Next, Param_Init, key_scan, tune, file_open, file_open_fails,
           write_string, file_close, file_close_fails, sigint, kill, Ends, AfterSave, last, vars

LEMMA SavedStepOK == ASSUME ValuesOK, SavedOK, [Next]_vars PROVE SavedOK'
<1> USE DEF SavedOK, ValuesOK, last
<1>1. AsWritten(Flash) \in [Keys -> Int]
  BY WrittenAgain DEF AsWritten
<1>2. CASE sigint \/ kill
  BY <1>1, <1>2 DEF sigint, kill, Ends
<1>3. CASE Param_Init \/ file_close
  BY <1>3, DefaultAssumption DEF Param_Init, file_close
<1>4. CASE key_scan \/ tune \/ file_open \/ file_open_fails \/ write_string \/ file_close_fails
  BY <1>4 DEF key_scan, tune, file_open, file_open_fails, write_string, file_close_fails
<1>5. CASE UNCHANGED vars
  BY <1>5 DEF vars
<1> QED
  BY <1>2, <1>3, <1>4, <1>5 DEF Next

(* Flash holds numbers and the file holds lines, after any restart and     *)
(* whatever the menu shows: the page shown is one of the five there are.   *)
THEOREM TypesHold == Spec => []TypeOK
<1>1. Init => MenuOK /\ PlaceOK /\ SavedOK
  BY FilesAssumption, DefaultAssumption DEF Init, MenuOK, PlaceOK, Places, SavedOK
<1>2. IInv /\ MenuOK /\ PlaceOK /\ SavedOK /\ [Next]_vars => MenuOK' /\ PlaceOK' /\ SavedOK'
  BY MenuStepOK, PlaceStepOK, SavedStepOK DEF IInv
<1>3. IInv /\ MenuOK /\ PlaceOK /\ SavedOK => TypeOK
  BY DEF IInv, ValuesOK, MenuOK, PlaceOK, SavedOK, TypeOK
<1> QED
  BY <1>1, <1>2, <1>3, Inductive, PTL DEF Spec
====
