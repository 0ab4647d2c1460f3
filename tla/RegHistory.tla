----------------------------- MODULE RegHistory -----------------------------
(***************************************************************************)
(* The file names that were used (HistoryComboBox.cpp): a box of a dialog  *)
(* reads them from a key of the registry when it is created and writes     *)
(* them back when the window is destroyed, through a TRegistry             *)
(* (TRegisry.cpp).  Each call to the registry is a step, and the program   *)
(* may be killed between two of them; what the registry holds stays.       *)
(*                                                                         *)
(* A key holds values, a name and a text each, in the order in which they  *)
(* were set.  The system enumerates them in that order or in the order of  *)
(* their names.  A name is the sequence of its digits; Blank stands for    *)
(* the space of a padded number, before every digit.  Two texts that       *)
(* differ in case only are one text (FindStringExact).                     *)
(***************************************************************************)
EXTENDS Naturals, SequencesExt

CONSTANTS Texts,      \* what is written into the box
          MaxItems,   \* 32: so many are kept
          Radix       \* 10: of the number in a value's name

ASSUME HistoryAssumption ==
  Radix \in Nat \ {0} /\ MaxItems \in 1 .. Radix * Radix    \* names have two digits

HKCU == "HKEY_CURRENT_USER"        \* what an empty RegKey opens
RegKey == "FilesLoadFrom"
Blank == 0
Foreign == [name |-> <<>>, text |-> "foreign"]

VARIABLES
  registry,   \* its keys: key -> the values in the order they were set
  byName,     \* TRUE: values are enumerated by name
  box,        \* the list of the combo box
  save,       \* the program: "off", "created", "on", or the loop of
              \* WriteComboToRegistry it is in
  sa,         \* the value names it has still to delete
  next,       \* the index of the next item to write
  whole       \* a history variable: what was last kept

rvars == <<registry, byName, box, save, sa, next, whole>>

HistoryInit ==
  /\ registry = [k \in {HKCU} |-> <<Foreign>>]
  /\ byName \in BOOLEAN
  /\ box = <<>> /\ save = "off" /\ sa = <<>> /\ next = 0 /\ whole = <<>>

-----------------------------------------------------------------------------
(* TRegistry                                                               *)

(* OpenKey, from the root: no path here begins with a backslash.  A key     *)
(* that does not exist is created, if the caller says so.                  *)
OpenKey(k, CanCreate) ==
  IF k \in DOMAIN registry \/ ~CanCreate THEN registry
  ELSE [x \in DOMAIN registry \cup {k} |-> IF x = k THEN <<>> ELSE registry[x]]

NameBefore(v, w) ==
  \E n \in 0 .. Len(v.name) :
    /\ n < Len(w.name) /\ SubSeq(v.name, 1, n) = SubSeq(w.name, 1, n)
    /\ n = Len(v.name) \/ v.name[n + 1] < w.name[n + 1]

(* Sorted by name: names differ.                                           *)
Sorted(s) ==
  LET order == CHOOSE p \in [DOMAIN s -> DOMAIN s] :
                 \A i, j \in DOMAIN s : i < j => NameBefore(s[p[i]], s[p[j]])
  IN  [i \in DOMAIN s |-> s[order[i]]]
Enumerated(k) == IF byName THEN Sorted(registry[k]) ELSE registry[k]

GetValueNames(k) == [i \in DOMAIN registry[k] |-> Enumerated(k)[i].name]

(* The place of the value with a name, or 0.                               *)
Place(k, name) == SelectInSeq(registry[k], LAMBDA v : v.name = name)

GetData(k, name) == registry[k][Place(k, name)].text
ReadStrings(k) == [i \in DOMAIN registry[k] |-> GetData(k, GetValueNames(k)[i])]

DeleteValue(k, name) ==
  registry' = [registry EXCEPT ![k] = IF Place(k, name) = 0 THEN @
                                      ELSE RemoveAt(@, Place(k, name))]

PutData(k, name, text) ==
  registry' = [registry EXCEPT ![k] =
    LET value == [name |-> name, text |-> text]
    IN IF Place(k, name) = 0 THEN Append(@, value) ELSE [@ EXCEPT ![Place(k, name)] = value]]

ItemNameUnpadded(i) ==      \* mutant: "Item %d"
  IF i < Radix THEN <<1 + i>> ELSE <<1 + i \div Radix, 1 + (i % Radix)>>

(* t.Format("Item %#2d", i)                                                *)
ItemName(i) ==
  <<IF i < Radix THEN Blank ELSE 1 + i \div Radix, 1 + (i % Radix)>>

-----------------------------------------------------------------------------
(* CHistoryComboBox                                                        *)

ReadComboFromRegistry(k) ==
  IF k \in DOMAIN OpenKey(k, FALSE) THEN ReadStrings(k) ELSE <<>>

(* OnCreate: RegKey is not set yet, so LoadHistory reads the root.         *)
OnCreate ==
  /\ save = "off"
  /\ box' = ReadComboFromRegistry(HKCU) /\ save' = "created"
  /\ UNCHANGED <<registry, byName, sa, next, whole>>

(* CreateHisoryComboBox goes on: SetRegKey and LoadHistory.                *)
CreateHisoryComboBox ==
  /\ save = "created"
  /\ box' = ReadComboFromRegistry(RegKey) /\ save' = "on"
  /\ UNCHANGED <<registry, byName, sa, next, whole>>

(* HistoryChanged: the text, if any, goes to the top.                      *)
HistoryChanged(text) ==
  /\ save = "on"
  /\ box' = <<text>> \o RemoveFirst(box, text)
  /\ UNCHANGED <<registry, byName, save, sa, next, whole>>

(* OnDestroy, SaveHistory, WriteComboToRegistry: to the list of names.     *)
SaveHistory ==
  /\ save = "on"
  /\ IF box = <<>> THEN save' = "off" /\ UNCHANGED <<registry, sa>>
     ELSE /\ save' = "deletes" /\ registry' = OpenKey(RegKey, TRUE)
          /\ sa' = IF RegKey \in DOMAIN registry THEN GetValueNames(RegKey) ELSE <<>>
  /\ UNCHANGED <<byName, box, next, whole>>

DeletesValue ==
  /\ save = "deletes"
  /\ IF sa = <<>> THEN save' = "writes" /\ UNCHANGED <<registry, sa>>
     ELSE /\ DeleteValue(RegKey, Head(sa))
          /\ sa' = Tail(sa) /\ UNCHANGED save
  /\ UNCHANGED <<byName, box, next, whole>>

ToKeep == SubSeq(box, 1, IF Len(box) < MaxItems THEN Len(box) ELSE MaxItems)

WritesString ==
  /\ save = "writes"
  /\ IF next < Len(ToKeep)
     THEN /\ PutData(RegKey, ItemName(next), ToKeep[next + 1])
          /\ next' = next + 1 /\ UNCHANGED <<box, save, whole>>
     ELSE /\ save' = "off" /\ box' = <<>> /\ next' = 0 /\ whole' = ToKeep
          /\ UNCHANGED registry
  /\ UNCHANGED <<byName, sa>>

(* The program is killed: what the registry holds then is kept.            *)
Killed ==
  /\ save # "off"
  /\ save' = "off" /\ box' = <<>> /\ sa' = <<>> /\ next' = 0
  /\ whole' = IF save \in {"deletes", "writes"} THEN ReadStrings(RegKey) ELSE whole
  /\ UNCHANGED <<registry, byName>>

HistoryNext ==
  \/ OnCreate \/ CreateHisoryComboBox \/ SaveHistory \/ DeletesValue \/ WritesString \/ Killed
  \/ \E text \in Texts : HistoryChanged(text)

HistorySpec == HistoryInit /\ [][HistoryNext]_rvars

-----------------------------------------------------------------------------
(* What the next start of the program will read is what was last saved, in *)
(* its order and cut to MaxItems (WriteComboToRegistry, HistoryComboBox    *)
(* .cpp:119-160).  A program that is killed while it saves leaves the end  *)
(* of the list before or the beginning of the new one, never a mixture,    *)
(* and the values of the root key, which an empty RegKey would open, are   *)
(* left alone.                                                             *)
HistorySurvives ==
  /\ save = "deletes" => IsSuffix(ReadStrings(RegKey), whole)
  /\ save = "writes" => IsPrefix(ReadStrings(RegKey), ToKeep)
  /\ save \notin {"deletes", "writes"} =>
       whole = IF RegKey \in DOMAIN registry THEN ReadStrings(RegKey) ELSE <<>>
  /\ registry[HKCU] = <<Foreign>>
=============================================================================
