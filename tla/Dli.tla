---------------------------------- MODULE Dli ----------------------------------
(***************************************************************************)
(* The device life information of common/dli.c: settings kept in an EEPROM *)
(* as two ini files and a table (the FAT) of two entries, one per file.    *)
(* dli_set() copies the current file into the other one with the setting   *)
(* changed and then writes the entry of that file with the next counter;   *)
(* at a start findLast() takes the valid entry with the newest counter.    *)
(*                                                                         *)
(* Power can be lost at any moment, also in the middle of a write: an      *)
(* entry that is half written has a wrong CRC, a file that is half written *)
(* is Torn.  A write may fail too (an I2C error, or a file that is full),  *)
(* after which the program goes on.  Reads do not fail.                    *)
(*                                                                         *)
(* The semaphore i2c_sem is held from the beginning to the end of each     *)
(* call, so one call is in progress at a time.  The two arguments of       *)
(* ini_setString(currIni(), nextIni(), ...) are evaluated from left to     *)
(* right.                                                                  *)
(***************************************************************************)
EXTENDS Integers

CONSTANTS
  Keys,     \* the settings that are kept in the ini files
  Texts,    \* the texts of their values
  Missing,  \* a key that is not in the file
  Torn,     \* the content of a file that was written in part
  Half      \* half the range of FatEntry.counter (2^31)

Contents == [Keys -> Texts \cup {Missing}]
Empty == [k \in Keys |-> Missing]

ASSUME DliAssumption ==
  /\ Missing \notin Texts
  /\ Torn \notin Contents
  /\ Half \in Nat \ {0, 1}

VARIABLES
  fat,         \* EEPROM: the two entries, with whether fat_read() accepts them
  files,       \* EEPROM: the contents of the two ini files
  last_entry,  \* RAM: the FatEntry of the current file
  pc,          \* where the call in progress is; "off" without power
  unit,        \* dli_reset(): what it erases next
  before,      \* ghost: the settings that a restart would have found before
               \* the last call that changes them,
  after,       \* and those that the call was to leave
  agreed       \* ghost: since the last start, each dli_set() was called when
               \* last_entry named the file that the FAT names

dliVars == <<fat, files, last_entry, pc, unit, before, after, agreed>>

Counter == 0..(2 * Half - 1)
Entry == [valid : BOOLEAN, counter : Counter, last_file : {0, 1}]

(* fat_default(), and what an entry that fat_read() refuses stands for. *)
Bad == [valid |-> FALSE, counter |-> 0, last_file |-> 0]

(* mutant: the counters are compared as they are, without wrapping *)
Newer_mutant(a, b) == a > b

(* (int32_t)a - (int32_t)b > 0: the difference of two counters, wrapped,   *)
(* as a signed number.                                                     *)
Newer(a, b) ==
  \/ a > b /\ a - b < Half
  \/ a < b /\ b - a > Half

findLast(f) ==
  IF ~f[0].valid /\ ~f[1].valid THEN Bad
  ELSE IF ~f[0].valid THEN f[1]
  ELSE IF ~f[1].valid THEN f[0]
  ELSE IF Newer(f[0].counter, f[1].counter) THEN f[0] ELSE f[1]

(* The settings that a restart would find. *)
Found == files[findLast(fat).last_file]

nextIni == 1 - last_entry.last_file

(* What ini_setString() makes of a file: the line of the key is replaced,  *)
(* or added.  A torn file gives an output nobody can rely on.              *)
ini_setString(in, k, v) == IF in = Torn THEN Torn ELSE [in EXCEPT ![k] = v]

DliInit ==
  /\ fat = [i \in {0, 1} |-> Bad]
  /\ files = [i \in {0, 1} |-> Empty]
  /\ last_entry = Bad
  /\ pc = "off"
  /\ unit = 0
  /\ before = Empty
  /\ after = Empty
  /\ agreed = TRUE

dli_init ==
  /\ pc = "off"
  /\ pc' = "idle"
  /\ last_entry' = findLast(fat)
  /\ before' = Found
  /\ after' = Found
  /\ agreed' = TRUE
  /\ UNCHANGED <<fat, files, unit>>

(* dli_set() until ini_setString() begins to write: last_entry already     *)
(* names the other file.                                                   *)
dli_set(k, v) ==
  /\ pc = "idle"
  /\ pc' = "copy"
  /\ after' = ini_setString(files[last_entry.last_file], k, v)
  /\ last_entry' = [last_entry EXCEPT !.last_file = nextIni]
  /\ before' = Found
  /\ agreed' = (agreed /\ last_entry.last_file = findLast(fat).last_file)
  /\ UNCHANGED <<fat, files, unit>>

(* fat_update(): the entry that fat_write() is to write. *)
fat_update ==
  [last_entry EXCEPT
     !.valid = TRUE,
     !.counter = IF @ = 2 * Half - 1 THEN 0 ELSE @ + 1]

(* ini_setString() ends and fat_update() begins. *)
CopyDone ==
  /\ pc = "copy"
  /\ pc' = "fat"
  /\ files' = [files EXCEPT ![last_entry.last_file] = after]
  /\ last_entry' = fat_update
  /\ UNCHANGED <<fat, unit, before, after, agreed>>

(* ini_setString() returns EOF, having written part of the file or nothing *)
(* at all, and dli_set() returns false: last_entry keeps naming that file. *)
CopyFails ==
  /\ pc = "copy"
  /\ pc' = "idle"
  /\ \E c \in {files[last_entry.last_file], Torn} :
       files' = [files EXCEPT ![last_entry.last_file] = c]
  /\ after' = before
  /\ UNCHANGED <<fat, last_entry, unit, before, agreed>>

(* fat_write() succeeds and dli_set() returns true. *)
FatDone ==
  /\ pc = "fat"
  /\ pc' = "idle"
  /\ fat' = [fat EXCEPT ![last_entry.last_file] = last_entry]
  /\ before' = after
  /\ UNCHANGED <<files, last_entry, unit, after, agreed>>

(* What a write of an entry that was not completed has left: it is not     *)
(* known how much of it has reached the EEPROM.                            *)
FatInPart(e) == {fat[e.last_file], Bad, e}

(* fat_write() fails and dli_set() returns false. *)
FatFails ==
  /\ pc = "fat"
  /\ pc' = "idle"
  /\ \E e \in FatInPart(last_entry) :
       fat' = [fat EXCEPT ![last_entry.last_file] = e]
  /\ UNCHANGED <<files, last_entry, unit, before, after, agreed>>

dli_reset ==
  /\ pc = "idle"
  /\ pc' = "erase"
  /\ unit' = 0
  /\ agreed' = FALSE
  /\ UNCHANGED <<fat, files, last_entry, before, after>>

(* One loop of dli_reset(), up to its end or to where it is interrupted:   *)
(* the loops erase the two entries and then the two files.                 *)
EraseUnit ==
  \/ /\ unit < 2
     /\ \E e \in {fat[unit], Bad} : fat' = [fat EXCEPT ![unit] = e]
     /\ UNCHANGED files
  \/ /\ unit >= 2
     /\ \E c \in {files[unit - 2], Torn, Empty} :
          files' = [files EXCEPT ![unit - 2] = c]
     /\ UNCHANGED fat

(* A write that fails ends its loop as the end of the device does, and the *)
(* next loop begins.  last_entry stays as it is.                           *)
Erase ==
  /\ pc = "erase"
  /\ EraseUnit
  /\ IF unit = 3
     THEN /\ pc' = "idle"
          /\ unit' = 0
          /\ before' = Empty
          /\ after' = Empty
          /\ agreed' = \A i \in {0, 1} : ~fat'[i].valid /\ files'[i] = Empty
     ELSE /\ unit' = unit + 1
          /\ UNCHANGED <<pc, before, after, agreed>>
  /\ UNCHANGED last_entry

(* Nothing, a part or all of the write in progress has reached the EEPROM. *)
PowerLoss ==
  /\ pc # "off"
  /\ pc' = "off"
  /\ \/ /\ pc = "idle"
        /\ UNCHANGED <<fat, files>>
     \/ /\ pc = "copy"
        /\ \E c \in {files[last_entry.last_file], Torn, after} :
             files' = [files EXCEPT ![last_entry.last_file] = c]
        /\ UNCHANGED fat
     \/ /\ pc = "fat"
        /\ \E e \in FatInPart(last_entry) :
             fat' = [fat EXCEPT ![last_entry.last_file] = e]
        /\ UNCHANGED files
     \/ pc = "erase" /\ EraseUnit
  /\ unit' = 0
  /\ UNCHANGED <<last_entry, before, after, agreed>>

DliNext ==
  \/ dli_init
  \/ \E k \in Keys, v \in Texts : dli_set(k, v)
  \/ CopyDone
  \/ CopyFails
  \/ FatDone
  \/ FatFails
  \/ dli_reset
  \/ Erase
  \/ PowerLoss

DliSpec == DliInit /\ [][DliNext]_dliVars
-----------------------------------------------------------------------------
DliTypeOK ==
  /\ fat \in [{0, 1} -> Entry]
  /\ files \in [{0, 1} -> Contents \cup {Torn}]
  /\ last_entry \in Entry
  /\ pc \in {"off", "idle", "copy", "fat", "erase"}
  /\ unit \in 0..3
  /\ before \in Contents \cup {Torn}
  /\ after \in Contents \cup {Torn}
  /\ agreed \in BOOLEAN

(* Wherever power is lost, a restart finds the settings as they were       *)
(* before the last call that changes them or as that call was to leave     *)
(* them: never a mixture, never a file written in part, and exactly what   *)
(* was stored once dli_set() has returned true.  This holds across the     *)
(* wrap of the counter, and after a dli_set() that failed as long as no    *)
(* other one follows before a restart (agreed): last_entry is not set back *)
(* and the next call would overwrite the only good file.                   *)
Recoverable == agreed => Found \in {before, after}
=============================================================================
