--------------------------------- MODULE Config ---------------------------------
(***************************************************************************)
(* The running configuration of common/config.c on top of the stored       *)
(* settings of Dli: the variables that config_load() fills at a start and  *)
(* that the command dli_set changes together with the stored text.  The    *)
(* variables are those of config_setInt(), with one default and one range. *)
(***************************************************************************)
EXTENDS Dli

CONSTANTS
  Known,    \* the keys that config_findEntry() finds in a registered table
  Words,    \* the texts that strtol() does not convert; the others are
            \* written as the number they are converted to
  Min, Max, \* parms[0].i and parms[2].i of the entries
  Default   \* default_val, as a number

ASSUME ConfigAssumption ==
  /\ Known \subseteq Keys
  /\ Words \subseteq Texts
  /\ Texts \ Words \subseteq Int
  /\ Min \in Int
  /\ Max \in Int
  /\ Default \in (Min..Max) \ Words

VARIABLES
  ram,      \* the configuration variables; without power, those of the last run
  troubled  \* ghost: in this run a call that changes the settings has failed,
            \* was interrupted, or was dli_reset(), or it began with a torn file

configVars == <<dliVars, ram, troubled>>

MINMAX(l, x, h) == IF x < l THEN l ELSE IF x > h THEN h ELSE x

(* mutant: a value out of range is refused when it is loaded *)
config_setInt_mutant(old, val, use_default) ==
  IF val \in Words \/ (use_default /\ val \notin Min..Max)
  THEN [ret |-> "SRV_CONV_ERR", var |-> IF use_default THEN Default ELSE old]
  ELSE [ret |-> "SRV_OK", var |-> MINMAX(Min, val, Max)]

config_setInt(old, val, use_default) ==
  IF val \in Words
  THEN [ret |-> "SRV_CONV_ERR", var |-> IF use_default THEN Default ELSE old]
  ELSE [ret |-> IF val \in Min..Max THEN "SRV_OK" ELSE "SRV_OK_CLAMPED",
        var |-> MINMAX(Min, val, Max)]

(* The texts that dli_get() may return for a key of a file: a torn file    *)
(* gives anything.                                                         *)
dli_get(file, k, default_val) ==
  IF file = Torn THEN Texts \cup {default_val}
  ELSE IF file[k] = Missing THEN {default_val} ELSE {file[k]}

ConfigInit ==
  /\ DliInit
  /\ ram = [k \in Known |-> Default]
  /\ troubled = FALSE

(* The start of the board: dli_init(), then config_load(). *)
Start ==
  /\ dli_init
  /\ \E text \in [Known -> Texts \cup {Default}] :
       /\ \A k \in Known : text[k] \in dli_get(Found, k, Default)
       /\ ram' = [k \in Known |-> config_setInt(ram[k], text[k], TRUE).var]
  /\ troubled' = (Found = Torn)

(* The command dli_set: the variable is set (clamped to its range), then   *)
(* the text is stored as it came.  A text that cannot be converted changes *)
(* nothing; an unknown key is stored without any check.                    *)
cmd_dli_set(k, v) ==
  /\ IF k \in Known
     THEN /\ config_setInt(ram[k], v, FALSE).ret # "SRV_CONV_ERR"
          /\ ram' = [ram EXCEPT ![k] = config_setInt(@, v, FALSE).var]
     ELSE UNCHANGED ram
  /\ dli_set(k, v)
  /\ UNCHANGED troubled

Stored == (CopyDone \/ FatDone) /\ UNCHANGED <<ram, troubled>>

(* The command replies with an error, or erases the settings: the          *)
(* variables keep the value they have.                                     *)
Failed == (CopyFails \/ FatFails) /\ troubled' = TRUE /\ UNCHANGED ram

cmd_dli_reset == (dli_reset \/ Erase) /\ troubled' = TRUE /\ UNCHANGED ram

Stop ==
  /\ PowerLoss
  /\ troubled' = (troubled \/ pc # "idle")
  /\ UNCHANGED ram

ConfigNext ==
  \/ Start
  \/ \E k \in Keys, v \in Texts : cmd_dli_set(k, v)
  \/ Stored
  \/ Failed
  \/ cmd_dli_reset
  \/ Stop

ConfigSpec == ConfigInit /\ [][ConfigNext]_configVars
-----------------------------------------------------------------------------
(* The board starts with the configuration it ran with when power was      *)
(* lost, also where a value was clamped when it was set, unless a call     *)
(* failed or was interrupted: each command changes the variable and the    *)
(* stored text, and config_load() must make of the text what the command   *)
(* made of it.                                                             *)
StartsAsItRan == [][Start /\ ~troubled => ram' = ram]_configVars
=============================================================================
