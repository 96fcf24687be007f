------------------------------ MODULE MCLocal ------------------------------
(***************************************************************************)
(* The parts that serve one user action at a time on the local machine:    *)
(* the accounts, the media of a call, the ringtone, the call history and   *)
(* the contacts.  They share no state; LocalInit chooses one, and only its *)
(* actions are taken.  Init, Next and vars are those of the accounts.      *)
(***************************************************************************)
EXTENDS Accounts, CallMedia, Ringtone, History, Contacts

VARIABLE part     \* the part this behaviour is about

LocalInit ==
  /\ part \in {"accounts", "media", "ringtone", "history", "contacts"}
  /\ Init /\ MediaInit /\ RingtoneInit /\ HistoryInit /\ ContactsInit

AccountsStep ==
  part = "accounts" /\ Next /\ UNCHANGED <<part, mediaVars, ringtoneVars, historyVars, contactsVars>>

MediaStep ==
  part = "media" /\ MediaNext /\ UNCHANGED <<part, vars, ringtoneVars, historyVars, contactsVars>>

RingtoneStep ==
  part = "ringtone" /\ RingtoneNext /\ UNCHANGED <<part, vars, mediaVars, historyVars, contactsVars>>

HistoryStep ==
  part = "history" /\ HistoryNext /\ UNCHANGED <<part, vars, mediaVars, ringtoneVars, contactsVars>>

ContactsStep ==
  part = "contacts" /\ ContactsNext /\ UNCHANGED <<part, vars, mediaVars, ringtoneVars, historyVars>>

LocalNext == AccountsStep \/ MediaStep \/ RingtoneStep \/ HistoryStep \/ ContactsStep

localVars == <<part, vars, mediaVars, ringtoneVars, historyVars, contactsVars>>

LocalSpec == LocalInit /\ [][LocalNext]_localVars
=============================================================================
