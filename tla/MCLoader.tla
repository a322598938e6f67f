----------------------------- MODULE MCLoader -----------------------------
(***************************************************************************)
(* Instances of Loader for TLC: two or three clients, three urls of which  *)
(* the first (a login) or the last (a logoff) may be left out of the       *)
(* cycles.                                                                 *)
(***************************************************************************)
EXTENDS Loader

Never == [u \in Urls |-> {FALSE}]
Always == [u \in Urls |-> {TRUE}]
Maybe == [u \in Urls |-> BOOLEAN]
AllButFirst == [u \in Urls |-> IF u = 0 THEN {FALSE} ELSE {TRUE}]
SleepAfterLast == [u \in Urls |-> IF u = urls_num - 1 THEN {TRUE} ELSE {FALSE}]

NoUrls == {}
Login == {0}
Logoff == {urls_num - 1}
LastTwo == {urls_num - 2, urls_num - 1}
LoginLogoff == {0, urls_num - 1}
AllUrls == Urls

NoKeys == {}
AddKeys == {"+", "*"}
AllKeys == {"m", "a", "+", "*"}
=============================================================================
