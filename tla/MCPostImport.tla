---------------------------- MODULE MCPostImport ----------------------------
(***************************************************************************)
(* Instances of PostImport: every layout of a Linux guest, Windows guests  *)
(* with and without a recovery partition and BitLocker, Fortigate guests.  *)
(***************************************************************************)
EXTENDS PostImport

Layouts ==
    {g \in GuestOS :
        CASE g.os = "linux"     -> g.bitlocker = "off"
          [] g.os = "windows"   -> g.root = "plain" /\ g.extra \in {"none", "plain"}
          [] g.os = "fortigate" -> g.root # "none" /\ g.extra = "none" /\ g.bitlocker = "off"}
=============================================================================
