---------------------------- MODULE MCLinkSockets ----------------------------
(***************************************************************************)
(* Two slots for three clients, two of which have something to say and one *)
(* of which may hang up, while a file is fed and the guest sends twice.    *)
(***************************************************************************)
EXTENDS LinkSockets

CONSTANTS none, leaver, sender, idle, nobody, file

MCBytes == {0, 1}
MCClients == {leaver, sender, idle}
MCText == [o \in MCClients \cup {file} |->
             CASE o = leaver -> <<1, 0>> [] o = sender -> <<1>>
               [] o = file -> <<0>> [] OTHER -> <<>>]
MCGuestText == <<1, 0>>
MCLeavers == {leaver}
MCGuestMasks == {{"rx"}}
==============================================================================
