----------------------------- MODULE MCWifiMacBoot -----------------------------
(***************************************************************************)
(* The mac_wifi= parameter as the boot loader gives it: one command line, *)
(* fixed at boot, parsed once by mac_addr_set (a __setup handler); no     *)
(* step follows.                                                           *)
(***************************************************************************)
EXTENDS WifiMac

VARIABLE line

\* '0' '9' 'A' 'F' 'a' 'f' and their neighbours '/' '@' 'g', and ':'.
MCChars == {48, 57, 65, 70, 97, 102, 47, 64, 103, 58}

\* " console" after the parameter.
MCRest == <<32, 99, 111, 110, 115, 111, 108, 101>>

BootInit == line \in Lines

BootSpec == BootInit /\ [][FALSE]_line

(* WIFI_MAC is taken from the parameter alone, whatever the parameter:   *)
(* mac_addr_set reads no character after the NUL that ends its value,    *)
(* and copies no byte of mac[] that the loop did not write.                *)
MacFromParameter ==
    /\ MacAddrSet(line).read <= Len(line)
    /\ \A j \in 1..MacLen : MacAddrSet(line).mac[j] # Garbage
=============================================================================
