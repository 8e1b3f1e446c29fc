--------------------------------- MODULE MCWifi ---------------------------------
(***************************************************************************)
(* The Wi-Fi side checked in one model: the shared Wi-Fi/BT power        *)
(* control of wifi_dt.c (WifiBtPower), on a system booted with a          *)
(* well-formed mac_wifi= parameter, parsed once by mac_addr_set at boot   *)
(* (WifiMac), and the HDF adapter's address derivation and scan requests   *)
(* (WalAdapter), which run once the chip is powered.  The parse runs       *)
(* before any power call and shares no state with them: line is the boot  *)
(* parameter, and Boot a reboot with it.                                *)
(***************************************************************************)
EXTENDS WifiBtPower, WifiMac, WalAdapter, MCWifiInputs

VARIABLE line

WellFormedLines == {l \in Lines : WellFormed(l)}

\* The parameter of a boot the checked behaviour does not vary.
AnyWellFormedLine == CHOOSE l \in WellFormedLines : TRUE

\* A reboot: the boot loader passes the same command line, which
\* mac_addr_set parses again; nothing else of the driver has run yet.
Boot == UNCHANGED <<wvars, line>>

MCSpec == WInit /\ line \in WellFormedLines /\ [][(WNext /\ UNCHANGED line) \/ Boot]_<<wvars, line>>

MCFairSpec == MCSpec /\ WFairness

(* A well-formed mac_wifi= parameter, in either letter case, sets WIFI_MAC *)
(* to the address it spells (mac_addr_set with chartonum).                 *)
MacMatchesReference == MacAddrSet(line).mac = RefMac(line)

(* Once the chip is powered the adapter may derive interface addresses: *)
(* each is the base address plus its type's index, with the carry taken  *)
(* across all six bytes (wal_get_dev_addr).                               *)
DevAddrMatchesReference == Powered(pin1, pin2) => DevAddrAllMatchReference

(* Once the chip is powered the adapter may start scans: WalStartScan    *)
(* starts exactly the scans the reference accepts, on the reference's     *)
(* channels, and frees every block of a failed one exactly once.          *)
ScanMatchesReference ==
    Powered(pin1, pin2) => ScanAllMatchReference /\ ScanAllAllocationsBalanced

(* Once the chip is powered the HDF layer reads the hardware capability:  *)
(* WalGetHwCapability reports the 2.4 GHz then the 5 GHz bitrates, every   *)
(* write inside its rate array, and at most MAX_SUPPORTED_RATE of them.     *)
HwCapabilityMatchesReference == Powered(pin1, pin2) => HwCapabilityAllMatchReference
=============================================================================
