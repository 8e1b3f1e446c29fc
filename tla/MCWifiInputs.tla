---------------------------- MODULE MCWifiInputs ----------------------------
(***************************************************************************)
(* The inputs the Wi-Fi side is checked over: the characters of the boot  *)
(* parameter, the text after it, the wiphys and the scan parameters.      *)
(***************************************************************************)
EXTENDS Naturals

\* '0' '9' 'A' 'F' 'a' 'f' and their neighbours '/' '@' 'g', and ':'.
MCChars == {48, 57, 65, 70, 97, 102, 47, 64, 103, 58}

\* " console" after the parameter.
MCRest == <<32, 99, 111, 110, 115, 111, 108, 101>>

\* Two wiphys: both bands, with a disabled channel and the rtw driver's 12 + 8
\* bitrates, and a 2.4 GHz band alone, all disabled, with 4 bitrates.
MCWiphys ==
    {[b2 |-> <<[freq |-> 2412, disabled |-> FALSE], [freq |-> 2437, disabled |-> TRUE]>>,
      b5 |-> <<[freq |-> 5180, disabled |-> FALSE]>>, r2 |-> 12, r5 |-> 8],
     [b2 |-> <<[freq |-> 2412, disabled |-> TRUE]>>, b5 |-> <<>>, r2 |-> 4, r5 |-> 0]}

\* The dual-band wiphys alone: the RTL8822CS registers both bands.
MCDualBandWiphys == {w \in MCWiphys : w.b5 # <<>>}

(* SSID lists: none, one over-long, one over-long before a valid one,   *)
(* more valid ones than the driver takes, more than WPA allows.           *)
MCSsidLists == {<<>>, <<33>>, <<33, 5>>, <<5, 5>>, <<5, 5, 5>>}

(* Frequency lists: none, unknown, a disabled channel, unknown before a  *)
(* known one, both bands, and more duplicates than the request holds.    *)
MCFreqLists == {<<>>, <<9999>>, <<2437>>, <<9999, 5180>>, <<5180, 2412>>,
                <<2412, 2412, 2412, 2412>>}

\* Extra IEs: none, a small buffer, and one over WIFI_SCAN_EXTRA_IE_LEN_MAX.
MCScanParams ==
    {[ssids |-> s, freqs |-> f, ieLen |-> ie[1], ieNull |-> ie[2]] :
        s \in MCSsidLists, f \in MCFreqLists,
        ie \in {<<0, TRUE>>, <<5, FALSE>>, <<600, FALSE>>}}
=============================================================================
