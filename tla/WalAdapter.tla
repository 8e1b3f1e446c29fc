------------------------------ MODULE WalAdapter ------------------------------
(***************************************************************************)
(* The RTL8822CS HDF Wi-Fi adapter (wal_mac80211.c, net_adapter.c): the   *)
(* parts that compute something rather than forward a call to the rtw     *)
(* driver.  wal_get_dev_addr derives each interface's MAC address from    *)
(* the base address with a byte-wise carry, and WalStartScan builds a     *)
(* cfg80211_scan_request from the HDF parameters, with an allocation per  *)
(* part that may fail, and frees it on every error path.  Both are pure   *)
(* functions of their inputs and of the allocation outcomes; they are     *)
(* checked against reference definitions over bounded inputs.             *)
(***************************************************************************)
EXTENDS Integers, Sequences, FiniteSets
LOCAL INSTANCE SequencesExt
LOCAL INSTANCE Functions

CONSTANTS
    WpasMaxScanSsids,     \* WPAS_MAX_SCAN_SSIDS (HDF header, not in the repository)
    DriverMaxScanSsids,   \* DRIVER_MAX_SCAN_SSIDS (idem)
    MacBytes,             \* the byte values each position of a base address takes
    IfTypes,              \* interface types asked for, supported or not
    Wiphys,               \* wiphys (band and channel tables) scanned on
    ScanParams,           \* WlanScanRequest parameters: ssids, freqs, ieLen, ieNull
    MaxSupportedRate,     \* MAX_SUPPORTED_RATE (HDF header, not in the repository)
    Band2CanFail          \* the 2.4 GHz band table's allocation may fail

\* IEEE80211_MAX_SSID_LEN, and the size memcpy_s is given for an SSID.
MaxSsidLen == 32

\* WIFI_SCAN_EXTRA_IE_LEN_MAX
ScanExtraIeLenMax == 512

-----------------------------------------------------------------------------
(* wal_get_dev_addr_idx: the address index of each interface type;       *)
(* WAL_ADDR_IDX_BUTT (4) for a type it does not support.                  *)
AddrIdxButt == 4

WalGetDevAddrIdx(type) ==
    CASE type = "station" -> 0
      [] type \in {"ap", "p2pClient", "p2pGo", "mesh"} -> 1
      [] type = "p2pDevice" -> 3
      [] OTHER -> AddrIdxButt

\* Byte k reduced without carrying into k - 1, as a copy of the low-byte step alone would do.
CarryDropped(a, k) == [a EXCEPT ![k] = @ % 256]

\* Propagation of the carry out of byte k (1-based, 6 is the lowest) into k - 1.
CarryInto(a, k) ==
    [a EXCEPT ![k - 1] = @ + ((a[k] \div 256) % 2), ![k] = @ % 256]

RECURSIVE CarryChain(_, _)
CarryChain(a, k) == IF k < 2 THEN a ELSE CarryChain(CarryInto(a, k), k - 1)

(* wal_get_dev_addr: base address plus the index in the lowest byte,     *)
(* carried upwards byte by byte; a carry out of byte 0 makes it 0, and    *)
(* the multicast bit is cleared.                                          *)
WalGetDevAddr(base, type) ==
    LET idx == WalGetDevAddrIdx(type)
        a   == CarryChain([base EXCEPT ![6] = @ + idx], 6)
        b0  == IF a[1] > 255 THEN 0 ELSE a[1]
    IN IF idx >= AddrIdxButt THEN [ok |-> FALSE]
       ELSE [ok |-> TRUE, addr |-> [a EXCEPT ![1] = b0 - (b0 % 2)]]

\* mac_addr_is_zero
MacAddrIsZero(a) == \A i \in 1..6 : a[i] = 0

\* rtl_macaddr_check: an address is usable if it is not zero and not multicast.
RtlMacaddrCheck(a) == ~MacAddrIsZero(a) /\ a[1] % 2 = 0

Zero == [i \in 1..6 |-> 0]

(* rtl_set_dev_addr_from_efuse: an efuse address that passes the check   *)
(* becomes the base address g_dev_addr and sets efuse_mac_exist; one that *)
(* fails leaves both as they were at load (zero, 0).                      *)
RtlSetDevAddrFromEfuse(a) ==
    IF RtlMacaddrCheck(a) THEN [ok |-> TRUE, exist |-> TRUE, base |-> a]
    ELSE [ok |-> FALSE, exist |-> FALSE, base |-> Zero]

(* WalGetDeviceMacAddr: not supported without an efuse address, else the *)
(* address wal_get_dev_addr derives for the type.                          *)
WalGetDeviceMacAddr(exist, base, type) ==
    LET r == WalGetDevAddr(base, type) IN
    CASE ~exist -> [ret |-> "notSupport"]
      [] r.ok   -> [ret |-> "success", addr |-> r.addr]
      [] OTHER  -> [ret |-> "failure"]

-----------------------------------------------------------------------------
(* A wiphy is its 2.4 GHz and 5 GHz bands (either may be absent, <<>>),  *)
(* each a sequence of channels [freq, disabled].  A channel is named by   *)
(* its band and position.                                                 *)
Bands == <<"b2", "b5">>

ChannelsOf(w) ==
    [b \in 1..2 |-> [i \in 1..Len(w[Bands[b]]) |-> [band |-> Bands[b], pos |-> i]]]

Chan(w, c) == w[c.band][c.pos]

\* ieee80211_get_num_supported_channels: every channel of every band.
NumSupportedChannels(w) == Len(w.b2) + Len(w.b5)

(* GetChannelByFreq: the first channel, band by band, with that centre  *)
(* frequency, as a one-element set, or {} for NULL.                       *)
GetChannelByFreq(w, f) ==
    LET all == ChannelsOf(w)[1] \o ChannelsOf(w)[2]
        k   == SelectInSeq(all, LAMBDA c : Chan(w, c).freq = f)
    IN IF k = 0 THEN {} ELSE {all[k]}

(* WifiScanSetChannel with no frequencies: the enabled channels of both  *)
(* bands, the inner loop stopping at channelTotal.                        *)
RECURSIVE AllChannelsLoop(_, _, _, _)
AllChannelsLoop(w, chs, k, acc) ==
    IF k > Len(chs) THEN acc
    ELSE IF Len(acc) >= NumSupportedChannels(w) THEN acc
    ELSE IF Chan(w, chs[k]).disabled THEN AllChannelsLoop(w, chs, k + 1, acc)
    ELSE AllChannelsLoop(w, chs, k + 1, Append(acc, chs[k]))

\* ... and with a list of frequencies: those found, until channelTotal.
RECURSIVE FreqLoop(_, _, _, _)
FreqLoop(w, fs, k, acc) ==
    IF k > Len(fs) THEN acc
    ELSE LET c == GetChannelByFreq(w, fs[k]) IN
         IF c = {} THEN FreqLoop(w, fs, k + 1, acc)
         ELSE IF Len(acc) >= NumSupportedChannels(w) THEN acc
         ELSE FreqLoop(w, fs, k + 1, Append(acc, CHOOSE x \in c : TRUE))

\* WifiScanSetChannel: the channels, or failure when there are none.
WifiScanSetChannel(w, p) ==
    LET chs == IF p.freqs = <<>>
                 THEN AllChannelsLoop(w, ChannelsOf(w)[2],
                                      1, AllChannelsLoop(w, ChannelsOf(w)[1], 1, <<>>))
                 ELSE FreqLoop(w, p.freqs, 1, <<>>)
    IN [ok |-> chs # <<>>, channels |-> chs]

\* The SSID copy loop: valid SSIDs (length <= 32) up to DRIVER_MAX_SCAN_SSIDS.
RECURSIVE SsidLoop(_, _, _)
SsidLoop(lens, k, count) ==
    IF k > Len(lens) \/ count >= DriverMaxScanSsids THEN count
    ELSE IF lens[k] > MaxSsidLen THEN SsidLoop(lens, k + 1, count)
    ELSE SsidLoop(lens, k + 1, count + 1)

(* WifiScanSetSsid: too many SSIDs fail; none is success with no array; *)
(* otherwise an array of ssidCount entries (which may fail to allocate)   *)
(* holding the SSIDs the loop keeps.                                      *)
WifiScanSetSsid(p, req, ssidsOk) ==
    LET n == Len(p.ssids) IN
    IF n > WpasMaxScanSsids THEN [ok |-> FALSE, req |-> req]
    ELSE IF n = 0 THEN [ok |-> TRUE, req |-> req]
    ELSE IF ~ssidsOk THEN [ok |-> FALSE, req |-> req]
    ELSE [ok |-> TRUE,
          req |-> [req EXCEPT !.ssids = n, !.nSsids = SsidLoop(p.ssids, 1, 0),
                           !.allocs = Append(@, "ssids")]]

(* WifiScanSetUserIe: an over-long IE list fails; a present one is copied *)
(* into a new buffer; if that allocation fails, an IE buffer already on   *)
(* the request is freed.                                                  *)
WifiScanSetUserIe(p, req, ieOk) ==
    IF p.ieLen > ScanExtraIeLenMax THEN [ok |-> FALSE, req |-> req, frees |-> <<>>]
    ELSE IF p.ieNull \/ p.ieLen = 0 THEN [ok |-> TRUE, req |-> req, frees |-> <<>>]
    ELSE IF ~ieOk
      THEN [ok |-> FALSE, req |-> [req EXCEPT !.ie = FALSE],
            frees |-> IF req.ie THEN <<"ie">> ELSE <<>>]
    ELSE [ok |-> TRUE, req |-> [req EXCEPT !.ie = TRUE, !.allocs = Append(@, "ie")],
          frees |-> <<>>]

(* WifiScanSetRequest on a zeroed request: n_ssids from the parameters,   *)
(* then channels, SSIDs and IEs, stopping at the first failure.  allocs   *)
(* lists the blocks allocated for the request, in order.                  *)
WifiScanSetRequest(w, p, alloc) ==
    LET req0 == [channels |-> <<>>, nSsids |-> Len(p.ssids), ssids |-> 0, ie |-> FALSE,
                 allocs |-> <<"req">>]
        chs  == WifiScanSetChannel(w, p)
        req1 == [req0 EXCEPT !.channels = chs.channels]
        ss   == WifiScanSetSsid(p, req1, alloc.ssids)
        ie   == WifiScanSetUserIe(p, ss.req, alloc.ie)
    IN CASE ~chs.ok -> [ok |-> FALSE, req |-> req1, frees |-> <<>>]
         [] ~ss.ok  -> [ok |-> FALSE, req |-> ss.req, frees |-> <<>>]
         [] OTHER   -> ie

\* WifiScanFree: the IE buffer, the SSID array, then the request itself.
WifiScanFree(req) ==
    (IF req.ie THEN <<"ie">> ELSE <<>>) \o (IF req.ssids > 0 THEN <<"ssids">> ELSE <<>>)
        \o <<"req">>

\* The blocks a request holds.
Held(req) ==
    {"req"} \cup (IF req.ie THEN {"ie"} ELSE {}) \cup (IF req.ssids > 0 THEN {"ssids"} ELSE {})

\* A start that frees the request only when filling it fails.
WalStartScanLeakOnScanFail(w, p, alloc, scanOk) ==
    IF ~alloc.req THEN [ret |-> FALSE, frees |-> <<>>, owned |-> {}, allocated |-> {}]
    ELSE LET r == WifiScanSetRequest(w, p, alloc)
         IN IF r.ok /\ scanOk
              THEN [ret |-> TRUE, frees |-> r.frees, owned |-> Held(r.req),
                    allocated |-> ToSet(r.req.allocs), req |-> r.req]
              ELSE [ret |-> FALSE, owned |-> {}, allocated |-> ToSet(r.req.allocs),
                    frees |-> r.frees \o (IF r.ok THEN <<>> ELSE WifiScanFree(r.req))]

(* WalStartScan: allocate the request for channelTotal channel pointers, *)
(* fill it, and hand it to cfg80211_rtw_scan; free it when filling or the *)
(* scan fails.  owned is what the rtw driver holds after a success.       *)
WalStartScan(w, p, alloc, scanOk) ==
    IF ~alloc.req THEN [ret |-> FALSE, frees |-> <<>>, owned |-> {}, allocated |-> {}]
    ELSE LET r == WifiScanSetRequest(w, p, alloc)
         IN IF r.ok /\ scanOk
              THEN [ret |-> TRUE, frees |-> r.frees, owned |-> Held(r.req),
                    allocated |-> ToSet(r.req.allocs), req |-> r.req]
              ELSE [ret |-> FALSE, frees |-> r.frees \o WifiScanFree(r.req), owned |-> {},
                    allocated |-> ToSet(r.req.allocs)]

-----------------------------------------------------------------------------
\* WalGet2GCapability / WalGet5GCapability: the band's bitrate count, 0 when its table is not allocated.
BandRates(n, ok) == IF ok THEN n ELSE 0

(* WalGetHwCapability: both band helpers read their wiphy band through   *)
(* the pointer, unchecked, so a wiphy without one of them (NULL) faults.  *)
(* Otherwise the rate count is the sum the band helpers return and the    *)
(* rate array is allocated for that many.  The first loop writes the      *)
(* 2.4 GHz rates up to band->n_bitrates, the second the 5 GHz rates from  *)
(* there up to the count; the count is then clamped.  writes holds the    *)
(* (index, rate) pairs written.                                            *)
WalGetHwCapability(w, alloc) ==
    LET cnt == BandRates(w.r2, alloc.b2) + BandRates(w.r5, alloc.b5)
    IN IF w.b2 = <<>> \/ w.b5 = <<>> THEN [ok |-> FALSE, crash |-> TRUE]
       ELSE IF ~alloc.rates THEN [ok |-> FALSE, crash |-> FALSE]
       ELSE [ok |-> TRUE, crash |-> FALSE, size |-> cnt,
             count |-> IF cnt > MaxSupportedRate THEN MaxSupportedRate ELSE cnt,
             writes |-> {<<i, <<"b2", i>>>> : i \in 0..(w.r2 - 1)}
                        \cup {<<i, <<"b5", i - w.r2>>>> : i \in w.r2..(cnt - 1)}]

-----------------------------------------------------------------------------
(***************************************************************************)
(* References.                                                             *)
(***************************************************************************)
MacBases == [1..6 -> MacBytes]

\* The next address: the last byte below 255 goes up by one, the ones after it to 0.
NextAddr(a) ==
    LET k == SelectLastInSeq(a, LAMBDA x : x < 255)
    IN [i \in 1..6 |-> IF i < k THEN a[i] ELSE IF i = k THEN a[i] + 1 ELSE 0]

RECURSIVE AddrPlus(_, _)
AddrPlus(a, n) == IF n = 0 THEN a ELSE AddrPlus(NextAddr(a), n - 1)

\* The address idx places after base, modulo 2^48, with the multicast bit cleared.
RefDevAddr(base, idx) ==
    LET a == AddrPlus(base, idx) IN [a EXCEPT ![1] = a[1] - (a[1] % 2)]

AllocOutcomes == [req : BOOLEAN, ssids : BOOLEAN, ie : BOOLEAN]

AllChannels(w) == ChannelsOf(w)[1] \o ChannelsOf(w)[2]

HasFreq(w, f) == \E i \in 1..Len(AllChannels(w)) : Chan(w, AllChannels(w)[i]).freq = f

(* The channels a scan asks for: every enabled one, or the first channel *)
(* of each requested frequency the wiphy has, as many as fit the request. *)
RefScanChannels(w, p) ==
    LET want == IF p.freqs = <<>>
                  THEN SelectSeq(AllChannels(w), LAMBDA c : ~Chan(w, c).disabled)
                  ELSE LET found == SelectSeq(p.freqs, LAMBDA f : HasFreq(w, f))
                       IN [i \in 1..Len(found) |->
                             AllChannels(w)[SelectInSeq(AllChannels(w),
                                              LAMBDA c : Chan(w, c).freq = found[i])]]
    IN SubSeq(want, 1, IF Len(want) < NumSupportedChannels(w) THEN Len(want)
                       ELSE NumSupportedChannels(w))

RefNSsids(p) ==
    LET valid == Len(SelectSeq(p.ssids, LAMBDA l : l <= MaxSsidLen))
    IN IF valid < DriverMaxScanSsids THEN valid ELSE DriverMaxScanSsids

\* When a scan is started: every part fits, every allocation and the scan succeed.
RefScanAccepted(w, p, alloc, scanOk) ==
    /\ alloc.req /\ scanOk
    /\ RefScanChannels(w, p) # <<>>
    /\ Len(p.ssids) <= WpasMaxScanSsids /\ (p.ssids = <<>> \/ alloc.ssids)
    /\ p.ieLen <= ScanExtraIeLenMax /\ (p.ieNull \/ p.ieLen = 0 \/ alloc.ie)

\* The number of entries of a 0-based array.
Len2(f) == Cardinality(DOMAIN f)

\* The rates a capability reports: the 2.4 GHz ones, then the 5 GHz ones of a band that was allocated.
RefRates(w, with5) ==
    [i \in 0..(w.r2 + (IF with5 THEN w.r5 ELSE 0) - 1) |->
        IF i < w.r2 THEN <<"b2", i>> ELSE <<"b5", i - w.r2>>]

ScanInputs == Wiphys \X ScanParams \X AllocOutcomes \X BOOLEAN

\* The result of WalStartScan on one input, bound once where it is inspected.
ScanOutcomes(w, p, alloc, scanOk) == {WalStartScan(w, p, alloc, scanOk)}

(* For every efuse address: without a usable one GetDeviceMacAddr is not *)
(* supported; with one, every interface address it derives is the efuse   *)
(* address plus the type's index, carried across all six bytes, with the  *)
(* multicast bit cleared, and an unsupported type gets none.             *)
DevAddrAllMatchReference ==
    \A a \in MacBases, t \in IfTypes :
        LET e == RtlSetDevAddrFromEfuse(a)
            g == WalGetDeviceMacAddr(e.exist, e.base, t)
            k == WalGetDevAddrIdx(t)
        IN CASE ~RtlMacaddrCheck(a) -> g.ret = "notSupport"
             [] k = AddrIdxButt      -> g.ret = "failure"
             [] OTHER                -> g.ret = "success" /\ g.addr = RefDevAddr(a, k)

(* WalStartScan starts a scan exactly when the reference accepts it, and *)
(* then with the reference's channels (never more than the request has    *)
(* room for) and the SSIDs the driver can take.                           *)
ScanAllMatchReference ==
    \A <<w, p, alloc, scanOk>> \in ScanInputs :
        \A r \in ScanOutcomes(w, p, alloc, scanOk) :
            /\ r.ret = RefScanAccepted(w, p, alloc, scanOk)
            /\ r.ret => /\ r.req.channels = RefScanChannels(w, p)
                        /\ r.req.nSsids = RefNSsids(p)

(* Whatever fails, WalStartScan frees each block it allocated exactly    *)
(* once, or leaves all of them to the rtw driver after a started scan.    *)
ScanAllAllocationsBalanced ==
    \A <<w, p, alloc, scanOk>> \in ScanInputs :
        \A r \in ScanOutcomes(w, p, alloc, scanOk) :
            /\ IsInjective(r.frees)
            /\ ToSet(r.frees) \cap r.owned = {}
            /\ ToSet(r.frees) \cup r.owned = r.allocated

(* WalGetHwCapability never faults, writes each rate once, inside the    *)
(* rate array, as the reference orders them, and reports at most          *)
(* MAX_SUPPORTED_RATE of them, whichever of the band tables and the rate  *)
(* array was allocated.                                                    *)
HwCapabilityAllMatchReference ==
    \A w \in Wiphys,
       alloc \in [b2 : IF Band2CanFail THEN BOOLEAN ELSE {TRUE}, b5 : BOOLEAN, rates : BOOLEAN] :
        LET r == WalGetHwCapability(w, alloc)
            ref == RefRates(w, alloc.b5)
        IN ~r.crash /\ r.ok = alloc.rates
           /\ r.ok => /\ r.writes = {<<i, ref[i]>> : i \in DOMAIN ref}
                      /\ \A wr \in r.writes : wr[1] < r.size
                      /\ r.count = IF Len2(ref) > MaxSupportedRate THEN MaxSupportedRate
                                   ELSE Len2(ref)
====
