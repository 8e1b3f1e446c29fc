----------------------------- MODULE BtVendorLib -----------------------------
(***************************************************************************)
(* The life cycle of the Realtek Bluetooth vendor library (init and       *)
(* cleanup of bt_vendor_rtk.c) and of its HCI snoop outputs               *)
(* (rtk_btsnoop_net.c): the btsnoop log file with its lock, and the UDP   *)
(* "net dump" with its listen thread.  The host stack calls init, then    *)
(* op many times, then cleanup, and may enable Bluetooth again.           *)
(*                                                                         *)
(* init reads the dump flags, then reads /vendor/etc/bluetooth/rtkbt.conf *)
(* twice (load_rtkbt_conf, then load_rtkbt_stack_conf), whose             *)
(* RtkBtsnoopDump, RtkBtsnoopNetDump and BtSnoopSaveLog keys set the      *)
(* flags, and opens the outputs the flags it read ask for.  cleanup reads *)
(* the flags again, closes those outputs and clears the flags.  The conf  *)
(* is a file of the image: it is the same at every init.  Paths,          *)
(* timestamps, the UART and the device node are left out; a file or       *)
(* socket is its state.  The snoop code is the one copy in the repository,*)
(* under unionpi_tiger; the vendor library is the a311d one.              *)
(***************************************************************************)
EXTENDS Naturals

CONSTANTS
    StackConfs,  \* rtkbt.conf as the image may hold it: [present, dump, netDump, saveLog]
    OpenOk,      \* outcomes of open() of the btsnoop file
    ThreadOk,    \* outcomes of pthread_create of the listen thread
    SocketOk,    \* outcomes of socket() and of bind() in the listen thread
    MaxCycles    \* bound on init calls

VARIABLES
    conf,         \* the conf file of this image
    dump,         \* rtk_btsnoop_dump
    netDump,      \* rtk_btsnoop_net_dump
    saveLog,      \* rtk_btsnoop_save_log
    cbacks,       \* bt_vendor_cbacks is set
    enabled,      \* the host stack has called init and not yet cleanup
    logFd,        \* hci_btsnoop_fd: "closed" (-1) or "open"
    logLock,      \* btsnoop_log_lock: "static" (never initialised), "inited", "destroyed"
    logOpened,    \* rtk_btsnoop_open ran in the current enable
    listenValid,  \* rtk_listen_thread_valid_
    listenPc,     \* the listen thread: "none", "running", "exited"
    listenSock,   \* rtk_listen_socket_: "none" (-1), "bound", "shut"
    cycles        \* init calls so far

vvars == <<conf, dump, netDump, saveLog, cbacks, enabled, logFd, logLock, logOpened,
           listenValid, listenPc, listenSock, cycles>>

VTypeOK ==
    /\ conf \in StackConfs
    /\ {dump, netDump, saveLog, cbacks, enabled, logOpened, listenValid} \subseteq BOOLEAN
    /\ logFd \in {"closed", "open"}
    /\ logLock \in {"static", "inited", "destroyed"}
    /\ listenPc \in {"none", "running", "exited"}
    /\ listenSock \in {"none", "bound", "shut"}
    /\ cycles \in 0..MaxCycles

(* The process starts with the library loaded: the flags at their static *)
(* initial values (all false), no output open.                            *)
VInit ==
    /\ conf \in StackConfs
    /\ dump = FALSE /\ netDump = FALSE /\ saveLog = FALSE
    /\ cbacks = FALSE /\ enabled = FALSE
    /\ logFd = "closed" /\ logLock = "static" /\ logOpened = FALSE
    /\ listenValid = FALSE /\ listenPc = "none" /\ listenSock = "none"
    /\ cycles = 0

(* load_rtkbt_stack_conf: a missing file changes nothing; "true" for       *)
(* RtkBtsnoopDump calls set_rtk_btsnoop_dump, for RtkBtsnoopNetDump        *)
(* set_rtk_btsnoop_net_dump, which assigns rtk_btsnoop_dump as well, and  *)
(* for BtSnoopSaveLog set_rtk_btsnoop_save_log.  No key clears a flag.    *)
LoadStackConf(c, f) ==
    IF ~c.present THEN f
    ELSE [dump |-> f.dump \/ c.dump \/ c.netDump, netDump |-> f.netDump,
          saveLog |-> f.saveLog \/ c.saveLog]

(* rtk_btsnoop_open: initialises the lock, returns if the file is already *)
(* open, else renames the old log and opens a new one, which may fail.    *)
BtsnoopOpen ==
    /\ logLock' = "inited"
    /\ logOpened' = TRUE
    /\ IF logFd = "open" THEN UNCHANGED logFd ELSE logFd' \in {IF ok THEN "open" ELSE "closed" : ok \in OpenOk}

(* rtk_btsnoop_close: destroys the lock, then closes the file if open.    *)
BtsnoopClose ==
    /\ logLock' = "destroyed"
    /\ logFd' = "closed"

(* rtk_btsnoop_net_open: starts the listen thread; pthread_create may fail.*)
NetOpen ==
    \E ok \in ThreadOk :
        /\ listenValid' = ok
        /\ listenPc' = IF ok THEN "running" ELSE listenPc

(* rtk_btsnoop_net_close: with a valid thread, shutdown of the socket and *)
(* a join; the socket is neither closed nor set back to -1.              *)
NetClose ==
    IF listenValid
    THEN /\ listenPc = "exited"
         /\ listenSock' = IF listenSock = "bound" THEN "shut" ELSE listenSock
         /\ listenValid' = FALSE
         /\ listenPc' = "none"
    ELSE UNCHANGED <<listenValid, listenPc, listenSock>>

(* init: the flags are read first; a NULL callback table returns -1       *)
(* before anything is loaded; otherwise both confs are loaded, the        *)
(* callbacks stored and the outputs the flags read at entry ask for       *)
(* opened.  load_rtkbt_conf only sets the device node and transport.      *)
init(cbNull) ==
    /\ ~enabled /\ cycles < MaxCycles
    /\ cycles' = cycles + 1
    /\ IF cbNull
       THEN UNCHANGED <<dump, netDump, saveLog, cbacks, enabled, logFd, logLock, logOpened,
                        listenValid, listenPc, listenSock>>
       ELSE LET f == LoadStackConf(conf, [dump |-> dump, netDump |-> netDump, saveLog |-> saveLog])
                d0 == dump
                n0 == netDump
            IN /\ dump' = f.dump /\ netDump' = f.netDump /\ saveLog' = f.saveLog
               /\ cbacks' = TRUE /\ enabled' = TRUE
               /\ IF d0 THEN BtsnoopOpen ELSE UNCHANGED <<logFd, logLock>> /\ logOpened' = FALSE
               /\ IF n0 THEN NetOpen ELSE UNCHANGED <<listenValid, listenPc>>
               /\ UNCHANGED listenSock
    /\ UNCHANGED conf

(* The listen thread: socket(), then bind(); on either failure            *)
(* rtk_safe_close_ leaves the socket at -1.  It returns after the bind.  *)
ListenFn ==
    /\ listenPc = "running"
    /\ \E sockOk \in SocketOk :
         listenSock' = IF sockOk THEN "bound" ELSE "none"
    /\ listenPc' = "exited"
    /\ UNCHANGED <<conf, dump, netDump, saveLog, cbacks, enabled, logFd, logLock, logOpened,
                   listenValid, cycles>>

(* cleanup: the flags are read again, the callbacks dropped, the outputs  *)
(* those flags name closed, and rtkbt_stack_conf_cleanup clears the dump  *)
(* flags (BtSnoopSaveLog stays).                                           *)
cleanup ==
    /\ enabled
    /\ cbacks' = FALSE /\ enabled' = FALSE
    /\ IF dump THEN BtsnoopClose ELSE UNCHANGED <<logFd, logLock>>
    /\ IF netDump THEN NetClose ELSE UNCHANGED <<listenValid, listenPc, listenSock>>
    /\ dump' = FALSE /\ netDump' = FALSE
    /\ UNCHANGED <<conf, saveLog, logOpened, cycles>>

VNext ==
    \/ \E cbNull \in BOOLEAN : init(cbNull)
    \/ ListenFn
    \/ cleanup

VSpec == VInit /\ [][VNext]_vvars

-----------------------------------------------------------------------------
(* A conf file that sets RtkBtsnoopDump = true has the btsnoop log       *)
(* opened by init: once the host stack has enabled the library, init has *)
(* run rtk_btsnoop_open (which may still fail to create the file).        *)
LogOpenedAsConfigured == enabled /\ conf.present /\ conf.dump => logOpened
=============================================================================
