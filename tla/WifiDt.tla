-------------------------------- MODULE WifiDt --------------------------------
(***************************************************************************)
(* The platform driver of wifi_dt.c: wifi_dev_probe reads the device     *)
(* tree, registers the wifi_power character device (a chrdev region, the *)
(* class, a cdev and the /dev node) and requests the GPIOs               *)
(* (wifi_setup_dt); wifi_dev_remove frees the GPIOs (wifi_teardown_dt).   *)
(*                                                                         *)
(* The driver core calls probe while the driver is unbound and remove    *)
(* while it is bound; a probe returning 0 binds it.  Kernel objects are   *)
(* counted: the statics wifi_power_devno and wifi_power_cdev name only   *)
(* the last one made, so an object a later probe overwrites is held with *)
(* no way to release it.  A device tree is a record of which properties  *)
(* it has.  Probes are bounded by MaxProbes.                               *)
(***************************************************************************)
EXTENDS Naturals, Sequences

CONSTANTS
    DtNodes,    \* device trees: [irq, trigger, pin1, pin2 : BOOLEAN]
    CanFail,    \* the registration steps that may fail
    GpioCanFail,\* gpio_request may fail (the result is only logged)
    MaxProbes   \* bound on probe calls

\* The registration steps of wifi_dev_probe, in order.
Steps == <<"region", "class", "cdevAlloc", "cdevAdd", "device">>

VARIABLES
    dt,       \* the device tree the board booted with
    valid,    \* wifi_info.plat_info_valid
    regions,  \* chrdev regions held
    cls,      \* wifi_power_class is registered
    cdevs,    \* cdevs allocated and not deleted
    nodes,    \* /dev/wifi_power devices created
    pins,     \* GPIOs requested and not freed
    bound,    \* the driver is bound: the last probe returned 0
    probes    \* probe calls so far

dtvars == <<dt, valid, regions, cls, cdevs, nodes, pins, bound, probes>>
objs == <<regions, cls, cdevs, nodes>>

\* The GPIOs the device tree names.
DtPins(d) == {p \in {"irq", "pin1", "pin2"} : d[p]}

DtTypeOK ==
    /\ dt \in DtNodes /\ valid \in BOOLEAN /\ cls \in BOOLEAN /\ bound \in BOOLEAN
    /\ {regions, cdevs, nodes, probes} \subseteq Nat
    /\ pins \subseteq {"irq", "pin1", "pin2"}

DtInit ==
    /\ dt \in DtNodes
    /\ valid = FALSE /\ regions = 0 /\ cls = FALSE /\ cdevs = 0 /\ nodes = 0
    /\ pins = {} /\ bound = FALSE /\ probes = 0

(* wifi_setup_dt and wifi_set_up_power: request the interrupt pin and the *)
(* power pins the tree names; a failed request is logged and ignored.      *)
SetupDt(got) == pins' = pins \cup got

\* The step probe fails at: one it may fail at, or class_register of the
\* class a previous probe left registered; "none" when every step succeeds.
FailsAt(f) ==
    IF cls /\ f \in {"cdevAlloc", "cdevAdd", "device", "none"} THEN "class" ELSE f

\* The position of step f in the ladder.
Pos(f) == CHOOSE i \in 1..Len(Steps) : Steps[i] = f

\* The steps probe has made when step f fails (every step when f is "none").
Made(f) == {Steps[i] : i \in 1..(IF f = "none" THEN Len(Steps) ELSE Pos(f) - 1)}

(* The steps the goto ladder undoes after step f fails: out for the      *)
(* region, error1 for the class, error2 for cdev_alloc, error3 for        *)
(* cdev_add and device_create.                                              *)
\* Variant: error3 falls through to error1, past class_unregister.
UndoneSkipClass(f) ==
    CASE f \in {"none", "region"} -> {}
      [] f = "class"                -> {"region"}
      [] f = "cdevAlloc"            -> {"class", "region"}
      [] OTHER                      -> {"cdevAlloc", "region"}

Undone(f) ==
    CASE f \in {"none", "region"} -> {}
      [] f = "class"                -> {"region"}
      [] f = "cdevAlloc"            -> {"class", "region"}
      [] OTHER                      -> {"cdevAlloc", "class", "region"}

\* Probe's return value is 0: every step succeeded, or cdev_alloc failed
\* and the jump to error2 kept ret 0 from class_register.
ReturnsZero(f) == f \in {"none", "cdevAlloc"}

(* The registration of wifi_dev_probe failing at step f: each step made  *)
(* and not undone holds its object; class_register of the class a         *)
(* previous probe left leaves that class registered; the GPIOs are set up *)
(* only after the last step.                                               *)
Register(f, got) ==
    LET kept == Made(f) \ Undone(f)
        n(x) == IF x \in kept THEN 1 ELSE 0
    IN /\ regions' = regions + n("region")
       /\ cls' = (cls \/ "class" \in Made(f)) /\ "class" \notin Undone(f)
       /\ cdevs' = cdevs + n("cdevAlloc")
       /\ nodes' = nodes + n("device")
       /\ IF f = "none" THEN SetupDt(got) ELSE UNCHANGED pins
       /\ bound' = ReturnsZero(f)

(* wifi_dev_probe: the device tree is read first; an interrupt pin with  *)
(* no known irq_trigger_type returns -1 with plat_info_valid 0.  Then the *)
(* character device is registered.                                          *)
DevProbe ==
    /\ ~bound /\ probes < MaxProbes
    /\ probes' = probes + 1
    /\ IF dt.irq /\ ~dt.trigger
       THEN valid' = FALSE /\ UNCHANGED <<regions, cls, cdevs, nodes, pins, bound>>
       ELSE /\ valid' = TRUE
            /\ \E f \in CanFail \cup {"none"},
                  got \in IF GpioCanFail THEN SUBSET DtPins(dt) ELSE {DtPins(dt)} :
                 Register(FailsAt(f), got)
    /\ UNCHANGED dt

(* wifi_dev_remove: wifi_teardown_dt frees the GPIOs the tree names when  *)
(* plat_info_valid is set; the node, cdev, class and region stay.          *)
DevRemove ==
    /\ bound
    /\ bound' = FALSE
    /\ pins' = IF valid THEN pins \ DtPins(dt) ELSE pins
    /\ UNCHANGED <<dt, valid, regions, cls, cdevs, nodes, probes>>

\* The bound on probes is reached: the system runs on as it is.
Settled == probes = MaxProbes /\ ~bound /\ UNCHANGED dtvars

DtNext == DevProbe \/ DevRemove \/ Settled

DtSpec == DtInit /\ [][DtNext]_dtvars

-----------------------------------------------------------------------------
(* A probe that fails, at any step and after any earlier probe and       *)
(* remove (whose class makes class_register fail), leaves the kernel      *)
(* objects and the GPIOs exactly as it found them: each goto label of     *)
(* wifi_dev_probe undoes every step made before the jump.                 *)
FailedProbeReleases ==
    [][~bound /\ probes' = probes + 1 /\ ~bound' => UNCHANGED <<objs, pins>>]_dtvars

(* While the driver is bound, /dev/wifi_power exists: its class, cdev and *)
(* node are registered, so the power ioctl can be reached.                 *)
BoundHasNode == bound => cls /\ cdevs > 0 /\ nodes > 0
=============================================================================
