------------------------------ MODULE PowerSupply ------------------------------
(***************************************************************************)
(* What wifi_power_control (wifi_dt.c) promises its two users, Bluetooth *)
(* and Wi-Fi: a supply shared by a set of users, which is switched on     *)
(* only while nobody uses it and switched off only once the last user    *)
(* has left; a user joins only a powered supply.  Each step is one atomic *)
(* change, so the supply is powered in every state in which it has a user *)
(* (users # {} => powered follows from Init and the four actions).        *)
(***************************************************************************)
CONSTANTS Bits   \* the users: the bits of power_flag

VARIABLES
    users,    \* the users holding the supply
    powered   \* the supply is on

svars == <<users, powered>>

\* Probe leaves the supply on or off, with no user.
SInit == users = {} /\ powered \in BOOLEAN

\* A user joins a supply that is on.
Acquire(b) == powered /\ users' = users \cup {b} /\ UNCHANGED powered

\* A user leaves; the supply stays as it is.
Release(b) == users' = users \ {b} /\ UNCHANGED powered

\* The supply is switched on or off while it has no user.
PowerUp == users = {} /\ ~powered /\ powered' = TRUE /\ UNCHANGED users

PowerDown == users = {} /\ powered /\ powered' = FALSE /\ UNCHANGED users

SNext == PowerUp \/ PowerDown \/ \E b \in Bits : Acquire(b) \/ Release(b)

SSpec == SInit /\ [][SNext]_svars
=============================================================================
