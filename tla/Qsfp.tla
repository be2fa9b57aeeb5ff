-------------------------------- MODULE Qsfp --------------------------------
(***************************************************************************)
(* The qsfp daemon (goes/cmd/qsfp): two goroutines and the hardware.       *)
(*  - qsfpioTicker runs updateio every second: on its first call it reads  *)
(*    eeprom.DeviceVersion and sets porto; it then visits the keys of     *)
(*    VpageByKeyIo in map order and calls QsfpStatus(port).  The key of   *)
(*    port 0 reads the presence inputs of the bank (on the first visit    *)
(*    after QsfpInit has put every port in reset and low-power mode); a   *)
(*    change re-drives the reset and LP lines of the changed ports        *)
(*    (QsfpReset, QsfpLpMode) and is handed to the main goroutine in      *)
(*    latestPresent (SendPresentToQsfp).  Every key publishes "installed" *)
(*    or "empty" when it differs from lastsio.                            *)
(*  - Main selects between updatePresence (500 ms) and updateMonitor      *)
(*    (3 s).  updatePresence compares latestPresent with present: for an *)
(*    inserted module it reads Compliance, sets portIsCopper, the media,  *)
(*    speed and fec of the vnet interface and publishes the compliance;   *)
(*    for a removed one it deletes the fields, sets portIsCopper and      *)
(*    forgets maxTempPort if it named the port.  updateMonitor reads the  *)
(*    temperature of every present optic whose data is ready and keeps    *)
(*    the hottest port in maxTemp/maxTempPort (CheckTemp).                *)
(* One bank of NBits presence bits is modelled (bank 1 is the same code  *)
(* on the key of port 16).  A module is a compliance string of Kinds;    *)
(* a bit of a presence word is TRUE when the port is empty (the inputs   *)
(* are active low).  resetOut[b] is TRUE when the reset line is high     *)
(* (module out of reset), lpOut[b] when the port is held in low power.   *)
(* Each handler of the main goroutine is one step: the only shared      *)
(* state it reads more than once is porto, which does not change after  *)
(* the first updateio on a board with a device version.                 *)
(***************************************************************************)
EXTENDS Integers, FiniteSets, QsfpAlarms

CONSTANTS
  NBits,         \* presence bits of the bank that are modelled (even)
  Kinds,         \* compliance strings a module may report
  CopperKinds,   \* those containing "-CR"
  Optic40Kinds,  \* those containing "40G"
  None,          \* no module in the port
  Temps,         \* temperatures a module may report (freeMonTemp)
  DeviceVer,     \* eeprom.DeviceVersion in redis
  MaxChanges,    \* insertions and removals of modules
  MaxI2cErrors,  \* failed reads of the presence inputs
  LowerPage      \* the flag and monitor bytes of each kind's lower page

ASSUME NBits \in Nat /\ NBits % 2 = 0 /\ NBits > 0
ASSUME CopperKinds \subseteq Kinds /\ Optic40Kinds \subseteq Kinds \ CopperKinds
ASSUME None \notin Kinds /\ Temps \subseteq Nat \ {0}
ASSUME MaxChanges \in Nat /\ MaxI2cErrors \in Nat
ASSUME LowerPage \in [Kinds -> [PageBytes -> 0 .. 255]]

Bits == 0 .. NBits - 1
PortNames == 0 .. NBits          \* lp for porto 0 and -1
NoPort == -1                     \* maxTempPort "-1"
Status == {"", "installed", "empty"}
Config == [media : {"copper", "fiber"}, speed : {"40g", "100g"}, fec : {"none", "cl91"}]
\* the vnet settings of an interface before the daemon touches them
DefaultConfig == [media |-> "copper", speed |-> "100g", fec |-> "none"]

VARIABLES
  mod, temp, changes, vnetReady,       \* hardware and vnet
  resetOut, lpOut,                     \* GPIO outputs of VdevIo[6] and [4]
  iopc, ioInit, deviceVer, porto, keysLeft, ioPresent, latest, lastsio,
  i2cErrs,                             \* qsfpioTicker goroutine
  present, isCopper, pub, cfg, maxTemp, maxTempPort   \* main goroutine

env == <<mod, temp, changes, vnetReady>>
io == <<resetOut, lpOut, iopc, ioInit, deviceVer, porto, keysLeft, ioPresent,
        latest, lastsio, i2cErrs>>
main == <<present, isCopper, pub, cfg, maxTemp, maxTempPort>>
vars == <<env, io, main>>

\* Plausible bug: the translation adds 2 to the odd ports instead.
LpParityFlipped(b, po) == (IF b % 2 = 1 THEN b + 2 ELSE b) + po

\* physical to logical port translation of updatePresence and updateMonitor
Lp(b, po) == (IF b % 2 = 0 THEN b + 2 ELSE b) + po

\* QsfpStatus swaps upper and lower ports to match front panel numbering
Swap(k) == IF k % 2 = 0 THEN k + 1 ELSE k - 1

\* The port is out of reset only where a module is installed, and in low
\* power only where none is: QsfpInit's lines for an all-empty bank.
QsfpInitReset == [b \in Bits |-> FALSE]
QsfpInitLp == [b \in Bits |-> TRUE]

\* Plausible bug: the new output byte keeps none of the unchanged ports.
QsfpResetNoMask(old, ports, reset) == [b \in Bits |-> b \in ports /\ reset[b]]

\* v = (old & ^ports) | (ports & reset): rewrite the changed ports only.
QsfpReset(old, ports, reset) == [b \in Bits |-> IF b \in ports THEN reset[b] ELSE old[b]]

\* QsfpStatus of the key of port k, from the presence word it holds.
StatusOf(k, pres) == IF pres[Swap(k)] THEN "empty" ELSE "installed"

\* The same read-modify-write on the low-power outputs.
QsfpLpMode(old, ports, lp) == [b \in Bits |-> IF b \in ports THEN lp[b] ELSE old[b]]

-----------------------------------------------------------------------------
(* qsfpioTicker: one updateio per tick.                                    *)

\* updateio up to the map loop: the device version on the first call, then
\* porto = 0.
UpdateioStart ==
  /\ iopc = "idle"
  /\ deviceVer' = IF ioInit THEN DeviceVer ELSE deviceVer
  /\ porto' = 0
  /\ iopc' = "porto"
  /\ UNCHANGED <<env, main, resetOut, lpOut, ioInit, keysLeft, ioPresent,
                 latest, lastsio, i2cErrs>>

\* porto = -1 on the boards without a device version; start the map loop.
UpdateioPorto ==
  /\ iopc = "porto"
  /\ porto' = IF deviceVer \in {0, 255} THEN -1 ELSE 0
  /\ keysLeft' = Bits
  /\ iopc' = "keys"
  /\ UNCHANGED <<env, main, resetOut, lpOut, ioInit, deviceVer, ioPresent,
                 latest, lastsio, i2cErrs>>

\* The presence word as read: a bit is set where the port is empty.
Inputs == [b \in Bits |-> mod[b] = None]

\* One key of the map loop: QsfpStatus(k) and the publish of its result.
\* The key of port 0 first runs QsfpInit on the first call, then reads the
\* inputs: an I2C error returns "" (nothing published); a changed word
\* re-drives the lines of the changed ports, becomes Present and is sent to
\* the main goroutine: SendPresentToQsfp overwrites latestPresent whether
\* or not updatePresence has taken the previous word.
QsfpStatus(k) ==
  /\ iopc = "keys"
  /\ k \in keysLeft
  /\ keysLeft' = keysLeft \ {k}
  /\ iopc' = IF keysLeft' = {} THEN "idle" ELSE "keys"
  /\ IF k = 0
       THEN LET rst == IF ioInit THEN QsfpInitReset ELSE resetOut
                lpm == IF ioInit THEN QsfpInitLp ELSE lpOut
                p == Inputs
                changed == {b \in Bits : p[b] # ioPresent[b]}
            IN /\ ioInit' = FALSE
               /\ \/ /\ i2cErrs < MaxI2cErrors
                     /\ i2cErrs' = i2cErrs + 1
                     /\ resetOut' = rst /\ lpOut' = lpm
                     /\ UNCHANGED <<ioPresent, latest, lastsio>>
                  \/ /\ changed = {}
                     /\ lastsio' = [lastsio EXCEPT ![k] = StatusOf(k, ioPresent)]
                     /\ resetOut' = rst /\ lpOut' = lpm
                     /\ UNCHANGED <<ioPresent, latest, i2cErrs>>
                  \/ /\ changed # {}
                     /\ resetOut' = QsfpReset(rst, changed, [b \in Bits |-> ~p[b]])
                     /\ lpOut' = QsfpLpMode(lpm, changed, p)
                     /\ ioPresent' = p
                     /\ latest' = p
                     /\ lastsio' = [lastsio EXCEPT ![k] = StatusOf(k, p)]
                     /\ UNCHANGED i2cErrs
       ELSE /\ lastsio' = [lastsio EXCEPT ![k] = StatusOf(k, ioPresent)]
            /\ UNCHANGED <<resetOut, lpOut, ioInit, ioPresent, latest, i2cErrs>>
  /\ UNCHANGED <<env, main, deviceVer, porto>>

-----------------------------------------------------------------------------
(* The main goroutine.                                                     *)

\* Compliance: the module's compliance string; the registers of a port
\* emptied since the inputs were read give back whatever the I2C buffer
\* holds.
Compliance(b, g) == IF mod[b] # None THEN mod[b] ELSE g[b]

\* Media, speed and fec of the interface for an inserted module: "-CR" is a
\* copper cable (cl91 at 100g), "40G" an optic at 40g, others optics at 100g.
MediaConfig(kind, c) ==
  CASE kind \in CopperKinds ->
         [c EXCEPT !.media = "copper", !.fec = IF c.speed = "100g" THEN "cl91" ELSE @]
    [] kind \in Optic40Kinds -> [c EXCEPT !.media = "fiber", !.speed = "40g"]
    [] OTHER -> [c EXCEPT !.media = "fiber", !.speed = "100g"]

\* Plausible bug: the removal leaves maxTempPort alone.
ForgetMaxTempPortNever(mp, port) == mp

\* maxTempPort = "-1" when the removed port held it.
ForgetMaxTempPort(mp, port) == IF mp = port THEN NoPort ELSE mp

\* The installed branch for bit b, module kind at logical port lp: set
\* portIsCopper and the vnet media/speed/fec, publish the compliance (the
\* vendor, part and serial numbers and the optics' thresholds that follow
\* are more fields of the same module and are not modelled).
InsertPort(st, b, kind, lp) ==
  [st EXCEPT !.isCopper[b] = kind \in CopperKinds,
             !.cfg[lp] = MediaConfig(kind, @),
             !.pub[lp] = kind]

\* Plausible bug: the removal leaves the port's published fields.
RemovePortKeepPub(st, b, lp) ==
  [st EXCEPT !.isCopper[b] = TRUE,
             !.mtp = ForgetMaxTempPort(@, lp)]

\* The removed branch: delete the port's fields, portIsCopper = true,
\* forget maxTempPort if it is this port.
RemovePort(st, b, lp) ==
  [st EXCEPT !.pub[lp] = None,
             !.isCopper[b] = TRUE,
             !.mtp = ForgetMaxTempPort(@, lp)]

\* for i := 0; i < 16; i++ over the bits that differ between buff and
\* present, from bit i on; g is what Compliance reads from emptied ports.
RECURSIVE PresenceFrom(_, _, _, _)
PresenceFrom(i, st, buff, g) ==
  IF i = NBits THEN st
  ELSE LET lp == Lp(i, porto)
           st2 == IF buff[i] = present[i] THEN st
                  ELSE IF ~buff[i] THEN InsertPort(st, i, Compliance(i, g), lp)
                  ELSE RemovePort(st, i, lp)
       IN PresenceFrom(i + 1, st2, buff, g)

\* updatePresence when vnet is ready: buffPresent = latestPresent, the
\* loop over its changed bits, then present = buffPresent.
UpdatePresence ==
  /\ vnetReady
  /\ latest # present
  /\ \E g \in [Bits -> Kinds] :
       LET st == PresenceFrom(0, [isCopper |-> isCopper, cfg |-> cfg, pub |-> pub,
                                  mtp |-> maxTempPort], latest, g)
       IN /\ isCopper' = st.isCopper
          /\ cfg' = st.cfg
          /\ pub' = st.pub
          /\ maxTempPort' = st.mtp
          /\ present' = latest
  /\ UNCHANGED <<env, io, maxTemp>>

\* CheckTemp: the port becomes the hottest when none is known, when it is
\* the hottest one, or when it is hotter.
CheckTemp(mt, mp, u, port) ==
  IF mp = NoPort \/ mp = port \/ u > mt THEN <<u, port>> ELSE <<mt, mp>>

\* DynamicBlocks' temperature: the module's own while it is out of reset,
\* else what the I2C buffer holds.
DynamicTemp(b, gt) == IF mod[b] # None /\ resetOut[b] THEN temp[b] ELSE gt[b]

\* updateMonitor's loop from port i on: present optics whose DataReady
\* (gr, the data-not-ready bit as read) holds go through CheckTemp.
RECURSIVE MonitorFrom(_, _, _, _, _)
MonitorFrom(i, mt, mp, gr, gt) ==
  IF i = NBits THEN <<mt, mp>>
  ELSE LET r == IF ~present[i] /\ ~isCopper[i] /\ gr[i]
                  THEN CheckTemp(mt, mp, DynamicTemp(i, gt), Lp(i, porto))
                  ELSE <<mt, mp>>
       IN MonitorFrom(i + 1, r[1], r[2], gr, gt)

UpdateMonitor ==
  /\ vnetReady
  /\ \E gr \in [Bits -> BOOLEAN], gt \in [Bits -> Temps] :
       LET r == MonitorFrom(0, maxTemp, maxTempPort, gr, gt)
       IN /\ maxTemp' = r[1]
          /\ maxTempPort' = r[2]
  /\ UNCHANGED <<env, io, present, isCopper, pub, cfg>>

-----------------------------------------------------------------------------
(* The hardware and vnet.                                                  *)

\* A module goes into a port that updateio has seen empty: swapping one
\* takes longer than a tick.
Insert(b, k) ==
  /\ mod[b] = None /\ ioPresent[b]
  /\ changes < MaxChanges
  /\ mod' = [mod EXCEPT ![b] = k]
  /\ changes' = changes + 1
  /\ UNCHANGED <<temp, vnetReady, io, main>>

Remove(b) ==
  /\ mod[b] # None
  /\ changes < MaxChanges
  /\ mod' = [mod EXCEPT ![b] = None]
  /\ changes' = changes + 1
  /\ UNCHANGED <<temp, vnetReady, io, main>>

Heat(b, t) ==
  /\ temp[b] # t
  /\ temp' = [temp EXCEPT ![b] = t]
  /\ UNCHANGED <<mod, changes, vnetReady, io, main>>

VnetReady ==
  /\ ~vnetReady
  /\ vnetReady' = TRUE
  /\ UNCHANGED <<mod, temp, changes, io, main>>

-----------------------------------------------------------------------------

\* Main: portIsCopper all true, maxTempPort "-1"; qsfpIo and present all
\* empty; the modules, temperatures and GPIO outputs as the board has them.
Init ==
  /\ mod \in [Bits -> Kinds \cup {None}]
  /\ temp \in [Bits -> Temps]
  /\ changes = 0
  /\ vnetReady = FALSE
  /\ resetOut \in [Bits -> BOOLEAN]
  /\ lpOut \in [Bits -> BOOLEAN]
  /\ iopc = "idle"
  /\ ioInit = TRUE
  /\ deviceVer = 0
  /\ porto = 0
  /\ keysLeft = {}
  /\ ioPresent = [b \in Bits |-> TRUE]
  /\ latest = [b \in Bits |-> TRUE]
  /\ lastsio = [k \in Bits |-> ""]
  /\ i2cErrs = 0
  /\ present = [b \in Bits |-> TRUE]
  /\ isCopper = [b \in Bits |-> TRUE]
  /\ pub = [n \in PortNames |-> None]
  /\ cfg = [n \in PortNames |-> DefaultConfig]
  /\ maxTemp = 0
  /\ maxTempPort = NoPort

Updateio == UpdateioStart \/ UpdateioPorto \/ \E k \in Bits : QsfpStatus(k)

Next ==
  \/ Updateio
  \/ UpdatePresence
  \/ UpdateMonitor
  \/ \E b \in Bits, k \in Kinds : Insert(b, k)
  \/ \E b \in Bits : Remove(b)
  \/ \E b \in Bits, t \in Temps : Heat(b, t)
  \/ VnetReady

\* Both goroutines run on tickers forever; vnet comes up eventually.
Spec == Init /\ [][Next]_vars
        /\ WF_vars(Updateio) /\ WF_vars(UpdatePresence) /\ WF_vars(VnetReady)

-----------------------------------------------------------------------------

TypeOK ==
  /\ mod \in [Bits -> Kinds \cup {None}] /\ temp \in [Bits -> Temps]
  /\ changes \in 0 .. MaxChanges /\ vnetReady \in BOOLEAN
  /\ resetOut \in [Bits -> BOOLEAN] /\ lpOut \in [Bits -> BOOLEAN]
  /\ iopc \in {"idle", "porto", "keys"} /\ ioInit \in BOOLEAN
  /\ porto \in {0, -1} /\ keysLeft \subseteq Bits
  /\ ioPresent \in [Bits -> BOOLEAN] /\ latest \in [Bits -> BOOLEAN]
  /\ lastsio \in [Bits -> Status] /\ i2cErrs \in 0 .. MaxI2cErrors
  /\ present \in [Bits -> BOOLEAN] /\ isCopper \in [Bits -> BOOLEAN]
  /\ pub \in [PortNames -> Kinds \cup {None}] /\ cfg \in [PortNames -> Config]
  /\ maxTemp \in Temps \cup {0} /\ maxTempPort \in PortNames \cup {NoPort}

\* Once QsfpInit has run, every port updateio last saw installed is out of
\* reset and out of low power, and every port it saw empty is held in
\* reset and low power: QsfpReset and QsfpLpMode rewrite only the changed
\* ports and keep the lines of the others across ticks.
ResetLinesFollowPresence ==
  ~ioInit => \A b \in Bits : resetOut[b] = ~ioPresent[b] /\ lpOut[b] = ioPresent[b]

\* maxTempPort, the port whose temperature goes to the BMC, is "-1" or a
\* port the main goroutine still monitors (present and not copper):
\* updatePresence forgets it when its module is removed.
MaxTempPortMonitored ==
  maxTempPort # NoPort =>
    \E b \in Bits : Lp(b, porto) = maxTempPort /\ ~present[b] /\ ~isCopper[b]

\* Whether each kind's page decodes right, computed once.
PageDecodes == [k \in Kinds |-> Decodes(LowerPage[k])]

\* For every optic updateMonitor reads (present, not a copper cable, its
\* module in the port) the alarm lists it publishes after DynamicBlocks,
\* ChannelAlarms and FreeSideAlarms hold exactly the flags SFF-8636 sets in
\* the module's lower page, each under its own lane's rx or tx key, and
\* Temp of the word DynamicBlocks assembles is the page's signed
\* temperature; and so for every page of TestPages (one flag bit at a
\* time, all flags, the edges of the temperature range).
DecodeMatchesSff8636 ==
  /\ TestPagesDecode
  /\ \A b \in Bits : ~present[b] /\ ~isCopper[b] /\ mod[b] # None => PageDecodes[mod[b]]

\* What the daemon shows agrees with the hardware for port b: updateio's
\* word and status and updatePresence's present follow the module's
\* presence, and an empty port has no published fields and counts as
\* copper.  The kind of an installed module is not part of it: a module
\* swapped for another between two updatePresence steps leaves
\* latestPresent as it was and is never seen (qsfpio.go:207).
PresenceSettled(b) ==
  /\ ioPresent[b] = (mod[b] = None)
  /\ lastsio[Swap(b)] = StatusOf(Swap(b), ioPresent)
  /\ present[b] = ioPresent[b]
  /\ mod[b] = None => pub[Lp(b, porto)] = None /\ isCopper[b]

\* Once modules stop being inserted and removed, every port's presence,
\* as updateio and updatePresence see it and as the published fields
\* show it, eventually matches the hardware for good: SendPresentToQsfp
\* overwriting latestPresent may merge changes but loses no final word,
\* and an I2C error only delays the poll.
QsfpSettles == <>[](\A b \in Bits : PresenceSettled(b))
=============================================================================
