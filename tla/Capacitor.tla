----------------------------- MODULE Capacitor -----------------------------
(* The discrete capacitor simulation of the fitting engine: modules that drain
   at the start of each cycle, boosters that inject, clips that empty and
   reload, neutralizers that drain all the time, and the recharge in between.
   Times are in parts of a millisecond, Fine of them to one, and energy in
   whole units; the recharge curve is an operator.                          *)
EXTENDS Integers, Sequences, FiniteSets

CONSTANTS Recharge(_, _), \* the energy after a while without events, from one level
          CapSize,           \* the capacitor's capacity
          Fine,           \* the parts of a millisecond that durations are multiples of
          Horizon,        \* HORIZON_MS, BAIL_MS
          MaxPeriod,      \* MAX_PERIOD_MS
          TickMs,         \* TICK_MS
          Cycles,         \* what a module may be: records [need, cycle, hold, volume, perCycle, reload]
          Neuts, NoCharge

VARIABLES modules, neut,  \* the fit: signed drains and injections, and the neutralizers' drain
          dueAt, shots,     \* each module's next activation, and shots left in its clip
          cap, lastAt,      \* the level, and when it was computed
          verdict,        \* "running", "dry" or "holds"
          fired           \* ghost: how often each module activated

capVars == <<modules, neut, dueAt, shots, cap, lastAt, verdict, fired>>

(* cycle_of: shots in a clip; none for what needs no charge.               *)
ClipShots(hold, volume, perCycle) ==
  IF volume = NoCharge \/ hold = 0 THEN 0
  ELSE (hold \div volume) \div (IF perCycle > 0 THEN perCycle ELSE 1)

Drain(c, sign) == [need |-> sign * c.need, cycle |-> c.cycle, reload |-> c.reload,
                   clip |-> ClipShots(c.hold, c.volume, c.perCycle)]

Reloads(d) == d.clip > 0 /\ d.reload > 0

(* Mutant: the reload is left out of the period. *)
FullPeriodFiring(d) == IF Reloads(d) THEN d.clip * d.cycle ELSE d.cycle

FullPeriod(d) == IF Reloads(d) THEN d.clip * d.cycle + d.reload ELSE d.cycle

(* Mutant: parts of a millisecond are cut off. *)
CutOffMs(d) == IF FullPeriod(d) < Fine THEN 1 ELSE FullPeriod(d) \div Fine

(* p.round(): the full period in whole milliseconds, at least one.         *)
Rounded(d) ==
  LET ms == (2 * FullPeriod(d) + Fine) \div (2 * Fine)
  IN IF ms = 0 THEN 1 ELSE ms

(* The share of the time in which a module fires, as a fraction.           *)
SustainedFactor(d) ==
  IF Reloads(d) THEN <<d.clip * d.cycle, d.clip * d.cycle + d.reload>> ELSE <<1, 1>>

(* gcd_ms: of x and y.                                                     *)
Gcd(x, y) ==
  LET gcd[b \in 0..y] == [a \in Nat |-> IF b = 0 THEN a ELSE gcd[a % b][b]]
  IN gcd[y][x]

(* The milliseconds after which every module's clip and reload line up
   again, as rounded.                                                       *)
LcmPeriod(ds) ==
  LET acc[i \in 0..Len(ds)] ==
        IF i = 0 THEN 1
        ELSE LET p == Rounded(ds[i])
                 lcm == (acc[i - 1] \div Gcd(acc[i - 1], p)) * p
             IN IF acc[i - 1] = MaxPeriod \/ lcm > MaxPeriod THEN MaxPeriod ELSE lcm
  IN acc[Len(ds)]

(* What a module fires before it pauses.                                   *)
Burst(d) == IF Reloads(d) THEN d.clip ELSE 1

Fresh(d) == IF Reloads(d) THEN d.clip ELSE 0

(* The first of the earliest activations: drains come before injections.   *)
Soonest == CHOOSE i \in DOMAIN dueAt :
              \A j \in DOMAIN dueAt : dueAt[i] < dueAt[j] \/ (dueAt[i] = dueAt[j] /\ i <= j)

Tick == [need |-> 0, cycle |-> TickMs * Fine, clip |-> 0, reload |-> 0]

(* Modules have a cycle, and a clip is not divided by a charge of no volume
   (build_events, cycle_of).                                                *)
CapAssumption ==
  /\ MaxPeriod \in Nat \ {0} /\ Fine \in Nat \ {0} /\ TickMs \in Nat \ {0}
  /\ \A c \in Cycles :
       /\ c.cycle \in Nat \ {0} /\ c.need \in Int
       /\ c.hold \in Nat /\ c.perCycle \in Nat /\ c.reload \in Nat
       /\ c.volume \in {NoCharge} \cup (Nat \ {0})

CapInit ==
  /\ \E drains, injections \in UNION {[1..n -> Cycles] : n \in 0..2} :
       /\ Len(drains) + Len(injections) <= 3
       /\ modules = [i \in 1..Len(drains) + Len(injections) |->
                       IF i <= Len(drains) THEN Drain(drains[i], 1)
                       ELSE Drain(injections[i - Len(drains)], -1)]
  /\ neut \in Neuts
  /\ dueAt = [i \in DOMAIN modules |-> 0]
  /\ shots = [i \in DOMAIN modules |-> Fresh(modules[i])]
  /\ cap = CapSize
  /\ lastAt = 0
  /\ verdict = "running"
  /\ fired = [i \in DOMAIN modules |-> 0]

(* Nothing to simulate: the level holds, or a tick samples what the
   neutralizers take.                                                       *)
NoEvents ==
  /\ verdict = "running"
  /\ modules = <<>>
  /\ IF neut = 0 THEN verdict' = "holds" /\ UNCHANGED <<modules, dueAt, shots, fired>>
     ELSE /\ modules' = <<Tick>>
          /\ dueAt' = <<0>> /\ shots' = <<0>> /\ fired' = <<0>>
          /\ UNCHANGED verdict
  /\ UNCHANGED <<neut, cap, lastAt>>

(* Mutant: shots fired from a clip are not counted. *)
RescheduleUncounted(i) ==
  LET d == modules[i]
  IN /\ dueAt' = [dueAt EXCEPT ![i] = @ + d.cycle + (IF Reloads(d) /\ shots[i] = 1 THEN d.reload ELSE 0)]
     /\ shots' = [shots EXCEPT ![i] = IF Reloads(d) THEN @ - 1 ELSE @]

(* The pause after the clip's last shot comes on top of its cycle.         *)
Reschedule(i) ==
  LET d == modules[i]
      empty == Reloads(d) /\ shots[i] = 1
  IN /\ dueAt' = [dueAt EXCEPT ![i] = @ + d.cycle + (IF empty THEN d.reload ELSE 0)]
     /\ shots' = [shots EXCEPT ![i] = IF empty THEN d.clip ELSE IF Reloads(d) THEN @ - 1 ELSE @]

Activate ==
  /\ verdict = "running"
  /\ modules # <<>>
  /\ LET i == Soonest
         now == dueAt[i]
         idle == IF now > lastAt THEN Recharge(cap, now - lastAt) - neut * (now - lastAt) ELSE cap
         level == idle - modules[i].need
     IN IF now > Horizon * Fine
        THEN verdict' = "holds" /\ UNCHANGED <<dueAt, shots, cap, lastAt, fired>>
        ELSE /\ lastAt' = now
             /\ fired' = [fired EXCEPT ![i] = @ + 1]
             /\ IF level < 0
                THEN verdict' = "dry" /\ cap' = 0 /\ UNCHANGED <<dueAt, shots>>
                ELSE /\ cap' = (IF level > CapSize THEN CapSize ELSE level)
                     /\ Reschedule(i)
                     /\ UNCHANGED verdict
  /\ UNCHANGED <<modules, neut>>

CapNext == NoEvents \/ Activate

CapSpec == CapInit /\ [][CapNext]_capVars

---------------------------------------------------------------------------
Period == LcmPeriod(modules)

(* The next activation is the first after a multiple of the period, of a fit
   whose full periods are whole milliseconds ("dogma durations already are
   integral ms").                                                           *)
Aligned == /\ verdict = "running" /\ modules # <<>>
           /\ Period < MaxPeriod
           /\ \A i \in DOMAIN modules : FullPeriod(modules[i]) = Rounded(modules[i]) * Fine
           /\ dueAt[Soonest] \div (Period * Fine) > lastAt \div (Period * Fine)

(* A module that starts a clip, its nth, has fired as often as the sustained
   factor says that its steady drain is derated by; when those clips make up
   whole common periods, it is due when these are over, but for half a
   millisecond for each clip.                                               *)
OnSchedule(i) ==
  LET d == modules[i]
      n == fired[i] \div Burst(d)
      each == Period \div Rounded(d)
      over == (n \div each) * Period * Fine
  IN fired[i] % Burst(d) = 0 =>
       /\ shots[i] = Fresh(d)
       /\ fired[i] * d.cycle * SustainedFactor(d)[2] = dueAt[i] * SustainedFactor(d)[1]
       /\ Period < MaxPeriod /\ n % each = 0 /\ Fine <= 2 * FullPeriod(d) =>
            2 * (dueAt[i] - over) \in -(n * Fine)..(n * Fine)

(* "The smallest time window after which every module's clip/reload cycle
   lines back up simultaneously" (lcm_period_ms, full_period_ms, simulate and
   ReloadCycle::sustained_factor agree): after each period every module is due
   again with a full clip, as at the start, if their periods are whole; else
   rounding them is all that puts them out.                                 *)
PeriodRealigns ==
  /\ Aligned => LET now == Period * Fine * (dueAt[Soonest] \div (Period * Fine)) IN
       \A i \in DOMAIN modules : dueAt[i] = now /\ shots[i] = Fresh(modules[i])
  /\ verdict = "running" => \A i \in DOMAIN modules : OnSchedule(i)

=============================================================================
