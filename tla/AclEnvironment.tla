--------------------------- MODULE AclEnvironment ---------------------------
(* The process-wide reference count of the Ascend runtime
   (context/acl_environment.cpp of the three 310P applications; the copies
   differ in their namespace only).  Both operations run under gMutex, so each
   is one step.  The runtime itself is external: aclInit, aclrtSetDevice,
   aclrtResetDevice and aclFinalize change `up` and `devices`. *)
EXTENDS Naturals

VARIABLES
  gRefCount,          \* contexts that hold the environment
  gDeviceRefCounts,   \* the same per device; a device nobody holds has no entry
  up,                 \* aclInit has been called and aclFinalize has not
  devices             \* the devices set and not reset

envVars == <<gRefCount, gDeviceRefCounts, up, devices>>

EnvInit ==
  gRefCount = 0 /\ gDeviceRefCounts = << >> /\ up = FALSE /\ devices = {}

(* AclEnvironment::acquire, when aclInit and aclrtSetDevice succeed or are not called. *)
Acquire(d) ==
  /\ up' = TRUE
  /\ devices' = devices \union {d}
  /\ gDeviceRefCounts' =
       [e \in DOMAIN gDeviceRefCounts \union {d} |->
          IF e # d THEN gDeviceRefCounts[e]
          ELSE IF d \in DOMAIN gDeviceRefCounts THEN gDeviceRefCounts[d] + 1 ELSE 1]
  /\ gRefCount' = gRefCount + 1

(* Only the first holder calls aclInit, only the first of a device
   aclrtSetDevice; when either fails, what acquire did is undone. *)
AcquireFails(d) ==
  /\ gRefCount = 0 \/ d \notin DOMAIN gDeviceRefCounts
  /\ UNCHANGED envVars

(* AclEnvironment::release. *)
MutantRelease(d) ==
  IF gRefCount = 0 \/ d \notin DOMAIN gDeviceRefCounts
  THEN UNCHANGED envVars
  ELSE /\ gDeviceRefCounts' = [gDeviceRefCounts EXCEPT ![d] = @ - 1]
       /\ devices' = devices
       /\ gRefCount' = gRefCount - 1
       /\ up' = (gRefCount > 1)

Release(d) ==
  IF gRefCount = 0 \/ d \notin DOMAIN gDeviceRefCounts
  THEN UNCHANGED envVars
  ELSE LET last == gDeviceRefCounts[d] <= 1 IN
       /\ gDeviceRefCounts' =
            IF last THEN [e \in DOMAIN gDeviceRefCounts \ {d} |-> gDeviceRefCounts[e]]
                    ELSE [gDeviceRefCounts EXCEPT ![d] = @ - 1]
       /\ devices' = IF last THEN devices \ {d} ELSE devices
       /\ gRefCount' = gRefCount - 1
       /\ up' = (gRefCount > 1)
=============================================================================
