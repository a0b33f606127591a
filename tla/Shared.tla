------------------------------- MODULE Shared -------------------------------
(***************************************************************************)
(* The conversions the services of src/ share: the namespace a device name *)
(* becomes and the device name itself (shared/ros_common.py), the value    *)
(* that an environment variable gives a setting (shared/config.py), and    *)
(* the age of an image (detection/detection.py, alert/alert.py).           *)
(*                                                                         *)
(* A name is a sequence of characters, a text of the environment is known  *)
(* by what it parses to, a time is a day and a time of day.                *)
(***************************************************************************)
EXTENDS Integers, Sequences

CONSTANTS
    LegalChars, Digits, \* [A-Za-z0-9_] and [0-9]
    Underscore,         \* the character that replaces an illegal one
    Texts,              \* values an environment variable may have
    FloatOf,            \* text -> the number float() makes of it, or Unparsable
    Day                 \* length of a day

Unparsable == -1
Unset == "unset"

ASSUME SharedAssumption ==
    /\ Digits \subseteq LegalChars
    /\ Underscore \in LegalChars \ Digits
    /\ Unset \notin Texts
    /\ FloatOf \in [Texts -> Nat \cup {Unparsable}]
    /\ Day \in Nat \ {0}

-----------------------------------------------------------------------------
(* ros_common.py                                                           *)

\* re.sub(r"[^A-Za-z0-9_]", "_", raw)
Sanitize(name) ==
    [i \in 1..Len(name) |-> IF name[i] \in LegalChars THEN name[i] ELSE Underscore]

\* ros_namespace of a device name that is not empty: a leading digit gets an
\* underscore before it.
RosNamespace(name) ==
    IF Sanitize(name)[1] \in Digits
    THEN <<Underscore>> \o Sanitize(name)
    ELSE Sanitize(name)

\* resolve_device_hostname: /host_hostname, then /etc/hostname, then the
\* container's own name; a file that is missing or empty is passed over.
ResolveDeviceHostname(hostFile, etcFile, own) ==
    IF hostFile # <<>> THEN hostFile ELSE IF etcFile # <<>> THEN etcFile ELSE own

-----------------------------------------------------------------------------
(* config.py                                                               *)

\* _coerce for a number: a text that does not parse leaves the default in force.
Coerce(value, default) == IF FloatOf[value] = Unparsable THEN default ELSE FloatOf[value]

\* The value _load gives a setting.
Load(env, default) == IF env = Unset THEN default ELSE Coerce(env, default)

-----------------------------------------------------------------------------
(* _compute_queue_age_seconds                                              *)

\* Mutant of QueueAge: a time later than now is taken to be of today.
QueueAgeToday(sent, recv) == recv - sent

\* A time of day against the present time of day: a later one is yesterday's.
QueueAge(sent, recv) == IF sent > recv THEN recv - sent + Day ELSE recv - sent
=============================================================================
