------------------------------- MODULE Config -------------------------------
(***************************************************************************)
(* internal/platform/config: what load makes of an environment.  An        *)
(* environment is a function whose domain is the set of variables that are *)
(* set; an empty text counts as unset.  Texts are abstract: Atoi is        *)
(* defined on those strconv.Atoi accepts, Bytes gives their lengths.       *)
(* CORS_ORIGINS is left out: no value of it is a problem.                  *)
(***************************************************************************)
EXTENDS Integers

CONSTANTS Atoi,     \* the texts that are integers -> their values
          Bytes     \* texts -> their lengths in bytes

RequiredKeys == {"DATABASE_URL", "JWT_SECRET"}
LogFormats == {"json", "text"}
TelegramKeys == {"TELEGRAM_BOT_TOKEN", "TELEGRAM_CHAT_ID"}
MinJWTSecretBytes == 32

Limits == [HTTP_PORT        |-> 1 .. 65535,
           BCRYPT_COST      |-> 4 .. 31,
           RATE_LIMIT_RPS   |-> 0 .. 10000,
           RATE_LIMIT_BURST |-> 1 .. 10000]

Given(env, key) == key \in DOMAIN env /\ env[key] # ""

InLimits(text, key) == text \in DOMAIN Atoi /\ Atoi[text] \in Limits[key]

\* The loader calls fail for this key.
Fails(env, key) ==
  \/ key \in RequiredKeys /\ ~Given(env, key)
  \/ key \in TelegramKeys /\ \E k \in TelegramKeys : Given(env, k) # Given(env, key)
  \/ /\ Given(env, key)
     /\ \/ key = "JWT_SECRET" /\ Bytes[env[key]] < MinJWTSecretBytes
        \/ key = "LOG_FORMAT" /\ env[key] \notin LogFormats
        \/ key \in DOMAIN Limits /\ ~InLimits(env[key], key)

Keys == RequiredKeys \cup TelegramKeys \cup {"LOG_FORMAT"} \cup DOMAIN Limits

\* Mistake: Load returns at the first problem.
FirstProblem(env) ==
  LET failing == {k \in Keys : Fails(env, k)} IN
  IF failing = {} THEN {} ELSE {CHOOSE k \in failing : TRUE}

\* The variables named in load's error; none, when it returns a Config.
Problems(env) == {k \in Keys : Fails(env, k)}
=============================================================================
