------------------------------- MODULE MCBoot -------------------------------
(***************************************************************************)
(* Boot for TLC: one server and two seeds, and an .env that is right, or   *)
(* wrong in one or in several places.                                      *)
(***************************************************************************)
EXTENDS Boot, TLC

MCAtoi == "0" :> 0 @@ "5" :> 5 @@ "12" :> 12 @@ "99" :> 99 @@ "8080" :> 8080
MCBytes == "long" :> 32 @@ "brief" :> 31

MCValid ==
  "DATABASE_URL" :> "url" @@ "JWT_SECRET" :> "long" @@ "LOG_FORMAT" :> "text"
    @@ "HTTP_PORT" :> "8080" @@ "BCRYPT_COST" :> "12" @@ "RATE_LIMIT_RPS" :> "0"
    @@ "RATE_LIMIT_BURST" :> "5" @@ [k \in TelegramKeys |-> "telegram"]

Fewest == "DATABASE_URL" :> "url" @@ "JWT_SECRET" :> "long"

MCEnvironments ==
  {"LOG_FORMAT" :> "" @@ "RATE_LIMIT_RPS" :> "" @@ "TELEGRAM_CHAT_ID" :> "" @@ Fewest,
   "JWT_SECRET" :> "brief" @@ "TELEGRAM_CHAT_ID" :> "telegram" @@ Fewest,
   "LOG_FORMAT" :> "xml" @@ "BCRYPT_COST" :> "99" @@ "HTTP_PORT" :> "no-port",
   "RATE_LIMIT_BURST" :> "0" @@ "RATE_LIMIT_RPS" :> "long" @@ MCValid}
=============================================================================
