------------------------------- MODULE Delivery -------------------------------
(***************************************************************************)
(* The way a recipient takes from a request to a notifier: the body of the *)
(* request, the domain model, the parameters of the INSERT, the row, the   *)
(* domain model again, which is what is published, and the notifier that   *)
(* the dispatcher picks for its channel.  Each conversion is an operator;  *)
(* one that can fail has a predicate that says when it succeeds.  Between  *)
(* publisher and consumer the model is JSON: every field of it is exported *)
(* and untagged, so what is decoded is what was encoded.                   *)
(***************************************************************************)
CONSTANTS
    Addresses,    \* recipients that mail.ParseAddress accepts, kept as given
    Numerals,     \* recipients that strconv.ParseInt accepts
    ChatIds,      \* Telegram chats, 64-bit integers
    ParseInt,     \* ParseInt[n]: the chat that numeral n stands for
    Junk,         \* recipients that neither accepts
    Null          \* a nil pointer, a NULL column

ASSUME RecipientsAssumption ==
    /\ Addresses \cap Numerals = {} /\ Junk \cap (Addresses \cup Numerals) = {}
    /\ Null \notin Addresses \cup ChatIds
    /\ ParseInt \in [Numerals -> ChatIds]

Channels == {"email", "telegram"}

(* A request names a channel and a recipient; complete says whether the    *)
(* fields with a "required" binding are all there.                         *)
CreateRequests ==
    [channel : Channels \cup {"other"},
     recipient : Addresses \cup Numerals \cup Junk,
     complete : BOOLEAN]

(* What the domain model and a row keep of the recipient.                  *)
Models == [channel : Channels, email : Addresses \cup {Null},
           telegram : ChatIds \cup {Null}]
NoModel == [channel |-> "none", email |-> Null, telegram |-> Null]
Rows == [channel : Channels, emailTo : Addresses \cup {Null},
         telegramChatId : ChatIds \cup {Null}]

-----------------------------------------------------------------------------
(* From the request to the row.                                            *)

Binds(req) == req.complete

Valid(req) ==
    \/ req.channel = "email" /\ req.recipient \in Addresses
    \/ req.channel = "telegram" /\ req.recipient \in Numerals

(* Whom a valid request means, in the terms of its channel.                *)
Meant(req) ==
    IF req.channel = "telegram" THEN ParseInt[req.recipient] ELSE req.recipient

NewNotification(req) ==
    [channel |-> req.channel,
     email |-> IF req.channel = "email" THEN req.recipient ELSE Null,
     telegram |-> IF req.channel = "telegram" THEN ParseInt[req.recipient]
                  ELSE Null]

(* toDBCreateParams: an error without the recipient of the channel, and    *)
(* the column of the other channel stays NULL.                             *)
MapsToRow(n) ==
    \/ n.channel = "email" /\ n.email # Null
    \/ n.channel = "telegram" /\ n.telegram # Null
(* Mutant: both columns are filled in from the model.                      *)
ToRowBothColumns(n) ==
    [channel |-> n.channel, emailTo |-> n.email,
     telegramChatId |-> IF n.telegram = Null THEN CHOOSE c \in ChatIds : TRUE
                        ELSE n.telegram]
ToRow(n) ==
    [channel |-> n.channel,
     emailTo |-> IF n.channel = "email" THEN n.email ELSE Null,
     telegramChatId |-> IF n.channel = "telegram" THEN n.telegram ELSE Null]

(* CONSTRAINT chk_recipient_channel.                                       *)
Storable(row) ==
    \/ row.channel = "email" /\ row.emailTo # Null /\ row.telegramChatId = Null
    \/ row.channel = "telegram" /\ row.telegramChatId # Null /\ row.emailTo = Null

-----------------------------------------------------------------------------
(* From the row to the notifier.                                           *)

(* Mutant: the telegram details are read from the other column.            *)
ToDomainModelEmailOnly(row) ==
    [channel |-> row.channel, email |-> row.emailTo, telegram |-> Null]
ToDomainModel(row) ==
    [channel |-> row.channel,
     email |-> IF row.channel = "email" THEN row.emailTo ELSE Null,
     telegram |-> IF row.channel = "telegram" THEN row.telegramChatId ELSE Null]

(* What the notifiers section of the configuration decides.                *)
Configs == [production : BOOLEAN, emailHost : BOOLEAN, botToken : BOOLEAN]

(* Mutant: each of the real notifiers needs the settings of both.          *)
NotifierForAllOrNothing(cfg, channel) ==
    IF cfg.production /\ cfg.emailHost /\ cfg.botToken THEN channel ELSE "log"

(* NewDispatcher: the log notifier, unless in production mode the real     *)
(* notifier of the channel is configured.                                  *)
Configured(cfg, channel) ==
    \/ channel = "email" /\ cfg.emailHost
    \/ channel = "telegram" /\ cfg.botToken
NotifierFor(cfg, channel) ==
    IF cfg.production /\ Configured(cfg, channel) THEN channel ELSE "log"

(* The checks with which a notifier's Send begins.                         *)
Takes(notifier, n) ==
    \/ notifier = "log"
    \/ notifier = "email" /\ n.channel = "email" /\ n.email # Null
    \/ notifier = "telegram" /\ n.channel = "telegram" /\ n.telegram # Null

(* Whom a notifier addresses.                                              *)
Addressee(notifier, n) ==
    IF notifier = "email" THEN n.email
    ELSE IF notifier = "telegram" THEN n.telegram
    ELSE Null
=============================================================================
