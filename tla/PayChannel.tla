----------------------------- MODULE PayChannel -----------------------------
(***************************************************************************)
(* The payment channels of billing-svc (internal/pay): how an adapter      *)
(* chooses its mode from its configuration, what it demands of a webhook   *)
(* before it believes it, which order and status it reads from the body,   *)
(* and what the credential readiness report says of the configuration.     *)
(*                                                                         *)
(* A configuration is [mock : BOOLEAN, set : SUBSET Fields]: the MockMode  *)
(* flag and the credentials that are present.  A signature is abstracted   *)
(* to whether the two sides hold matching keys.                            *)
(***************************************************************************)
EXTENDS Integers, FiniteSets

Channels == {"mock", "wechat", "alipay", "appleiap"}

Fields == {"mch_id", "api_v3_key", "api_v3_key_32", "serial_no",
           "api_client_key", "platform_public_key", "app_id",
           "merchant_private_key", "alipay_public_key", "bundle_id",
           "app_apple_id", "trusted_roots", "sandbox",
           "bad_key"}            \* a configured key or root does not parse

----------------------------------------------------------------------------
(***************************************************************************)
(* The constructors: missing credentials switch MockMode on.  A key that   *)
(* does not parse makes the constructor fail; server.New ignores the error *)
(* and registers the nil adapter, whose methods panic.                     *)
(***************************************************************************)
ParsesKeys(c) == "bad_key" \notin c.set

ModeFor(c, required) ==
    IF c.mock \/ ~(required \subseteq c.set) THEN "mock"
    ELSE IF ParsesKeys(c) THEN "real" ELSE "nil"

NewMockChannel(c) == "mock"

NewWeChatChannel(c) ==
    ModeFor(c, {"mch_id", "api_v3_key", "serial_no", "api_client_key"})

NewAlipayChannel(c) ==
    ModeFor(c, {"app_id", "merchant_private_key", "alipay_public_key"})

\* The trusted roots are parsed in mock mode too.
NewAppleIAPChannel(c) == IF ParsesKeys(c) THEN ModeFor(c, {"bundle_id"}) ELSE "nil"

Mode(ch, c) ==
    CASE ch = "mock"     -> NewMockChannel(c)
      [] ch = "wechat"   -> NewWeChatChannel(c)
      [] ch = "alipay"   -> NewAlipayChannel(c)
      [] ch = "appleiap" -> NewAppleIAPChannel(c)

IsRealMode(ch, c) == Mode(ch, c) = "real"

----------------------------------------------------------------------------
(***************************************************************************)
(* CreatePrepay of each adapter: the set of prepays it makes, empty when   *)
(* it refuses the amount.  In real mode WeChat and Alipay sign the request *)
(* the client takes to the provider; Apple's purchase starts on the phone. *)
(* The prepay carries the amount it was asked for.                         *)
(***************************************************************************)
Prepays(ch, o, amount, signed) ==
    {[ch |-> ch, order |-> o, amount |-> a, signed |-> signed] : a \in {x \in {amount} : x > 0}}

MockCreatePrepay(c, o, amount) == Prepays("mock", o, amount, FALSE)

WeChatCreatePrepay(c, o, amount) ==
    Prepays("wechat", o, amount, NewWeChatChannel(c) = "real")

AlipayCreatePrepay(c, o, amount) ==
    Prepays("alipay", o, amount, NewAlipayChannel(c) = "real")

AppleCreatePrepay(c, o, amount) == Prepays("appleiap", o, amount, FALSE)

CreatePrepay(c, ch, o, amount) ==
    CASE Mode(ch, c) = "nil" -> {}
      [] ch = "mock"     -> MockCreatePrepay(c, o, amount)
      [] ch = "wechat"   -> WeChatCreatePrepay(c, o, amount)
      [] ch = "alipay"   -> AlipayCreatePrepay(c, o, amount)
      [] ch = "appleiap" -> AppleCreatePrepay(c, o, amount)

----------------------------------------------------------------------------
(***************************************************************************)
(* Webhooks.  A notice n has the channel n.ch, our order n.order, the      *)
(* provider's own transaction n.trade, the trade state n.state in the      *)
(* provider's words, and its nonce n.nonce; fresh tells whether its        *)
(* timestamp is still inside the window when it arrives.                   *)
(***************************************************************************)

\* What is checked before the body is read.  The real Alipay and Apple forms
\* carry no timestamp header, so their window is never exceeded.
MockAccepts(c, n, fresh) == fresh

WeChatAccepts(c, n, fresh) ==
    /\ fresh
    /\ NewWeChatChannel(c) = "real" => "platform_public_key" \in c.set

\* alipayVerify: the sorted form against Alipay's public key.
AlipayVerify(c) == "alipay_public_key" \in c.set

AlipayAccepts(c, n, fresh) ==
    IF NewAlipayChannel(c) = "mock" THEN fresh ELSE AlipayVerify(c)

AppleVerifyMock(c, n, fresh) == fresh

\* decodeAndVerifyAppleJWS: a JWS signed by its own leaf passes with or without
\* a trust store; Apple's own chain ends in the configured roots.
DecodeAndVerifyAppleJWS(c, n) == n.ch = "appleiap"

AppleAccepts(c, n, fresh) ==
    IF NewAppleIAPChannel(c) = "mock" THEN AppleVerifyMock(c, n, fresh)
                                      ELSE DecodeAndVerifyAppleJWS(c, n)

Accepts(c, n, fresh) ==
    CASE Mode(n.ch, c) = "nil" -> FALSE
      [] n.ch = "mock"     -> MockAccepts(c, n, fresh)
      [] n.ch = "wechat"   -> WeChatAccepts(c, n, fresh)
      [] n.ch = "alipay"   -> AlipayAccepts(c, n, fresh)
      [] n.ch = "appleiap" -> AppleAccepts(c, n, fresh)

\* The real Alipay and Apple paths return before the nonce map is consulted.
TracksNonce(c, n) ==
    n.ch \in {"alipay", "appleiap"} => ~IsRealMode(n.ch, c)

\* The resource of a real WeChat notice is opened with the APIv3 key, which
\* must have 32 bytes; everything else is plain JSON or a form.
AesGCMDecrypt(c) == "api_v3_key_32" \in c.set

Opens(c, n) == (n.ch = "wechat" /\ IsRealMode("wechat", c)) => AesGCMDecrypt(c)

\* The channel verifies a notice that comes in time, and opens its body.
Reads(c, n) == Accepts(c, n, TRUE) /\ Opens(c, n)

\* A credential is there and has the wrong form.
Malformed(ch, c) == ~ParsesKeys(c) \/ (ch = "wechat" /\ ~AesGCMDecrypt(c))

\* The order a notice is about: real Apple notices name Apple's transaction.
OrderOf(c, n) ==
    IF n.ch = "appleiap" /\ IsRealMode("appleiap", c) THEN n.trade ELSE n.order

WeChatStatus(s) ==
    CASE s = "SUCCESS"               -> "paid"
      [] s = "REFUND"                -> "refunded"
      [] s \in {"CLOSED", "REVOKED"} -> "closed"
      [] s = "PAYERROR"              -> "failed"
      [] OTHER                       -> "pending"

MapAlipayStatus(s) ==
    CASE s \in {"TRADE_SUCCESS", "TRADE_FINISHED"} -> "paid"
      [] s = "TRADE_CLOSED"                        -> "closed"
      [] OTHER                                     -> "pending"

MapAppleStatus(s) ==
    CASE s \in {"DID_RENEW", "SUBSCRIBED", "ONE_TIME_PURCHASE", "CONSUMABLE"} -> "paid"
      [] s \in {"REFUND", "REFUND_REVERSED"}                                  -> "refunded"
      [] s \in {"CANCEL", "REVOKE", "EXPIRED"}                                -> "closed"
      [] OTHER                                                                -> "pending"

\* The mock channel passes the status of its body through.
StatusOf(n) ==
    CASE n.ch = "mock"     -> n.state
      [] n.ch = "wechat"   -> WeChatStatus(n.state)
      [] n.ch = "alipay"   -> MapAlipayStatus(n.state)
      [] n.ch = "appleiap" -> MapAppleStatus(n.state)

\* The words a provider uses for a payment and for a refund of it.
PaidWord(ch) ==
    CASE ch = "mock"     -> "paid"
      [] ch = "wechat"   -> "SUCCESS"
      [] ch = "alipay"   -> "TRADE_SUCCESS"
      [] ch = "appleiap" -> "CONSUMABLE"

RefundWord(ch) ==
    CASE ch = "mock"     -> "refunded"
      [] ch = "wechat"   -> "REFUND"
      [] ch = "alipay"   -> "TRADE_CLOSED"
      [] ch = "appleiap" -> "REFUND"

----------------------------------------------------------------------------
(***************************************************************************)
(* The credential readiness report: one status per field of a channel.     *)
(***************************************************************************)
FieldStatus(c, f, absent) == IF f \in c.set THEN "ready" ELSE absent

SandboxCheck(c) == IF "sandbox" \in c.set THEN {"sandbox"} ELSE {}

CheckWeChatCredentials_Required(c) ==
    IF c.mock THEN {"mock"}
    ELSE {FieldStatus(c, f, "missing") :
             f \in {"mch_id", "api_v3_key", "serial_no", "api_client_key"}}
         \cup SandboxCheck(c)

CheckWeChatCredentials(c) ==
    IF c.mock THEN {"mock"}
    ELSE {FieldStatus(c, f, "missing") :
             f \in {"mch_id", "api_v3_key", "serial_no", "api_client_key"}}
         \cup {FieldStatus(c, "platform_public_key", "partial")}
         \cup SandboxCheck(c)

CheckAlipayCredentials(c) ==
    IF c.mock THEN {"mock"}
    ELSE {FieldStatus(c, f, "missing") : f \in {"app_id", "merchant_private_key"}}
         \cup {FieldStatus(c, "alipay_public_key", "partial")}
         \cup SandboxCheck(c)

CheckAppleIAPCredentials(c) ==
    IF c.mock THEN {"mock"}
    ELSE {FieldStatus(c, "bundle_id", "missing"),
          FieldStatus(c, "app_apple_id", "partial"),
          FieldStatus(c, "trusted_roots", "partial")}

\* cfg maps each channel to its configuration.
CheckAllCredentials(cfg) ==
    CheckWeChatCredentials(cfg["wechat"])
        \cup CheckAlipayCredentials(cfg["alipay"])
        \cup CheckAppleIAPCredentials(cfg["appleiap"])

AllReady(cfg) == CheckAllCredentials(cfg) \subseteq {"ready", "mock", "sandbox"}
=============================================================================
