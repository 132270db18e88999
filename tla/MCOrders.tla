------------------------------ MODULE MCOrders ------------------------------
EXTENDS Orders

Mocked == [mock |-> TRUE, set |-> {}]

WeChatKeys == {"mch_id", "api_v3_key", "api_v3_key_32", "serial_no",
               "api_client_key", "platform_public_key"}

\* Every channel with all its credentials.
FullConfig ==
    [mock     |-> Mocked,
     wechat   |-> [mock |-> FALSE, set |-> WeChatKeys],
     alipay   |-> [mock |-> FALSE, set |-> {"app_id", "merchant_private_key", "alipay_public_key"}],
     appleiap |-> [mock |-> FALSE, set |-> {"bundle_id", "app_apple_id", "trusted_roots"}]]

\* WeChat without the key its webhooks are verified with, Alipay mocked.
PartialConfig ==
    [FullConfig EXCEPT !["wechat"].set = WeChatKeys \ {"platform_public_key"},
                       !["alipay"] = Mocked]

\* Every credential is there, yet WeChat's APIv3 key is too short and a root of
\* Apple's does not parse.
MalformedConfig ==
    [FullConfig EXCEPT !["wechat"].set = WeChatKeys \ {"api_v3_key_32"},
                       !["appleiap"].set = @ \cup {"bad_key"}]

MCConfigs == {FullConfig, PartialConfig, MalformedConfig}

\* Goroutines that are at the same place are interchangeable: no action and no
\* property depends on which came first.  A state is looked at once, with the bag of
\* its goroutines in place of their list.
JobBag == [b \in {jobs[j] : j \in DOMAIN jobs} |-> Cardinality({j \in DOMAIN jobs : jobs[j] = b})]

MCView == <<cfg, rows, answered, outbox, prepays, notices, sent, nonces, remote,
            JobBag, round, restarts, moved, acted, refunds>>
=============================================================================
