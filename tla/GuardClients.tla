---------------------------- MODULE GuardClients ----------------------------
(***************************************************************************)
(* The clients scripts/p40_*_client.py, as data: which guard's command     *)
(* they send over ssh, and how many seconds they wait for the answer.  A   *)
(* client that reads results waits 30 s and starts nothing.  The guards    *)
(* T36 to T41 and T43 to T46 have no client: an operator calls them by     *)
(* hand.                                                                   *)
(***************************************************************************)
EXTENDS Naturals

Client(guard, seconds) == [asks |-> guard, waits |-> seconds]

CanaryClient == Client("canary", 480)

\* one script with three profiles
QwenControlClients ==
    {Client(g, 2400) : g \in {"qwen", "control64", "control256"}}

T05aClient == Client("t05a", 1200)
T05bClient == Client("t05b", 1200)
T05cClient == Client("t05c", 1500)
T05dClient == Client("t05d", 1500)
T05eClient == Client("t05e", 1200)
T05fClient == Client("t05f", 1200)
T05gClient == Client("t05g", 1500)
T06Client == Client("t06", 2400)
T06bClient == Client("t06b", 2400)
T06cClient == Client("t06c", 2400)
T07Client == Client("t07", 2400)
\* faulty variant: the patience of the primitive canary's client
T08ClientShort == Client("t08", 450)

T08Client == Client("t08", 900)
T09Client == Client("t09", 2400)
T10Client == Client("t10", 2400)
T11Client == Client("t11", 900)
T12Client == Client("t12", 2400)
T13Client == Client("t13", 2400)
T14Client == Client("t14", 900)
T15Client == Client("t15", 2400)
T16Client == Client("t16", 2400)
T17Client == Client("t17", 900)
T18Client == Client("t18", 900)
T19Client == Client("t19", 900)
T20Client == Client("t20", 900)
T21Client == Client("t21", 2400)
T22Client == Client("t22", 2400)
T23Client == Client("t23", 2400)
T24Client == Client("t24", 2400)
T25Client == Client("t25", 2400)
T26Client == Client("t26", 2400)
T27Client == Client("t27", 2400)
T28Client == Client("t28", 2400)
T29Client == Client("t29", 2400)
T30Client == Client("t30", 2400)
T31Client == Client("t31", 2400)
T32Client == Client("t32", 2400)
T34Client == Client("t34", 2400)
T42Client == Client("t42", 2400)

Clients ==
    QwenControlClients \union
    {CanaryClient,
     T05aClient, T05bClient, T05cClient, T05dClient, T05eClient,
     T05fClient, T05gClient, T06Client, T06bClient, T06cClient,
     T07Client, T08Client, T09Client, T10Client, T11Client,
     T12Client, T13Client, T14Client, T15Client, T16Client,
     T17Client, T18Client, T19Client, T20Client, T21Client,
     T22Client, T23Client, T24Client, T25Client, T26Client,
     T27Client, T28Client, T29Client, T30Client, T31Client,
     T32Client, T34Client, T42Client}
=============================================================================
