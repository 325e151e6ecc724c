------------------------------- MODULE Config -------------------------------
(***************************************************************************)
(* Config, ConfigBuilder, the presets and EnvConfig of                     *)
(* src/src/config.cpp and src/include/usercanal/config.hpp: a              *)
(* configuration starts from the defaults, is changed by setters or        *)
(* builder calls without a check, and is validated by build().             *)
(* NetworkConfigValidator of src/src/network.cpp is a second validation of *)
(* the network's part, with rules of its own.  Kept are the fields that a  *)
(* validation or a consumer looks at, in the source's units, but           *)
(* max_memory_usage in KB.                                                 *)
(***************************************************************************)
EXTENDS Integers

CONSTANTS
  Ports,        \* the numbers std::stoul reads in the port of an endpoint
  NoPort,       \* it reads none there: 2^64 or more, no number, or no colon
  BatchSizes,   \* values of UC_BATCH_SIZE and of the batching calls
  Intervals,    \* values of UC_FLUSH_INTERVAL_MS and of the calls that take times
  MaxChanges,   \* bound: builder calls before one build
  Unset         \* an environment variable that is not set, or not a number

ASSUME ConfigAssumption ==
  /\ MaxChanges \in Nat
  /\ Ports \union BatchSizes \union Intervals \subseteq Nat
  /\ NoPort \notin Nat

VARIABLES
  config,   \* the builder's config_
  changes,  \* calls made on it so far
  built     \* what the last call of "call" returned, and in "from" the preset or
            \* the environment it was made from

settings == <<config, changes, built>>

Keys == {"hexadecimal", "other"}

\* "name" is a host name or an address, "dashed" one with a dash or a dot at an
\* end, "other" has characters neither validation allows.  The port is digits and
\* nothing else, or it has a sign, a blank before it or text after it.
Endpoints ==
  [host : {"name", "dashed", "other"}, port : Ports \union {NoPort},
   digits : BOOLEAN]
Environments ==
  [key : Keys \union {Unset}, endpoint : Endpoints \union {Unset},
   batch_size : BatchSizes \union {Unset}, interval : Intervals \union {Unset}]

\* The constructor.
Defaults(key) ==
  [key |-> key, host |-> "name", port |-> 50000, digits |-> TRUE,
   connect_timeout |-> 5000, send_timeout |-> 10000, receive_timeout |-> 5000,
   max_retries |-> 3, retry_delay |-> 1000, backoff_multiplier |-> 2,
   event_batch_size |-> 100, log_batch_size |-> 50,
   event_flush_interval |-> 5000, log_flush_interval |-> 2000,
   max_batch_size_bytes |-> 1048576, max_queue_size |-> 10000,
   thread_pool_size |-> 2, max_memory_usage |-> 51200, buffer_pool_size |-> 100]

-----------------------------------------------------------------------------
(***************************************************************************)
(* Validation by Config.  The pattern of an endpoint allows any digits,    *)
(* and digits only, after the colon; receive_timeout and retry_delay are   *)
(* not looked at.                                                          *)
(***************************************************************************)
NetworkFields ==
  {"connect_timeout", "send_timeout", "max_retries", "backoff_multiplier"}

InRange(c, field) ==
  LET v == c[field]
      within(low, high) == low <= v /\ v <= high
  IN  CASE field \in {"connect_timeout", "send_timeout"} -> within(100, 300000)
        [] field = "max_retries" -> within(0, 10)
        [] field = "backoff_multiplier" -> within(1, 10)
        [] field \in {"event_batch_size", "log_batch_size"} -> within(1, 10000)
        [] field = "event_flush_interval" -> within(100, 300000)
        [] field = "log_flush_interval" -> within(50, 300000)
        [] field = "max_queue_size" -> within(1, 1000000)
        [] field = "max_batch_size_bytes" -> within(1024, 104857600)
        [] field = "thread_pool_size" -> within(1, 64)
        [] field = "max_memory_usage" -> within(1024, 10485760)
        [] field = "buffer_pool_size" -> v <= 10000
        [] OTHER -> TRUE

TakesNetwork(c) ==
  /\ c.host # "other" /\ c.digits
  /\ \A field \in NetworkFields : InRange(c, field)

IsValid(c) ==
  /\ c.key = "hexadecimal"
  /\ TakesNetwork(c)
  /\ \A field \in DOMAIN c \ NetworkFields : InRange(c, field)

\* No configuration.
Refused == [valid |-> FALSE, config |-> Unset]

\* build(): the configuration, or the ConfigError that validate() throws.
Validated(c) ==
  [valid |-> IsValid(c), config |-> c]

-----------------------------------------------------------------------------
(***************************************************************************)
(* NetworkConfigValidator.                                                 *)
(***************************************************************************)
\* static_cast<uint16_t>
Cut(port) == port % 65536

\* parse_endpoint() cuts what std::stoul reads, whatever stands around it; what
\* std::stoul refuses becomes host "" and port 0.
ValidEndpoint(c) == c.host = "name" /\ c.port # NoPort /\ Cut(c.port) > 0

\* Fault: the lower limit is one too low.
ValidTimeoutLow(ms) == 99 <= ms /\ ms <= 300000

ValidTimeout(ms) == 100 <= ms /\ ms <= 300000

ValidRetries(c) ==
  /\ 0 <= c.max_retries /\ c.max_retries <= 10
  /\ 100 <= c.retry_delay /\ c.retry_delay <= 60000
  /\ 1 <= c.backoff_multiplier /\ c.backoff_multiplier <= 10

ValidNetwork(c) ==
  /\ ValidEndpoint(c)
  /\ ValidTimeout(c.connect_timeout)
  /\ ValidTimeout(c.send_timeout)
  /\ ValidTimeout(c.receive_timeout)
  /\ ValidRetries(c)

-----------------------------------------------------------------------------
(***************************************************************************)
(* Builder calls.                                                          *)
(***************************************************************************)
Endpoint(c, e) ==
  [c EXCEPT !.host = e.host, !.port = e.port, !.digits = e.digits]

Batching(c, events, logs, event_interval, log_interval) ==
  [c EXCEPT !.event_batch_size = events, !.log_batch_size = logs,
            !.event_flush_interval = event_interval,
            !.log_flush_interval = log_interval]

Retries(c, n, delay, multiplier) ==
  [c EXCEPT !.max_retries = n, !.retry_delay = delay,
            !.backoff_multiplier = multiplier]

Timeouts(c, connect, send, receive) ==
  [c EXCEPT !.connect_timeout = connect, !.send_timeout = send,
            !.receive_timeout = receive]

QueueLimits(c, items, bytes) ==
  [c EXCEPT !.max_queue_size = items, !.max_batch_size_bytes = bytes]

Performance(c, threads, memory) ==
  [c EXCEPT !.thread_pool_size = threads, !.max_memory_usage = memory]

Collector(c) == Endpoint(c, [host |-> "name", port |-> 50000, digits |-> TRUE])

Preset(name, c) ==
  CASE name = "development" ->
         Retries(Batching(Collector(c), 10, 5, 1000, 500), 2, 500, 2)
    [] name = "production" ->
         Retries(Batching(Collector(c), 100, 50, 5000, 2000), 3, 1000, 2)
    [] name = "high_throughput" ->
         QueueLimits(Performance(Batching(Collector(c), 500, 200, 10000, 5000),
                                 4, 102400), 50000, 5242880)
    [] name = "low_latency" ->
         Performance(Timeouts(Batching(Collector(c), 1, 1, 100, 50), 1000, 2000, 1000),
                     2, 10240)
    [] name = "minimal_resource" ->
         QueueLimits(Performance(Batching(Collector(c), 20, 10, 10000, 5000),
                                 1, 5120), 1000, 262144)

Presets == {"development", "production", "high_throughput", "low_latency",
            "minimal_resource"}

-----------------------------------------------------------------------------
(***************************************************************************)
(* EnvConfig::from_environment().                                          *)
(***************************************************************************)
WithEndpoint(env, c) ==
  IF env.endpoint = Unset THEN c ELSE Endpoint(c, env.endpoint)

WithBatchSize(env, c) ==
  IF env.batch_size = Unset THEN c
  ELSE Batching(c, env.batch_size, env.batch_size \div 2, 5000, 2000)

\* Fault: the log interval is not halved.
WithIntervalTwice(env, c) ==
  IF env.interval = Unset THEN c
  ELSE Batching(c, 100, 50, env.interval, env.interval * 2)

WithInterval(env, c) ==
  IF env.interval = Unset THEN c
  ELSE Batching(c, 100, 50, env.interval, env.interval \div 2)

FromEnvironment(env) ==
  IF env.key = Unset THEN Refused
  ELSE Validated(WithInterval(env, WithBatchSize(env,
                   WithEndpoint(env, Defaults(env.key)))))

-----------------------------------------------------------------------------
(***************************************************************************)
(* The steps.                                                              *)
(***************************************************************************)
Result(call, from, outcome) ==
  [call |-> call, from |-> from, valid |-> outcome.valid,
   config |-> outcome.config]
Nothing == Result("none", "none", Refused)

ConfigInit ==
  /\ config \in {Defaults(key) : key \in Keys}
  /\ changes = 0
  /\ built = Nothing

\* A builder call; nothing is checked, and what was built before is a copy.
Change(c) ==
  /\ changes < MaxChanges
  /\ changes' = changes + 1
  /\ config' = c
  /\ built' = Nothing

SetEndpoint == \E e \in Endpoints : Change(Endpoint(config, e))
SetTimeouts == \E i, j, k \in Intervals : Change(Timeouts(config, i, j, k))
SetRetries ==
  \E n, m \in BatchSizes, i \in Intervals : Change(Retries(config, n, i, m))
SetBatching ==
  \E m, n \in BatchSizes, i, j \in Intervals : Change(Batching(config, m, n, i, j))
SetQueueLimits ==
  \E n \in BatchSizes, bytes \in {1023, 1024} : Change(QueueLimits(config, n, bytes))
SetPerformance ==
  \E n \in BatchSizes, memory \in {1023, 1024} : Change(Performance(config, n, memory))

Build ==
  /\ built' = Result("build", "config", Validated(config))
  /\ UNCHANGED <<config, changes>>

\* The presets and from_environment() are static: they read no builder, so one
\* call of each kind, before any other, is every case of it.
BuildPreset(name) ==
  /\ changes = 0 /\ built = Nothing
  /\ built' = Result("preset", name, Validated(Preset(name, Defaults(config.key))))
  /\ UNCHANGED <<config, changes>>

Load ==
  /\ changes = 0 /\ built = Nothing
  /\ \E env \in Environments :
       built' = Result("from_environment", env, FromEnvironment(env))
  /\ UNCHANGED <<config, changes>>

ConfigNext ==
  \/ SetEndpoint \/ SetTimeouts \/ SetRetries \/ SetBatching
  \/ SetQueueLimits \/ SetPerformance
  \/ Build \/ Load
  \/ \E name \in Presets : BuildPreset(name)

ConfigSpec == ConfigInit /\ [][ConfigNext]_settings

-----------------------------------------------------------------------------
(***************************************************************************)
(* Properties.                                                             *)
(***************************************************************************)

\* What a preset or from_environment() gives, when validation accepts it,
\* flushes logs at least as often as events and in batches no larger,
\* whichever variables are set together (config.cpp:269-287, 373-404), and a
\* full batch of either kind fits in the queue, which validation does not see.
LogsGoFirst ==
  built.call \in {"preset", "from_environment"} /\ built.valid =>
    /\ built.config.log_flush_interval <= built.config.event_flush_interval
    /\ built.config.log_batch_size <= built.config.event_batch_size
    /\ built.config.event_batch_size <= built.config.max_queue_size

\* How far the two validations agree (config.cpp:191-214, network.cpp:536-590):
\* what NetworkConfigValidator takes, whatever the builder was told, Config takes
\* as well, exactly if the port is digits and nothing else; and what a preset or
\* an environment gives and Config takes, NetworkConfigValidator takes exactly if
\* the host name has no dash or dot at an end and the port is a number that
\* std::stoul reads and that is not 0 once it is cut to 16 bits.
ValidatorsAgree ==
  /\ built.call = "build" /\ ValidNetwork(built.config) =>
       (TakesNetwork(built.config) <=> built.config.digits)
  /\ built.call \in {"preset", "from_environment"} /\ built.valid =>
       (ValidNetwork(built.config) <=>
          /\ built.config.host = "name"
          /\ built.config.port # NoPort /\ Cut(built.config.port) # 0)
=============================================================================
