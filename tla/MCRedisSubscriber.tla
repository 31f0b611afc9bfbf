---- MODULE MCRedisSubscriber ----
(* Instance of RedisSubscriber: model values for threads and channels.      *)
EXTENDS RedisSubscriber
CONSTANTS i1, i2, x, y
====
