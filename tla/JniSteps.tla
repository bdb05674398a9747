------------------------------ MODULE JniSteps ------------------------------
(***************************************************************************)
(* The steps a function of the Android binding is made of                  *)
(* (android/olm-sdk/src/main/jni).  Each of them may fail; most functions  *)
(* then set errorMessage, skip the steps that follow, clean up and throw a *)
(* Java exception, and a step says so when they do otherwise.              *)
(***************************************************************************)
EXTENDS Sequences

Step(does, buffer) == [does |-> does, buffer |-> buffer, otherwise |-> "throws"]

Handle == Step("handle", "-")               \* getInstanceId(): is mNativeId 0?
Given(argument) == Step("given", argument)  \* is the argument, or the field of
                                            \* it that is asked for, there?
Get(b) == Step("get", b)                    \* GetByteArrayElements, GetString-
                                            \* UTFChars: b is a copy
Malloc(b) == Step("malloc", b)
Make == Step("make", "object")              \* malloc() and olm_account() etc.
Random(b) == Step("random", b)              \* setRandomInBuffer()
RandomIfAny(b) == Step("random_if_any", b)  \* if the length asked for is not 0
Olm == Step("olm", "-")                     \* a call of the library, which
                                            \* writes the buffers it is given
SetTheirKey == Step("set_their_key", "-")   \* olm_sas_set_their_key()
GenerateBytes == Step("generate_bytes", "-")  \* olm_sas_generate_bytes()
Value(b) == Step("value", b)                \* NewByteArray and SetByteArray-
                                            \* Region: b is the value returned
Wipe(b) == Step("wipe", b)                  \* memset() on the way

(* No exception: Java sees null, false or 0, or nothing at all.            *)
Silently(step) == [step EXCEPT !.otherwise = "silent"]
(* The result is not looked at, and NULL is used: the process dies.        *)
Unchecked(step) == [step EXCEPT !.otherwise = "aborts"]
(* The result is not looked at, and the function goes on.                  *)
Ignored(step) == [step EXCEPT !.otherwise = "ignored"]
(* The clean-up of the buffer is in the branch of success, but the buffer  *)
(* may have been made when the step fails.                                 *)
Leaving(step) == [step EXCEPT !.otherwise = "leaves"]

(* A function: its steps, the buffers it frees or releases when it ends,   *)
(* those of them it wipes first, and what else it frees after an error.    *)
Jni(does, fn, steps, frees, wipes, onError) ==
    [does |-> does, fn |-> fn, steps |-> steps, frees |-> frees, wipes |-> wipes,
     onError |-> onError]
Call(fn, steps, frees, wipes) == Jni("call", fn, steps, frees, wipes, {})
Create(fn, steps, frees, wipes, onError) ==
    Jni("create", fn, steps, frees, wipes, onError)
Unpickle(fn, steps) ==
    Jni("unpickle", fn, steps, {"key", "pickle"}, {"key"}, {"object"})
Release(fn) == Jni("release", fn, <<Silently(Handle)>>, {}, {}, {})
=============================================================================
