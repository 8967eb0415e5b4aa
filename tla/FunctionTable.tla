---------------------------- MODULE FunctionTable ----------------------------
(***************************************************************************)
(* The function table from prepare_builtins to the end of type inference:  *)
(* definitions (execution, params, ret_type of parser.c), calls, which may *)
(* come before the definition (reduce_function of precedence_parser.c),    *)
(* the loop of program() that looks for undefined functions, and the check *)
(* of every call by the optimiser (func_call_inference_semantic_checks of  *)
(* ast.c).                                                                 *)
(*                                                                         *)
(* A call is [name, args], an argument [parsed, actual]: what the parser   *)
(* knows of its type (CF_UNKNOWN for an expression with a call inside) and *)
(* the type it turns out to have when all functions are known.  The        *)
(* optimiser meets the calls in source order.                              *)
(*                                                                         *)
(* The first error decides compiler_result and turns semantic_enabled off: *)
(* the rest of the input is parsed for its syntax alone and nothing reads  *)
(* the table again, so a state with an error is final here.                *)
(*                                                                         *)
(* Left out: the syntax of the statements around the calls, the variables  *)
(* that they define, the types of the return values, the rule that either  *)
(* all of them are named or none (the model lets them mix), the repeated   *)
(* inference of a call by the expressions around it (the passes of the     *)
(* optimiser repeat it here), and calls inside arguments that the check of *)
(* the outer call does not reach.                                          *)
(***************************************************************************)
EXTENDS SymbolTable

CONSTANTS
  Builtins,     \* what prepare_builtins declares, in order
  main, print,  \* two of the keys
  LocalNames,   \* the keys that parameters and return values are named by
  MaxCalls,     \* bound: calls in the program
  MaxParams,    \* bound: parameters of a function, arguments of a call
  MaxReturns    \* bound: return values of a function

ASSUME NamesAssumption == main \in Keys /\ print \in Keys /\ LocalNames \subseteq Keys
ASSUME BuiltinsAssumption ==
  Builtins \in Seq([name : Keys, params : Seq(Types), ret_types : Nat])

VARIABLES
  table,            \* function_table
  phase,            \* where the parser, or what follows it, is
  definition,       \* the function whose definition is being read
  locals,           \* the names in the table of its parameters
  calls,            \* the call nodes of all ASTs, in source order
  inferred,         \* how many of them this pass of the optimiser has checked
  cursor,           \* the loop variable `function' of program()
  compiler_result,
  declared          \* history: the parameters every definition in the source lists

vars == <<table, phase, definition, locals, calls, inferred, cursor, compiler_result, declared>>

Arguments == {a \in [parsed : DataTypes, actual : Types] : a.parsed \in {CF_UNKNOWN, a.actual}}
Calls == [name : Keys, args : Seq(Arguments)]

Phases == {"builtins", "execution", "params", "ret_type", "body", "check_defined", "inference", "accepted"}

Results == {"SUCCESS", "UNDEFINED_OR_REDEFINED", "WRONG_PARAMETER", "SEMANTIC_GENERAL", "INTERNAL"}

NoDefinition == [name |-> main, already_found |-> FALSE, current_param |-> 0]

semantic_enabled == compiler_result = "SUCCESS"

At(p) == phase = p /\ semantic_enabled

Fail(result) == compiler_result' = result

-----------------------------------------------------------------------------
Init ==
  /\ table = symtable_init
  /\ phase = "builtins"
  /\ definition = NoDefinition
  /\ locals = {}
  /\ calls = << >>
  /\ inferred = 0
  /\ cursor = NULL
  /\ compiler_result = "SUCCESS"
  /\ declared = [key \in Keys |-> << >>]

(* One block of prepare_builtins: the next builtin with its parameters and *)
(* return types, already defined.                                          *)
Declare(t, builtin) ==
  WithData(symtable_add(t, builtin.name), builtin.name,
           [NewFunction EXCEPT !.defined = TRUE, !.params = builtin.params,
                               !.ret_types = builtin.ret_types])

PrepareBuiltin ==
  /\ At("builtins")
  /\ table.size < Len(Builtins)
  /\ LET builtin == Builtins[table.size + 1]
     IN  IF Contains(table, builtin.name)
         THEN Fail("INTERNAL") /\ UNCHANGED <<table, declared>>
         ELSE /\ table' = Declare(table, builtin)
              /\ declared' = [declared EXCEPT ![builtin.name] = builtin.params]
              /\ UNCHANGED compiler_result
  /\ UNCHANGED <<phase, definition, locals, calls, inferred, cursor>>

PackageMain ==
  /\ At("builtins")
  /\ table.size = Len(Builtins)
  /\ phase' = "execution"
  /\ UNCHANGED <<table, definition, locals, calls, inferred, cursor, compiler_result, declared>>

-----------------------------------------------------------------------------
(* `func name (' in execution. *)
MarkDefined(t, name) == WithData(t, name, [DataOf(t, name) EXCEPT !.defined = TRUE])

IsDefined(t, name) == Contains(t, name) /\ DataOf(t, name).defined

Func(name) ==
  /\ At("execution")
  /\ IF IsDefined(table, name)
     THEN Fail("UNDEFINED_OR_REDEFINED") /\ UNCHANGED <<table, phase, definition, locals>>
     ELSE /\ table' = MarkDefined(symtable_add(table, name), name)
          /\ definition' = [name |-> name, already_found |-> Contains(table, name),
                            current_param |-> 1]
          /\ locals' = {}
          /\ phase' = "params"
          /\ UNCHANGED compiler_result
  /\ UNCHANGED <<calls, inferred, cursor, declared>>

(* A name enters the table of the function's variables: a second time is   *)
(* refused by symtable_add and reported as an internal error.  main may    *)
(* have neither parameters nor return values (cf_add_argument,             *)
(* cf_add_return_value); the error is reported first, and it stays.        *)
AddLocal(id) ==
  /\ locals' = locals \union {id}
  /\ compiler_result' = IF definition.name = main THEN "WRONG_PARAMETER"
                        ELSE IF id \in locals THEN "INTERNAL"
                        ELSE "SUCCESS"

(* The parameter predicted from a call at the place of the one being read. *)
Predicted == DataOf(table, definition.name).params

(* Mutant: parameters beyond the predicted ones are let pass. *)
WrongTypeOnly(type) ==
  /\ definition.current_param <= Len(Predicted)
  /\ Predicted[definition.current_param] \notin {CF_UNKNOWN, type}

Unexpected(type) ==
  \/ definition.current_param > Len(Predicted)
  \/ Predicted[definition.current_param] \notin {CF_UNKNOWN, type}

(* One turn of params and params_n, reading `id type'. *)
Param(id, type) ==
  /\ At("params")
  /\ Len(declared[definition.name]) < MaxParams
  /\ declared' = [declared EXCEPT ![definition.name] = Append(@, type)]
  /\ IF definition.already_found /\ Unexpected(type)
     THEN Fail("WRONG_PARAMETER") /\ UNCHANGED <<table, definition, locals>>
     ELSE /\ table' =
               IF definition.already_found
               THEN WithData(table, definition.name,
                      [DataOf(table, definition.name) EXCEPT
                         !.params[definition.current_param] = type])
               ELSE symtable_add_params(table, definition.name, <<type>>)
          /\ definition' = [definition EXCEPT !.current_param = @ + 1]
          /\ AddLocal(id)
  /\ UNCHANGED <<phase, calls, inferred, cursor>>

(* `)' ends the parameters, whatever was predicted beyond them. *)
EndOfParams ==
  /\ At("params")
  /\ phase' = "ret_type"
  /\ UNCHANGED <<table, definition, locals, calls, inferred, cursor, compiler_result, declared>>

(* A return value, named or not. *)
RetType ==
  /\ At("ret_type")
  /\ DataOf(table, definition.name).ret_types < MaxReturns
  /\ table' = symtable_add_ret_type(table, definition.name)
  /\ \/ \E id \in LocalNames : AddLocal(id)
     \/ /\ compiler_result' = IF definition.name = main THEN "WRONG_PARAMETER" ELSE "SUCCESS"
        /\ UNCHANGED locals
  /\ UNCHANGED <<phase, definition, calls, inferred, cursor, declared>>

OpenBody ==
  /\ At("ret_type")
  /\ phase' = "body"
  /\ UNCHANGED <<table, definition, locals, calls, inferred, cursor, compiler_result, declared>>

CloseBody ==
  /\ At("body")
  /\ phase' = "execution"
  /\ locals' = {}
  /\ definition' = NoDefinition
  /\ UNCHANGED <<table, calls, inferred, cursor, compiler_result, declared>>

-----------------------------------------------------------------------------
(* func_call_inference_semantic_checks: the arguments are compared one by  *)
(* one with the parameters; at a parameter of unknown type the function    *)
(* takes the argument's type and returns, which leaves the other arguments *)
(* and the number of parameters unchecked.                                 *)
Compared(params, types) ==
  {i \in DOMAIN types : \A j \in 1 .. i : j \in DOMAIN params => params[j] # CF_UNKNOWN}

(* Mutant: too few arguments are let pass. *)
TooFewPass(params, types) ==
  \E i \in Compared(params, types) :
    i \notin DOMAIN params \/ types[i] \notin {CF_UNKNOWN, params[i]}

(* Mutant: the number of parameters is compared although the comparison    *)
(* stopped early, and one too strictly.                                    *)
OneMoreExpected(params, types) ==
  TooFewPass(params, types) \/ Len(params) >= Len(types)

InferenceFails(params, types) ==
  \/ \E i \in Compared(params, types) :
       i \notin DOMAIN params \/ types[i] \notin {CF_UNKNOWN, params[i]}
  \/ Compared(params, types) = DOMAIN types /\ Len(params) > Len(types)

(* Mutant: the types of the last call win. *)
LastCallWins(params, types) ==
  [i \in DOMAIN params |-> IF i \in DOMAIN types THEN types[i] ELSE params[i]]

WithInferred(params, types) ==
  [i \in DOMAIN params |->
     IF /\ i \in DOMAIN types \ Compared(params, types)
        /\ i - 1 \in Compared(params, types) \union {0}
     THEN types[i] ELSE params[i]]

(* The check of one call in table t, when the arguments are known to have  *)
(* these types: print takes anything, a function not yet defined is let be. *)
Infer(t, name, types) ==
  IF name = print \/ ~DataOf(t, name).defined
  THEN table' = t /\ UNCHANGED compiler_result
  ELSE IF InferenceFails(DataOf(t, name).params, types)
  THEN table' = t /\ Fail("WRONG_PARAMETER")
  ELSE /\ table' = WithData(t, name,
                     [DataOf(t, name) EXCEPT !.params = WithInferred(@, types)])
       /\ UNCHANGED compiler_result

Parsed(args) == [i \in DOMAIN args |-> args[i].parsed]
Actual(args) == [i \in DOMAIN args |-> args[i].actual]

(* reduce_function: a call of an unknown function predicts its parameters, *)
(* a call of a known one may not have more arguments than it has           *)
(* parameters nor other types; fewer are let pass.                         *)
Predict(t, name, args) == symtable_add_params(symtable_add(t, name), name, Parsed(args))

DoesNotFit(t, name, args) ==
  /\ name # print
  /\ \E i \in DOMAIN args :
       \/ i \notin DOMAIN DataOf(t, name).params
       \/ /\ DataOf(t, name).params[i] # CF_UNKNOWN
          /\ args[i].parsed \notin {CF_UNKNOWN, DataOf(t, name).params[i]}

CountReference(t, name) == WithData(t, name, [DataOf(t, name) EXCEPT !.reference_counter = @ + 1])

(* The inference that follows the reduction knows the type of a call of a  *)
(* function that is defined already, so it may see more than the parser.   *)
Call(name, args) ==
  /\ At("body")
  /\ Len(calls) < MaxCalls
  /\ calls' = Append(calls, [name |-> name, args |-> args])
  /\ IF name \in locals
     THEN Fail("SEMANTIC_GENERAL") /\ UNCHANGED table
     ELSE IF Contains(table, name) /\ DoesNotFit(table, name, args)
     THEN Fail("WRONG_PARAMETER") /\ UNCHANGED table
     ELSE LET t == IF Contains(table, name) THEN table ELSE Predict(table, name, args)
          IN  \E known \in SUBSET DOMAIN args :
                Infer(CountReference(t, name), name,
                      [i \in DOMAIN args |->
                         IF i \in known THEN args[i].actual ELSE args[i].parsed])
  /\ UNCHANGED <<phase, definition, locals, inferred, cursor, declared>>

-----------------------------------------------------------------------------
(* The end of program(): main, then the loop over the table. *)
EndOfFile ==
  /\ At("execution")
  /\ IF ~IsDefined(table, main)
     THEN Fail("UNDEFINED_OR_REDEFINED") /\ UNCHANGED <<table, phase, cursor>>
     ELSE IF DataOf(table, main).ret_types # 0 \/ DataOf(table, main).params # << >>
     THEN Fail("WRONG_PARAMETER") /\ UNCHANGED <<table, phase, cursor>>
     ELSE /\ table' = WithData(table, main,
                        [DataOf(table, main) EXCEPT !.reference_counter = 1])
          /\ cursor' = symtable_get_first_item(table)
          /\ phase' = "check_defined"
          /\ UNCHANGED compiler_result
  /\ UNCHANGED <<definition, locals, calls, inferred, declared>>

CheckFunction ==
  /\ At("check_defined")
  /\ cursor # NULL
  /\ IF ItemAt(table, cursor).data.defined
     THEN cursor' = symtable_get_next_item(table, cursor) /\ UNCHANGED compiler_result
     ELSE Fail("UNDEFINED_OR_REDEFINED") /\ UNCHANGED cursor
  /\ UNCHANGED <<table, phase, definition, locals, calls, inferred, declared>>

AllChecked ==
  /\ At("check_defined")
  /\ cursor = NULL
  /\ phase' = "inference"
  /\ UNCHANGED <<table, definition, locals, calls, inferred, cursor, compiler_result, declared>>

(* The optimiser infers the type of every statement, as often as it makes  *)
(* a pass.                                                                 *)
InferCall ==
  /\ At("inference")
  /\ inferred < Len(calls)
  /\ Infer(table, calls[inferred + 1].name, Actual(calls[inferred + 1].args))
  /\ inferred' = inferred + 1
  /\ UNCHANGED <<phase, definition, locals, calls, cursor, declared>>

EndOfPass ==
  /\ At("inference")
  /\ inferred = Len(calls)
  /\ \/ inferred' = 0 /\ UNCHANGED phase
     \/ phase' = "accepted" /\ UNCHANGED inferred
  /\ UNCHANGED <<table, definition, locals, calls, cursor, compiler_result, declared>>

ArgumentLists == UNION {[1 .. n -> Arguments] : n \in 0 .. MaxParams}

Next ==
  \/ PrepareBuiltin \/ PackageMain
  \/ \E name \in Keys : Func(name)
  \/ \E id \in LocalNames, type \in Types : Param(id, type)
  \/ EndOfParams \/ RetType \/ OpenBody \/ CloseBody
  \/ \E name \in Keys, args \in ArgumentLists : Call(name, args)
  \/ EndOfFile \/ CheckFunction \/ AllChecked
  \/ InferCall \/ EndOfPass

Spec == Init /\ [][Next]_vars

-----------------------------------------------------------------------------
(* Every variable has its type. *)
TypeOK ==
  /\ table \in Tables
  /\ phase \in Phases
  /\ definition \in [name : Keys, already_found : BOOLEAN, current_param : Nat]
  /\ locals \subseteq LocalNames
  /\ calls \in Seq(Calls)
  /\ inferred \in Nat
  /\ cursor \in (Slots \X Nat) \union {NULL}
  /\ compiler_result \in Results
  /\ declared \in [Keys -> Seq(Types)]

(* symtable.c: every item is in the chain its key hashes to, no key is     *)
(* there twice, and size counts the items.                                 *)
TableWellFormed == WellFormed(table)

(* program(), parser.c:1060: the loop over the table passes no function    *)
(* that is not defined, so none is left when it has ended.                 *)
LoopPassesOnlyDefined ==
  At("check_defined") =>
    \A s \in Slots : \A i \in DOMAIN table.arr[s] :
      IsBefore(<<s, i>>, cursor) => table.arr[s][i].data.defined

(* After the loop every function of the table, called or not, is defined,  *)
(* and main takes nothing and returns nothing.                             *)
EveryFunctionDefined ==
  phase \in {"inference", "accepted"} =>
    /\ \A name \in Members(table) : DataOf(table, name).defined
    /\ main \in Members(table)
    /\ DataOf(table, main).params = << >>
    /\ DataOf(table, main).ret_types = 0

Matches(args, params) ==
  /\ Len(args) = Len(params)
  /\ \A i \in DOMAIN args : params[i] = args[i].actual

(* When the optimiser is through, the calls of a function that has no more *)
(* parameters in the table than in its definition agree with it, whether   *)
(* they came before the definition or after it.                            *)
CallsMatchUnlessOverpredicted ==
  phase = "accepted" /\ semantic_enabled =>
    \A i \in DOMAIN calls :
      LET name == calls[i].name
      IN  name # print /\ Len(DataOf(table, name).params) = Len(declared[name]) =>
            Matches(calls[i].args, declared[name])

IsPrefixOf(short, long) ==
  Len(short) <= Len(long) /\ \A i \in DOMAIN short : short[i] = long[i]

(* The parameters in the table begin with those of the definition; it has  *)
(* more only where a call before the definition predicted more.            *)
TableExtendsDeclaration ==
  semantic_enabled /\ phase \notin {"builtins", "params"} =>
    \A name \in Members(table) :
      DataOf(table, name).defined =>
        /\ IsPrefixOf(declared[name], DataOf(table, name).params)
        /\ Len(declared[name]) < Len(DataOf(table, name).params) =>
             \E i \in DOMAIN calls :
               calls[i].name = name /\ Len(calls[i].args) = Len(DataOf(table, name).params)

(* A program in which all calls agree with the definitions is not refused  *)
(* by the check of the optimiser.                                          *)
RefusedForAReason ==
  phase = "inference" /\ ~semantic_enabled =>
    \E i \in DOMAIN calls :
      calls[i].name # print /\ ~Matches(calls[i].args, declared[calls[i].name])

Complete(name) ==
  /\ IsDefined(table, name)
  /\ phase \in {"params", "ret_type"} => definition.name # name

(* Once its definition has been read, a function keeps its parameters: no  *)
(* later call adds one, and only an unknown type is ever replaced.         *)
PrototypesAreFinal ==
  [][\A name \in Members(table) : Complete(name) =>
       LET before == DataOf(table, name).params
           after  == DataOf(table, name)'.params
       IN  /\ Len(after) = Len(before)
           /\ \A i \in DOMAIN before : after[i] \in DataTypes /\ before[i] \in {CF_UNKNOWN, after[i]}
    ]_vars

(* The table is a map whatever the hash function, and the loop of          *)
(* program() is one look at all functions.                                 *)
Map == INSTANCE FunctionMap WITH
  Names <- Keys,
  Data <- FunctionData,
  functions <- [name \in Members(table) |-> DataOf(table, name)],
  verdict <- IF phase \in {"inference", "accepted"} THEN "complete"
             ELSE IF phase = "check_defined" /\ ~semantic_enabled THEN "undefined"
             ELSE "reading"

IsAMap == Map!Spec

(* documentation.tex:169: type inference checks that the number and the    *)
(* types of the arguments of a call agree with the function.  They agree   *)
(* with the table; the definition may list other parameters.               *)
CallsMatchDefinition ==
  phase = "accepted" /\ semantic_enabled =>
    \A i \in DOMAIN calls :
      calls[i].name # print => Matches(calls[i].args, declared[calls[i].name])

(* code_generator.c:1792: "When main is called from the code, it must be   *)
(* generated as a function", which tcg_generate does if main's reference   *)
(* counter is above 1.                                                     *)
CalledMainIsAFunction ==
  /\ phase = "accepted" /\ semantic_enabled
  /\ \E i \in DOMAIN calls : calls[i].name = main
  => DataOf(table, main).reference_counter > 1
=============================================================================
