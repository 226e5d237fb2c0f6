---------------------------- MODULE MCRenderers ----------------------------
EXTENDS Renderers

Uniform(name, type, binding, size) == [name |-> name, type |-> type, binding |-> binding, size |-> size]

a == Uniform("a", "Ubo", 0, 1)
b == Uniform("b", "Sampler", 1, 1)
c == Uniform("c", "Sampler", 2, 2)

File(inputs, outputs, shaders) ==
  [opens |-> TRUE, magic |-> TRUE, inputs |-> inputs, outputs |-> outputs, shaders |-> shaders]

Of(stage, uniforms) == [stage |-> stage, uniforms |-> uniforms]

\* The files of renderers that work: two uniforms, one and an array of two, none.
Plain ==
  {File(<<"vec3", "vec2">>, 1, <<Of("Vertex", <<a, b>>), Of("Fragment", <<b>>)>>),
   File(<<"vec3">>, 1, <<Of("Vertex", <<>>), Of("Fragment", <<c>>)>>),
   File(<<>>, 0, <<Of("Vertex", <<>>)>>)}

\* Files that do not, one for each reason.
Bad == [
  missing |-> [File(<<"vec3">>, 1, <<Of("Vertex", <<>>)>>) EXCEPT !.opens = FALSE],
  magic |-> [File(<<"vec3">>, 1, <<Of("Vertex", <<>>)>>) EXCEPT !.magic = FALSE],
  matrix |-> File(<<"mat4">>, 1, <<Of("Vertex", <<>>)>>),
  outputs |-> File(<<>>, 2, <<Of("Vertex", <<>>), Of("Fragment", <<>>)>>),
  tess |-> File(<<>>, 1, <<Of("Vertex", <<>>), Of("Tess_C", <<>>), Of("Tess_E", <<>>)>>),
  ssbo |-> File(<<>>, 1, <<Of("Vertex", <<Uniform("d", "Ssbo", 0, 1)>>)>>),
  input |-> File(<<>>, 1, <<Of("Vertex", <<Uniform("d", "InputImage", 0, 1)>>)>>),
  clash |-> File(<<>>, 1, <<Of("Vertex", <<a>>), Of("Fragment", <<Uniform("a", "Ubo", 3, 1)>>)>>)]

ASSUME WhichWork == (\A file \in Plain : Works(file)) /\ \A k \in DOMAIN Bad : ~Works(Bad[k])

=============================================================================
